---------------------------- MODULE QualityClaim ----------------------------
(***************************************************************************)
(* QualityService: the inspection of a sales return, the claim it raises   *)
(* against a supplier and the settlements of the claim.                    *)
(*                                                                         *)
(* settleClaim takes four steps: it looks its key up and validates the     *)
(* payload against the claim as it is, saves a draft settlement with its   *)
(* idempotency record (first transaction), reads settlement and claim      *)
(* again, and posts (second transaction) with the claim it has read.  The  *)
(* request may fail or the process die between any two of them.            *)
(*                                                                         *)
(* Each return has one item, so its inspection raises at most one claim    *)
(* of one item, and both are named by the return.  The kernel posts in one *)
(* step; locations are left out, and it may refuse a posting on account of *)
(* them.                                                                   *)
(***************************************************************************)
EXTENDS Totals

CONSTANTS
    Return,      \* sales returns that have been received
    Returned,    \* Returned[r]: quantity received
    Supplied,    \* Supplied[r]: quantity of it from batches of the supplier
    Cost,        \* unitCost of the items
    Payload,     \* the settlements clients ask for
    BatchNo,     \* batch numbers of replacements
    Settlement,  \* bound: the settlements there can be
    Key,
    Process,     \* requests that may be in progress at the same time
    None

\* quantity, amount and dispose are 0 where the client leaves them out;
\* onItem: the claim item is given.
PayloadRow == [type : {"REPLACEMENT", "SCRAP", "CASH", "CREDIT", "REJECTED",
                       "SELF_BEAR"},
               onItem : BOOLEAN, quantity : Nat, amount : Nat, dispose : Nat,
               batch : BatchNo \cup {None}]

ASSUME QualityAssumption ==
    /\ IsFiniteSet(Return)
    /\ IsFiniteSet(Settlement)
    /\ Returned \in [Return -> Nat \ {0}]
    /\ Supplied \in [Return -> Nat]
    /\ \A r \in Return : Supplied[r] <= Returned[r]
    /\ Cost \in Nat
    /\ Payload \subseteq PayloadRow
    /\ None \notin Return \cup Settlement \cup Key \cup BatchNo

VARIABLES
    inspection, \* QualityInspection with its item
    stock,      \* on hand of the sku, by stock status
    restored,   \* what batches of a return have got back
    issue,      \* QualityIssue.status
    claim,      \* SupplierClaim with its item
    settlement, \* SupplierClaimSettlement
    owed,       \* the receivable or credit of a settlement
    batches,    \* the batch numbers that exist
    saved,      \* IdempotencyRecord of settleClaim: saved[r][k]
    proc        \* requests in progress

vars == <<inspection, stock, restored, issue, claim, settlement, owed,
          batches, saved, proc>>

inspections == <<inspection, restored, issue>>
claims == <<claim, settlement, owed, saved>>

StockStatus == {"QC_PENDING", "AVAILABLE", "DEFECTIVE", "SUPPLIER_CLAIM",
                "SCRAPPED"}

NoSplit == [good |-> 0, defective |-> 0, claim |-> 0, scrap |-> 0]

NoClaim == [status |-> "ABSENT", quantity |-> 0, claimed |-> 0, settled |-> 0]

NoPayload == [type |-> "REJECTED", onItem |-> FALSE, quantity |-> 0,
              amount |-> 0, dispose |-> 0, batch |-> None]

NoSettlement == [status |-> "ABSENT", claim |-> None, payload |-> NoPayload,
                 amount |-> 0]

\* seen: settledAmount of the claim as it was read.
IdleProc == [op |-> "idle", id |-> None, key |-> None, split |-> NoSplit,
             payload |-> NoPayload, amount |-> 0, seen |-> 0]

Init ==
    /\ inspection = [r \in Return |-> [status |-> "ABSENT", split |-> NoSplit]]
    /\ stock = [t \in StockStatus |-> IF t = "QC_PENDING"
                                      THEN Total(Returned) ELSE 0]
    /\ restored = [r \in Return |-> 0]
    /\ issue = [r \in Return |-> "ABSENT"]
    /\ claim = [r \in Return |-> NoClaim]
    /\ settlement = [s \in Settlement |-> NoSettlement]
    /\ owed = [s \in Settlement |-> 0]
    /\ batches = {}
    /\ saved = [r \in Return |-> [k \in Key |-> None]]
    /\ proc = [p \in Process |-> IdleProc]

Loads(p, row) == proc[p].op = "idle" /\ proc' = [proc EXCEPT ![p] = row]

Ends(p) == proc' = [proc EXCEPT ![p] = IdleProc]

\* Stock after a movement that leaves nothing negative.
Move(change) ==
    /\ stock' = [t \in StockStatus |-> stock[t] + change[t]]
    /\ \A t \in StockStatus : stock'[t] >= 0

(***************************************************************************)
(* Inspections.                                                            *)
(***************************************************************************)

\* The whole quantity is split, and the supplier is charged for no more than
\* its batches delivered.
Splits(r) ==
    {split \in [good : 0..Returned[r], defective : 0..Returned[r],
                claim : 0..Returned[r], scrap : 0..Returned[r]] :
        /\ split.good + split.defective + split.claim + split.scrap = Returned[r]
        /\ split.claim <= Supplied[r]}

LoadCreateInspection(p, r, split) ==
    /\ inspection[r].status = "ABSENT"
    /\ Loads(p, [IdleProc EXCEPT !.op = "create", !.id = r, !.split = split])
    /\ UNCHANGED <<inspections, stock, batches, claims>>

\* salesReturnId is unique: the second of two inserts fails.
CreateInspection(p) ==
    LET r == proc[p].id IN
    /\ proc[p].op = "create"
    /\ inspection[r].status = "ABSENT"
    /\ inspection' = [inspection EXCEPT ![r] =
                         [status |-> "DRAFT", split |-> proc[p].split]]
    /\ Ends(p)
    /\ UNCHANGED <<stock, restored, issue, batches, claims>>

\* Asked of a retry as well: the kernel gets no chance to find its record.
LoadConfirm(p, r) ==
    /\ inspection[r].status = "DRAFT"
    /\ Loads(p, [IdleProc EXCEPT !.op = "confirm", !.id = r])
    /\ UNCHANGED <<inspections, stock, batches, claims>>

\* Mutant: finalize does not look at the status again.
ConfirmableAgain(r) == inspection[r].status # "ABSENT"

Confirmable(r) == inspection[r].status = "DRAFT"

\* Lines of the posting: everything leaves QC_PENDING for what it was found.
SplitMoves(r, split) ==
    [t \in StockStatus |-> CASE t = "QC_PENDING"     -> - Returned[r]
                             [] t = "AVAILABLE"      -> split.good
                             [] t = "DEFECTIVE"      -> split.defective
                             [] t = "SUPPLIER_CLAIM" -> split.claim
                             [] t = "SCRAPPED"       -> split.scrap]

Bad(split) == split.defective + split.claim + split.scrap

\* The posting and finalize: batches get the good quantity back (the traces of
\* a return cover its quantity), what is bad becomes an issue, what the
\* supplier answers for a claim.
ConfirmInspection(p) ==
    LET r == proc[p].id
        split == inspection[r].split
    IN
    /\ proc[p].op = "confirm"
    /\ Confirmable(r)
    /\ Move(SplitMoves(r, split))
    /\ restored' = [restored EXCEPT ![r] = @ + split.good]
    /\ issue' = [issue EXCEPT ![r] = IF Bad(split) = 0 THEN @
                                     ELSE IF split.claim > 0 THEN "CLAIMED"
                                     ELSE "OPEN"]
    /\ claim' = [claim EXCEPT ![r] =
                    IF split.claim = 0 THEN @
                    ELSE [status |-> "SUBMITTED", quantity |-> split.claim,
                          claimed |-> split.claim * Cost, settled |-> 0]]
    /\ inspection' = [inspection EXCEPT ![r].status = "CONFIRMED"]
    /\ Ends(p)
    /\ UNCHANGED <<settlement, owed, batches, saved>>

(***************************************************************************)
(* Settlements: validate and prepare.                                      *)
(***************************************************************************)

Finished(status) == status \in {"SETTLED", "REJECTED", "CLOSED"}

PostedFor(r) ==
    {s \in Settlement : /\ settlement[s].status = "POSTED"
                        /\ settlement[s].claim = r}

\* What posted settlements on the claim item have used of its quantity.
Used(r) ==
    Total([s \in PostedFor(r) |-> IF settlement[s].payload.onItem
                                  THEN settlement[s].payload.quantity ELSE 0])

\* The amount of a settlement: the one given, else in proportion.
AmountOf(payload) ==
    IF payload.amount > 0 THEN payload.amount
    ELSE IF payload.onItem THEN payload.quantity * Cost ELSE 0

FieldsGiven(payload) ==
    CASE payload.type = "REPLACEMENT" ->
            payload.onItem /\ payload.quantity > 0 /\ payload.batch # None
      [] payload.type = "SCRAP" -> payload.onItem /\ payload.quantity > 0
      [] payload.type \in {"CASH", "CREDIT"} -> payload.amount > 0
      [] OTHER -> TRUE

ValidSettlement(r, payload) ==
    /\ FieldsGiven(payload)
    /\ payload.onItem => Used(r) + payload.quantity <= claim[r].quantity
    /\ claim[r].settled + AmountOf(payload) <= claim[r].claimed

\* No record under the key; the claim is open and the payload fits.
LoadSettle(p, r, k, payload) ==
    /\ claim[r].status # "ABSENT"
    /\ saved[r][k] = None
    /\ ~ Finished(claim[r].status)
    /\ ValidSettlement(r, payload)
    /\ Loads(p, [IdleProc EXCEPT !.op = "prepare", !.id = r, !.key = k,
                    !.payload = payload, !.amount = AmountOf(payload)])
    /\ UNCHANGED <<inspections, stock, batches, claims>>

\* Mutant: the transaction does not look the key up again.
NeverFound(r, k) == None

Found(r, k) == saved[r][k]

PrepareSettlement(p) ==
    LET r == proc[p].id
        k == proc[p].key
    IN
    /\ proc[p].op = "prepare"
    /\ Found(r, k) = None
    /\ proc[p].payload.batch \notin batches
    /\ \E s \in Settlement :
         /\ settlement[s].status = "ABSENT"
         /\ settlement' = [settlement EXCEPT ![s] =
                              [status |-> "DRAFT", claim |-> r,
                               payload |-> proc[p].payload,
                               amount |-> proc[p].amount]]
         /\ saved' = [saved EXCEPT ![r][k] = s]
         /\ proc' = [proc EXCEPT ![p].op = "fetch", ![p].id = s]
    /\ UNCHANGED <<inspections, stock, claim, owed, batches>>

\* Another request has prepared the same under the same key in the meantime.
FindPrepared(p) ==
    LET s == Found(proc[p].id, proc[p].key) IN
    /\ proc[p].op = "prepare"
    /\ s # None
    /\ settlement[s].payload = proc[p].payload
    /\ proc' = [proc EXCEPT ![p].op = "fetch", ![p].id = s]
    /\ UNCHANGED <<inspections, stock, batches, claims>>

(***************************************************************************)
(* Settlements: read again and post.                                       *)
(***************************************************************************)

\* The settlement and its claim are read; one that is posted is the answer.
FetchSettlement(p) ==
    LET s == proc[p].id IN
    /\ proc[p].op = "fetch"
    /\ IF settlement[s].status = "POSTED" THEN Ends(p)
       ELSE proc' = [proc EXCEPT ![p].op = "post",
                        ![p].seen = claim[settlement[s].claim].settled]
    /\ UNCHANGED <<inspections, stock, batches, claims>>

StatusAfter(r, settled, type) ==
    CASE type = "REJECTED"              -> "REJECTED"
      [] type \in {"SELF_BEAR", "SCRAP"} -> "CLOSED"
      [] OTHER -> IF settled >= claim[r].claimed THEN "SETTLED"
                  ELSE "PARTIALLY_SETTLED"

\* The amount is added to what the claim had settled when it was read.
SettledAfter(p, s) == proc[p].seen + settlement[s].amount

\* applyClaimSettlement
ApplyClaimSettlement(p, s) ==
    LET r == settlement[s].claim
        settled == SettledAfter(p, s)
        status == StatusAfter(r, settled, settlement[s].payload.type)
    IN
    /\ claim' = [claim EXCEPT ![r].settled = settled, ![r].status = status]
    /\ issue' = [issue EXCEPT ![r] = IF Finished(status) THEN "RESOLVED" ELSE @]

NeedsStock(payload) == payload.type \in {"REPLACEMENT", "SCRAP"}

\* Mutant: the transaction does not look whether it is still a draft.
ExistingSettlement(s) == settlement[s].status # "ABSENT"

DraftSettlement(s) == settlement[s].status = "DRAFT"

\* Cash compensation and credit become what the supplier owes; a rejected or
\* borne claim leaves nothing.
PostNonInventory(p) ==
    LET s == proc[p].id
        payload == settlement[s].payload
    IN
    /\ proc[p].op = "post"
    /\ ~ NeedsStock(payload)
    /\ DraftSettlement(s)
    /\ owed' = [owed EXCEPT ![s] = IF payload.type \in {"CASH", "CREDIT"}
                                   THEN @ + settlement[s].amount ELSE @]
    /\ settlement' = [settlement EXCEPT ![s].status = "POSTED"]
    /\ ApplyClaimSettlement(p, s)
    /\ Ends(p)
    /\ UNCHANGED <<inspection, stock, restored, batches, saved>>

\* A replacement enters as available stock and may take claimed stock to
\* scrap; a scrapped claim takes its quantity there.
SettlementMoves(payload) ==
    LET scrapped == IF payload.type = "SCRAP" THEN payload.quantity
                                              ELSE payload.dispose
    IN [t \in StockStatus |->
          CASE t = "AVAILABLE"      -> IF payload.type = "REPLACEMENT"
                                       THEN payload.quantity ELSE 0
            [] t = "SUPPLIER_CLAIM" -> - scrapped
            [] t = "SCRAPPED"       -> scrapped
            [] OTHER                -> 0]

PostInventory(p) ==
    LET s == proc[p].id
        payload == settlement[s].payload
    IN
    /\ proc[p].op = "post"
    /\ NeedsStock(payload)
    /\ DraftSettlement(s)
    /\ payload.type = "REPLACEMENT" => payload.batch \notin batches
    /\ Move(SettlementMoves(payload))
    /\ batches' = IF payload.type = "REPLACEMENT" THEN batches \cup {payload.batch}
                                                  ELSE batches
    /\ settlement' = [settlement EXCEPT ![s].status = "POSTED"]
    /\ ApplyClaimSettlement(p, s)
    /\ Ends(p)
    /\ UNCHANGED <<inspection, restored, owed, saved>>

\* The request ends and has written nothing since its last step: a refusal
\* (a conflict, stock, a location, a batch number), a settlement that was
\* posted in the meantime, or the end of the process.
Stops(p) ==
    /\ proc[p].op # "idle"
    /\ Ends(p)
    /\ UNCHANGED <<inspections, stock, batches, claims>>

InspectionStep(p) ==
    \/ \E r \in Return : \E split \in Splits(r) : LoadCreateInspection(p, r, split)
    \/ \E r \in Return : LoadConfirm(p, r)
    \/ CreateInspection(p) \/ ConfirmInspection(p)

SettlementStep(p) ==
    \/ \E r \in Return, k \in Key, payload \in Payload : LoadSettle(p, r, k, payload)
    \/ PrepareSettlement(p) \/ FindPrepared(p) \/ FetchSettlement(p)
    \/ PostNonInventory(p) \/ PostInventory(p)

Next == \E p \in Process : InspectionStep(p) \/ SettlementStep(p) \/ Stops(p)

Spec == Init /\ [][Next]_vars

=============================================================================
