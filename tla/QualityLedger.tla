--------------------------- MODULE QualityLedger ---------------------------
(***************************************************************************)
(* The properties of inspections, claims and settlements.                  *)
(***************************************************************************)
EXTENDS QualityClaim

SplitRow == [good : Nat, defective : Nat, claim : Nat, scrap : Nat]

ClaimRow == [status : {"ABSENT", "SUBMITTED", "PARTIALLY_SETTLED", "SETTLED",
                       "REJECTED", "CLOSED"},
             quantity : Nat, claimed : Nat, settled : Nat]

SettlementRow == [status : {"ABSENT", "DRAFT", "POSTED"},
                  claim : Return \cup {None}, payload : Payload \cup {NoPayload},
                  amount : Nat]

ProcRow == [op : {"idle", "create", "confirm", "prepare", "fetch", "post"},
            id : Return \cup Settlement \cup {None}, key : Key \cup {None},
            split : SplitRow, payload : Payload \cup {NoPayload},
            amount : Nat, seen : Nat]

\* The rows of the tables; no stock status is taken below 0.
TypeOK ==
    /\ inspection \in [Return -> [status : {"ABSENT", "DRAFT", "CONFIRMED"},
                                  split : SplitRow]]
    /\ stock \in [StockStatus -> Nat]
    /\ restored \in [Return -> Nat]
    /\ issue \in [Return -> {"ABSENT", "OPEN", "CLAIMED", "RESOLVED"}]
    /\ claim \in [Return -> ClaimRow]
    /\ settlement \in [Settlement -> SettlementRow]
    /\ owed \in [Settlement -> Nat]
    /\ batches \subseteq BatchNo
    /\ saved \in [Return -> [Key -> Settlement \cup {None}]]
    /\ proc \in [Process -> ProcRow]

Confirmed == {r \in Return : inspection[r].status = "CONFIRMED"}

PostedSettlements == {s \in Settlement : settlement[s].status = "POSTED"}

\* What a settlement moves when it is posted.
StockOf(s) ==
    IF NeedsStock(settlement[s].payload) THEN SettlementMoves(settlement[s].payload)
    ELSE [t \in StockStatus |-> 0]

\* Confirming an inspection or settling a claim moves stock once, whatever is
\* repeated or done at the same time: each stock status holds what confirmed
\* inspections found and posted settlements moved, and batches have got back
\* what was found good (docs/12, section 9: quantities are conserved).
StockExplained ==
    /\ \A t \in StockStatus :
         stock[t] =
           (IF t = "QC_PENDING" THEN Total(Returned) ELSE 0)
             + Total([r \in Confirmed |-> SplitMoves(r, inspection[r].split)[t]])
             + Total([s \in PostedSettlements |-> StockOf(s)[t]])
    /\ \A r \in Return : restored[r] = IF r \in Confirmed
                                       THEN inspection[r].split.good ELSE 0

\* "The same key and the same request return the original settlement"
\* (docs/12, section 10): each settlement was prepared under a key of its own,
\* so repeating a request, even while the first is running, makes no second.
SettlementPerKey ==
    \A s \in Settlement : settlement[s].status # "ABSENT" =>
        Cardinality({x \in Return \X Key : saved[x[1]][x[2]] = s}) = 1

\* Cash and credit owed by the supplier come from posted settlements, each
\* with its amount, once; a draft that was left behind owes nothing.
OwedOnce ==
    \A s \in Settlement :
        owed[s] = IF /\ settlement[s].status = "POSTED"
                     /\ settlement[s].payload.type \in {"CASH", "CREDIT"}
                  THEN settlement[s].amount ELSE 0

\* What the posted settlements of a claim come to.
PostedAmount(r) == Total([s \in PostedFor(r) |-> settlement[s].amount])

\* A claim never counts more as settled than its posted settlements come to,
\* though each adds its amount to a sum that was read before; and what it
\* counts is 0 until one of them is posted.
SettledWasPosted ==
    \A r \in Return :
        claim[r].settled <= PostedAmount(r)

\* What suppliers owe and what claims count as settled comes from posted
\* settlements, out of well-formed rows (postInventorySettlement,
\* postNonInventorySettlement, applyClaimSettlement).
SettlementsOwed == TypeOK /\ OwedOnce /\ SettledWasPosted

(***************************************************************************)
(* A statement of the repository that the code does not keep.              *)
(***************************************************************************)

\* quality.service.ts, validateSettlement: "the accumulated compensation cannot
\* exceed the claimed amount".
SettledWithinClaim ==
    \A r \in Return :
        PostedAmount(r) <= claim[r].claimed

=============================================================================
