-------------------------- MODULE InventoryPosting --------------------------
(***************************************************************************)
(* The posting kernel of the inventory module, InventoryPostingService:    *)
(* the only writer of InventoryBalance.  Every stock document (opening,    *)
(* adjustment, transfer, receipt, issue, return, inspection) is posted     *)
(* through post(), which runs one Serializable database transaction        *)
(*                                                                         *)
(*    look up the idempotency record -> check locations -> one step per    *)
(*    line (balance, moving average, FIFO batches) -> create batches ->    *)
(*    finalize the document -> save the idempotency record -> commit       *)
(*                                                                         *)
(* and writes an audit record after the commit.  Serializable transactions *)
(* behave as if they ran one after the other, so at most one is open in    *)
(* the model; it works on private copies (tx) that the commit publishes    *)
(* and a failure drops.  Statements that run outside a transaction         *)
(* (deactivating a location, audit) interleave with its steps.             *)
(***************************************************************************)
EXTENDS Integers, Sequences, FiniteSets

CONSTANTS
    Location,     \* leaf inventory locations
    Sku,
    StockStatus,  \* InventoryStockStatus
    CostGroup,    \* costGroup of a line: its stock status if the caller gives none
    BatchNo,
    Doc,          \* stock documents
    Key,          \* Idempotency-Key values clients use
    Request,      \* HTTP requests that may be in progress at the same time
    Input,        \* Input[d]: the PostingInput the caller builds from d
    CheckedDoc,   \* openings and transfers: create checks their references
    CostScale,    \* units of averageCost (6 decimals) per unit of value (4)
    MaxAttempts,  \* attempts of serializableTransaction (3)
    MaxCrashes,   \* bound: crashes of the server process
    AdminLocation, \* bound: the locations whose status users change
    None

NoCost == -1      \* a line without unitCost

Cell == Location \X Sku \X StockStatus   \* key of InventoryBalance

\* PostingLineInput.  preferred is the batch a purchase return insists on.
LineInput == [cell : Cell, qty : Int, cost : Nat \cup {NoCost},
              group : CostGroup, allocate : BOOLEAN,
              preferred : BatchNo \cup {None}]

\* PostingBatchInput.
BatchInput == [no : BatchNo, sku : Sku, qty : Nat \ {0}]

\* Callers refuse quantities that are not positive before they build the
\* input (positive(), inventory.service.ts), so no line has quantity zero.
ASSUME InputAssumption ==
    /\ "AVAILABLE" \in StockStatus
    /\ None \notin Request \cup BatchNo \cup Sku \cup Key
    /\ CostScale \in Nat \ {0}
    /\ MaxAttempts \in Nat \ {0}
    /\ MaxCrashes \in Nat
    /\ AdminLocation \subseteq Location
    /\ CheckedDoc \subseteq Doc
    /\ \A d \in Doc :
         /\ Input[d].at \in Nat
         /\ Input[d].lines \in Seq(LineInput)
         /\ Input[d].batches \in Seq(BatchInput)
         /\ \A i \in 1..Len(Input[d].lines) : Input[d].lines[i].qty # 0

VARIABLES
    balance,   \* InventoryBalance rows
    batch,     \* InventoryBatch rows
    journal,   \* InventoryTransaction rows with lines and batch allocations
    idem,      \* IdempotencyRecord: the posting a document and key produced
    docStatus, \* status of the document the posting finalizes
    active,    \* status of the locations
    tx,        \* the open transaction and its private copies
    req,       \* requests in progress
    deact,     \* locations whose deactivation has passed its checks
    audited,   \* postings with an audit record
    crashes

vars == <<balance, batch, journal, idem, docStatus, active, tx, req, deact,
          audited, crashes>>

stored == <<balance, batch, journal, idem, docStatus>>

EmptyRow == [qty |-> 0, cost |-> 0, value |-> 0]

NoBatch == [sku |-> None, received |-> 0, remaining |-> 0, at |-> 0, seq |-> 0]

\* outbound: the cost each outbound line left for later inbound lines of the
\* same sku and cost group (outboundCosts); need: what FIFO has still to allocate.
NoTx == [req |-> None, balance |-> [c \in Cell |-> EmptyRow],
         batch |-> [b \in BatchNo |-> NoBatch], lines |-> <<>>,
         allocs |-> <<>>, outbound |-> [g \in Sku \X CostGroup |-> NoCost],
         need |-> 0]

IdleRequest == [pc |-> "idle", doc |-> None, key |-> None, attempt |-> 0,
                result |-> 0]

Init ==
    /\ balance = [c \in Cell |-> EmptyRow]
    /\ batch = [b \in BatchNo |-> NoBatch]
    /\ journal = <<>>
    /\ idem = [d \in Doc |-> [k \in Key |-> 0]]
    /\ docStatus = [d \in Doc |-> "ABSENT"]
    /\ active = [l \in Location |-> TRUE]
    /\ tx = NoTx
    /\ req = [r \in Request |-> IdleRequest]
    /\ deact = {}
    /\ audited = {}
    /\ crashes = 0

(***************************************************************************)
(* Documents and requests.                                                 *)
(***************************************************************************)

ReferencesValid(d) ==
    \A i \in 1..Len(Input[d].lines) : active[Input[d].lines[i].cell[1]]

Distinct(batches) ==
    \A i, j \in 1..Len(batches) : batches[i].no = batches[j].no => i = j

\* previewOpening: every batch number is new.
BatchNosNew(batches) ==
    /\ Distinct(batches)
    /\ \A i \in 1..Len(batches) : batch[batches[i].no].received = 0

\* createOpening, createAdjustment, createTransfer: the document is DRAFT.
\* Openings (previewOpening) and transfers check their references already
\* here, outside the transaction that posts them.
CreateDocument(d) ==
    /\ docStatus[d] = "ABSENT"
    /\ d \in CheckedDoc => ReferencesValid(d) /\ BatchNosNew(Input[d].batches)
    /\ docStatus' = [docStatus EXCEPT ![d] = "DRAFT"]
    /\ UNCHANGED <<balance, batch, journal, idem, active, tx, req, deact,
                   audited, crashes>>

\* postOpening, postAdjustment, postTransfer: the handler loads the document
\* outside the transaction.  Its items never change once it is created.  A
\* client that lost the answer sends the same key again.
Submit(r, d, k) ==
    /\ req[r].pc = "idle"
    /\ docStatus[d] # "ABSENT"
    /\ req' = [req EXCEPT ![r] = [pc |-> "loaded", doc |-> d, key |-> k,
                                    attempt |-> 1, result |-> 0]]
    /\ UNCHANGED <<stored, active, tx, deact, audited, crashes>>

InTx(r) == tx.req = r /\ req[r].pc = "tx"

\* The key was used for this document before: the saved response is returned.
Replay(r) ==
    /\ req[r].pc = "loaded"
    /\ tx.req = None
    /\ idem[req[r].doc][req[r].key] # 0
    /\ req' = [req EXCEPT ![r].pc = "committed",
                          ![r].result = idem[req[r].doc][req[r].key]]
    /\ UNCHANGED <<stored, active, tx, deact, audited, crashes>>

\* One attempt of the transaction: nothing was saved under the key, and the
\* locations the attempt reads are active leaves.
Begin(r) ==
    /\ req[r].pc = "loaded"
    /\ tx.req = None
    /\ idem[req[r].doc][req[r].key] = 0
    /\ ReferencesValid(req[r].doc)
    /\ req' = [req EXCEPT ![r].pc = "tx"]
    /\ tx' = [NoTx EXCEPT !.req = r, !.balance = balance, !.batch = batch]
    /\ UNCHANGED <<stored, active, deact, audited, crashes>>

\* assertReferences refuses: LOCATION_INVALID.
RejectReferences(r) ==
    /\ req[r].pc = "loaded"
    /\ tx.req = None
    /\ idem[req[r].doc][req[r].key] = 0
    /\ ~ ReferencesValid(req[r].doc)
    /\ req' = [req EXCEPT ![r] = IdleRequest]
    /\ UNCHANGED <<stored, active, tx, deact, audited, crashes>>

(***************************************************************************)
(* One posting line: balance, moving average, ledger line.                 *)
(***************************************************************************)

RoundDiv(a, b) == (2 * a + b) \div (2 * b)   \* DECIMAL columns round half up

\* What the line costs per unit: an outbound line takes the average of its
\* row, an inbound line its own cost, else the cost the stock left with.
LineCost(line, row, outbound) ==
    IF line.qty < 0 THEN row.cost
    ELSE IF line.cost # NoCost THEN line.cost
    ELSE IF outbound[<<line.cell[2], line.group>>] # NoCost
         THEN outbound[<<line.cell[2], line.group>>]
    ELSE row.cost

\* Mutant: the average cost is not recomputed when stock enters.
MovedAtOldAverage(row, q, cost) ==
    [qty   |-> row.qty + q,
     cost  |-> IF row.qty = 0 THEN cost ELSE row.cost,
     value |-> RoundDiv(row.value * CostScale + q * cost, CostScale)]

\* The row after q units move at the given cost.  The value is computed
\* exactly and then rounded by the column; the average divides the exact one.
Moved(row, q, cost) ==
    LET next  == row.qty + q
        exact == IF q > 0 THEN row.value * CostScale + q * cost
                          ELSE next * row.cost
    IN [qty   |-> next,
        cost  |-> IF next = 0 THEN 0
                  ELSE IF q > 0 THEN RoundDiv(exact, next) ELSE row.cost,
        value |-> RoundDiv(exact, CostScale)]

\* reservedQuantity is never written, so available is what is on hand.
Insufficient(row, q) == row.qty + q < 0

\* Mutant: the caller's allocateBatches is ignored.
AllocatesAll(line) == line.qty < 0 /\ line.cell[3] = "AVAILABLE"

\* Only available stock is traced to batches, and transfers and openings
\* pass allocateBatches = false.
Allocates(line) ==
    line.qty < 0 /\ line.cell[3] = "AVAILABLE" /\ line.allocate

NextLine == Input[req[tx.req].doc].lines[Len(tx.lines) + 1]

LinesLeft(r) == tx.need = 0 /\ Len(tx.lines) < Len(Input[req[r].doc].lines)

PostLine(r) ==
    /\ InTx(r)
    /\ LinesLeft(r)
    /\ LET line == NextLine
           row  == tx.balance[line.cell]
           cost == LineCost(line, row, tx.outbound)
       IN /\ ~ Insufficient(row, line.qty)
          /\ tx' = [tx EXCEPT
               !.balance[line.cell] = Moved(row, line.qty, cost),
               !.lines = Append(@, [cell |-> line.cell, qty |-> line.qty,
                                    cost |-> cost]),
               !.outbound[<<line.cell[2], line.group>>] =
                   IF line.qty < 0 THEN cost ELSE @,
               !.need = IF Allocates(line) THEN - line.qty ELSE 0]
    /\ UNCHANGED <<stored, active, req, deact, audited, crashes>>

(***************************************************************************)
(* allocateFifo: oldest batch first, whatever location the stock is in.    *)
(***************************************************************************)

CurrentInput == Input[req[tx.req].doc].lines[Len(tx.lines)]

Candidates ==
    {b \in BatchNo : /\ tx.batch[b].sku = CurrentInput.cell[2]
                     /\ tx.batch[b].remaining > 0
                     /\ CurrentInput.preferred \in {None, b}}

Older(b1, b2) ==
    \/ tx.batch[b1].at < tx.batch[b2].at
    \/ tx.batch[b1].at = tx.batch[b2].at /\ tx.batch[b1].seq < tx.batch[b2].seq

\* Batches of one document share receivedAt and createdAt: their order is
\* whatever the database returns.
Oldest == {b \in Candidates : \A b2 \in Candidates : ~ Older(b2, b)}

\* Mutant: a batch gives what is needed, not what it has.
WhatIsNeeded(m, n) == n

\* Decimal.min
Smaller(m, n) == IF m < n THEN m ELSE n

AllocateBatch(r) ==
    /\ InTx(r)
    /\ tx.need > 0
    /\ \E b \in Oldest :
         LET taken == Smaller(tx.batch[b].remaining, tx.need)
         IN tx' = [tx EXCEPT
              !.batch[b].remaining = @ - taken,
              !.need = @ - taken,
              !.allocs = Append(@, [line |-> Len(tx.lines), batch |-> b,
                                    qty |-> taken])]
    /\ UNCHANGED <<stored, active, req, deact, audited, crashes>>

(***************************************************************************)
(* The end of the transaction.                                             *)
(***************************************************************************)

\* Mutant: the loop stops one line early.
LinesAlmostDone(r) ==
    tx.need = 0 /\ Len(tx.lines) + 1 >= Len(Input[req[r].doc].lines)

LinesDone(r) == tx.need = 0 /\ Len(tx.lines) = Len(Input[req[r].doc].lines)

NewBatches(d) == Input[d].batches

\* batchNo is unique: against the stored batches and inside the document.
BatchNosFree(d) ==
    /\ Distinct(NewBatches(d))
    /\ \A i \in 1..Len(NewBatches(d)) : tx.batch[NewBatches(d)[i].no].received = 0

\* The batch rows after the document's own batches are created.
WithNewBatches(d) ==
    [b \in BatchNo |->
        IF \E i \in 1..Len(NewBatches(d)) : NewBatches(d)[i].no = b
        THEN LET new == NewBatches(d)[CHOOSE i \in 1..Len(NewBatches(d)) :
                                        NewBatches(d)[i].no = b]
             IN [sku |-> new.sku, received |-> new.qty, remaining |-> new.qty,
                 at |-> Input[d].at, seq |-> Len(journal) + 1]
        ELSE tx.batch[b]]

\* Mutant: finalize does not look at the status.
FinalizableAgain(d) == docStatus[d] # "ABSENT"

\* finalize: updateMany where status = DRAFT must change one row.
Finalizable(d) == docStatus[d] = "DRAFT"

\* Mutant: the idempotency scope leaves out the document.
CommitForAllDocuments(r) ==
    LET d == req[r].doc IN
    /\ InTx(r)
    /\ LinesDone(r)
    /\ BatchNosFree(d)
    /\ Finalizable(d)
    /\ balance' = tx.balance
    /\ batch' = WithNewBatches(d)
    /\ journal' = Append(journal, [doc |-> d, key |-> req[r].key,
                                   lines |-> tx.lines, allocs |-> tx.allocs])
    /\ idem' = [e \in Doc |-> [idem[e] EXCEPT ![req[r].key] = Len(journal) + 1]]
    /\ docStatus' = [docStatus EXCEPT ![d] = "POSTED"]
    /\ req' = [req EXCEPT ![r].pc = "committed", ![r].result = Len(journal) + 1]
    /\ tx' = NoTx
    /\ UNCHANGED <<active, deact, audited, crashes>>

\* Mutant: finalize is not called.
CommitUnfinalized(r) ==
    LET d == req[r].doc IN
    /\ InTx(r)
    /\ LinesDone(r)
    /\ BatchNosFree(d)
    /\ Finalizable(d)
    /\ balance' = tx.balance
    /\ batch' = WithNewBatches(d)
    /\ journal' = Append(journal, [doc |-> d, key |-> req[r].key,
                                   lines |-> tx.lines, allocs |-> tx.allocs])
    /\ idem' = [idem EXCEPT ![d][req[r].key] = Len(journal) + 1]
        /\ req' = [req EXCEPT ![r].pc = "committed", ![r].result = Len(journal) + 1]
    /\ tx' = NoTx
    /\ UNCHANGED <<docStatus, active, deact, audited, crashes>>

Commit(r) ==
    LET d == req[r].doc IN
    /\ InTx(r)
    /\ LinesDone(r)
    /\ BatchNosFree(d)
    /\ Finalizable(d)
    /\ balance' = tx.balance
    /\ batch' = WithNewBatches(d)
    /\ journal' = Append(journal, [doc |-> d, key |-> req[r].key,
                                   lines |-> tx.lines, allocs |-> tx.allocs])
    /\ idem' = [idem EXCEPT ![d][req[r].key] = Len(journal) + 1]
    /\ docStatus' = [docStatus EXCEPT ![d] = "POSTED"]
    /\ req' = [req EXCEPT ![r].pc = "committed", ![r].result = Len(journal) + 1]
    /\ tx' = NoTx
    /\ UNCHANGED <<active, deact, audited, crashes>>

\* The errors thrown inside the transaction: INVENTORY_INSUFFICIENT,
\* BATCH_INSUFFICIENT, a unique violation on batchNo, DOCUMENT_POSTED.
LineRefused(r) == LinesLeft(r) /\ Insufficient(tx.balance[NextLine.cell],
                                              NextLine.qty)
BatchesShort == tx.need > 0 /\ Candidates = {}
BatchNoTaken(r) == LinesDone(r) /\ ~ BatchNosFree(req[r].doc)
AlreadyPosted(r) == /\ LinesDone(r)
                    /\ BatchNosFree(req[r].doc)
                    /\ ~ Finalizable(req[r].doc)

Refused(r) ==
    \/ LineRefused(r)
    \/ BatchesShort
    \/ BatchNoTaken(r)
    \/ AlreadyPosted(r)

\* Mutant: balances are written outside the transaction and stay.
RollbackKeepsBalances(r) ==
    /\ InTx(r)
    /\ Refused(r)
    /\ balance' = tx.balance
    /\ tx' = NoTx
    /\ req' = [req EXCEPT ![r] = IdleRequest]
    /\ UNCHANGED <<batch, journal, idem, docStatus, active, deact, audited,
                   crashes>>

\* Mutant: batches are decremented outside the transaction and stay so.
RollbackKeepsBatches(r) ==
    /\ InTx(r)
    /\ Refused(r)
    /\ batch' = tx.batch
    /\ tx' = NoTx
    /\ req' = [req EXCEPT ![r] = IdleRequest]
    /\ UNCHANGED <<balance, journal, idem, docStatus, active, deact, audited,
                   crashes>>

Rollback(r) ==
    /\ InTx(r)
    /\ Refused(r)
    /\ tx' = NoTx
    /\ req' = [req EXCEPT ![r] = IdleRequest]
    /\ UNCHANGED <<stored, active, deact, audited, crashes>>

MayRetry(r) == req[r].attempt < MaxAttempts

\* Mutant: the attempt is not counted.
FailureUncounted(r) ==
    /\ InTx(r)
    /\ tx' = NoTx
    /\ req' = [req EXCEPT ![r].pc = "loaded"]
    /\ UNCHANGED <<stored, active, deact, audited, crashes>>

\* P2034: the database gives up on the attempt.  serializableTransaction runs
\* the closure again from its first line, at most MaxAttempts times in all.
SerializationFailure(r) ==
    /\ InTx(r)
    /\ tx' = NoTx
    /\ req' = IF MayRetry(r)
              THEN [req EXCEPT ![r].pc = "loaded", ![r].attempt = @ + 1]
              ELSE [req EXCEPT ![r] = IdleRequest]
    /\ UNCHANGED <<stored, active, deact, audited, crashes>>

\* audit.record after the commit, then the answer.  A replay is audited too.
WriteAudit(r) ==
    /\ req[r].pc = "committed"
    /\ audited' = audited \cup {req[r].result}
    /\ req' = [req EXCEPT ![r] = IdleRequest]
    /\ UNCHANGED <<stored, active, tx, deact, crashes>>

(***************************************************************************)
(* The environment: the process dies; a location is taken out of use.      *)
(***************************************************************************)

\* The database drops the open transaction; every request is lost.
Crash ==
    /\ crashes < MaxCrashes
    /\ crashes' = crashes + 1
    /\ tx' = NoTx
    /\ req' = [r \in Request |-> IdleRequest]
    /\ deact' = {}
    /\ UNCHANGED <<stored, active, audited>>

LocationEmpty(l) == \A c \in Cell : c[1] = l => balance[c].qty = 0

\* deactivateLocation counts the stock of the location outside any
\* transaction ...
CheckDeactivate(l) ==
    /\ l \notin deact
    /\ LocationEmpty(l)
    /\ deact' = deact \cup {l}
    /\ UNCHANGED <<stored, active, tx, req, audited, crashes>>

\* ... and updates the status in a later statement.
Deactivate(l) ==
    /\ l \in deact
    /\ active' = [active EXCEPT ![l] = FALSE]
    /\ deact' = deact \ {l}
    /\ UNCHANGED <<stored, tx, req, audited, crashes>>

\* updateLocation writes the status it is given and asks nothing of the stock.
UpdateLocationStatus(l, status) ==
    /\ active' = [active EXCEPT ![l] = status]
    /\ UNCHANGED <<stored, tx, req, deact, audited, crashes>>

ServerStep(r) ==
    \/ Replay(r) \/ Begin(r) \/ RejectReferences(r)
    \/ PostLine(r) \/ AllocateBatch(r) \/ Commit(r) \/ Rollback(r)
    \/ WriteAudit(r)

Next ==
    \/ \E d \in Doc : CreateDocument(d)
    \/ \E r \in Request, d \in Doc, k \in Key : Submit(r, d, k)
    \/ \E r \in Request : ServerStep(r) \/ SerializationFailure(r)
    \/ \E l \in AdminLocation : CheckDeactivate(l) \/ Deactivate(l)
    \/ \E l \in AdminLocation, status \in BOOLEAN : UpdateLocationStatus(l, status)
    \/ Crash

\* Users and failures are not fair.  The server finishes what it started:
\* every await of an open transaction returns (WF), and a request that waits
\* for the database is not passed over for ever by the others (SF).
Fairness ==
    \A r \in Request :
        /\ WF_vars(ServerStep(r))
        /\ SF_vars(Begin(r) \/ Replay(r) \/ RejectReferences(r))

Spec == Init /\ [][Next]_vars

FairSpec == Spec /\ Fairness

=============================================================================
