-------------------------- MODULE InventoryLedger ---------------------------
(***************************************************************************)
(* The properties of the posting kernel.                                   *)
(***************************************************************************)
EXTENDS InventoryPosting, Totals

\* What ledger lines move in a cell.
MovedIn(lines, c) ==
    Total([i \in 1..Len(lines) |-> IF lines[i].cell = c THEN lines[i].qty ELSE 0])

\* What allocations take from a batch, and what they give to a line.
TakenFrom(allocs, b) ==
    Total([i \in 1..Len(allocs) |-> IF allocs[i].batch = b THEN allocs[i].qty ELSE 0])

GivenTo(allocs, n) ==
    Total([i \in 1..Len(allocs) |-> IF allocs[i].line = n THEN allocs[i].qty ELSE 0])

BalanceRow == [qty : Int, cost : Int, value : Int]

BatchRow == [sku : Sku \cup {None}, received : Nat, remaining : Int, at : Nat,
             seq : Nat]

LineRow == [cell : Cell, qty : Int, cost : Int]

AllocationRow == [line : Nat, batch : BatchNo, qty : Int]

Posting == [doc : Doc, key : Key, lines : Seq(LineRow),
            allocs : Seq(AllocationRow)]

Transaction == [req : Request \cup {None}, balance : [Cell -> BalanceRow],
                batch : [BatchNo -> BatchRow], lines : Seq(LineRow),
                allocs : Seq(AllocationRow),
                outbound : [Sku \X CostGroup -> Int], need : Int]

RequestRow == [pc : {"idle", "loaded", "tx", "committed"},
               doc : Doc \cup {None}, key : Key \cup {None},
               attempt : 0..MaxAttempts, result : Nat]

\* The transaction row, the request row and the rows of the tables.  The
\* attempt counter of serializableTransaction never passes its limit, and an
\* audit record always belongs to a posting that exists.
TypeOK ==
    /\ balance \in [Cell -> BalanceRow]
    /\ batch \in [BatchNo -> BatchRow]
    /\ journal \in Seq(Posting)
    /\ idem \in [Doc -> [Key -> 0..Len(journal)]]
    /\ docStatus \in [Doc -> {"ABSENT", "DRAFT", "POSTED"}]
    /\ active \in [Location -> BOOLEAN]
    /\ tx \in Transaction
    /\ req \in [Request -> RequestRow]
    /\ deact \subseteq Location
    /\ audited \subseteq 1..Len(journal)
    /\ crashes \in 0..MaxCrashes

\* "The system forbids negative available stock" (docs/09, section 2): no
\* sequence of postings, whole or rolled back, leaves less than nothing on hand.
NonNegativeStock == \A c \in Cell : balance[c].qty >= 0

\* A batch never gives out more than it received, across every posting that
\* draws on it.
BatchWithinReceipt ==
    \A b \in BatchNo : batch[b].remaining \in 0..batch[b].received

\* The rows stay what they are, nothing on hand is negative and no batch gives out
\* more than it received, in every attempt of every posting (line loop of post).
StockWithinBounds == TypeOK /\ NonNegativeStock /\ BatchWithinReceipt

\* The balance of a cell is the sum of its committed ledger lines: nothing of
\* a rolled back or retried attempt remains, nothing of a commit is missing.
LedgerExplainsBalance ==
    \A c \in Cell :
        balance[c].qty =
            Total([t \in 1..Len(journal) |-> MovedIn(journal[t].lines, c)])

\* What left a batch is what committed outbound lines recorded as taken from
\* it, and each traced outbound line is allocated in full.
AllocationsExplainBatches ==
    /\ \A b \in BatchNo :
         batch[b].received - batch[b].remaining =
            Total([t \in 1..Len(journal) |-> TakenFrom(journal[t].allocs, b)])
    /\ \A t \in 1..Len(journal) : \A n \in 1..Len(journal[t].lines) :
         Allocates(Input[journal[t].doc].lines[n]) =>
            - journal[t].lines[n].qty = GivenTo(journal[t].allocs, n)

\* Available stock can always be traced to the batches it came from (docs/05,
\* section 7): the batches of a sku hold at least its available stock.
BatchesCoverAvailable ==
    \A s \in Sku :
        Total([l \in Location |-> balance[<<l, s, "AVAILABLE">>].qty])
        <= Total([b \in {b \in BatchNo : batch[b].sku = s} |-> batch[b].remaining])

\* A line that moves available stock of a sku and takes it from no batch.
Untraced(line, s) ==
    /\ line.cell[2] = s /\ line.cell[3] = "AVAILABLE"
    /\ line.qty > 0 \/ ~ line.allocate

\* What the first n lines of a document move so.
UntracedMoves(d, s, n) ==
    Total([i \in 1..n |->
        IF Untraced(Input[d].lines[i], s) THEN Input[d].lines[i].qty ELSE 0])

\* What the batches of a document receive of a sku.
Opened(d, s) ==
    Total([i \in 1..Len(Input[d].batches) |->
        IF Input[d].batches[i].sku = s THEN Input[d].batches[i].qty ELSE 0])

\* Callers of the kernel bring available stock in with batches of their own, as
\* postOpening, postAdjustment and postReceipt do, or take as much out (postTransfer).
ASSUME BackedAssumption ==
    /\ IsFiniteSet(Location) /\ IsFiniteSet(BatchNo)
    /\ \A d \in Doc : \A s \in Sku :
         UntracedMoves(d, s, Len(Input[d].lines)) <= Opened(d, s)

\* The stored value and quantity times the stored average agree up to the
\* rounding of the two columns; postings do not let them drift apart.
ValueTracksCost ==
    \A c \in Cell :
        LET gap == 2 * (balance[c].value * CostScale
                        - balance[c].qty * balance[c].cost)
        IN gap \in -(CostScale + balance[c].qty)..(CostScale + balance[c].qty)

\* A document is POSTED exactly when one transaction of the journal carries it,
\* and never more than one does, whatever keys and retries clients use.
PostedOnce ==
    /\ \A d \in Doc : docStatus[d] = "POSTED" <=>
                      \E t \in 1..Len(journal) : journal[t].doc = d
    /\ \A t, u \in 1..Len(journal) : journal[t].doc = journal[u].doc => t = u

\* The answer a client gets, first or replayed, names the transaction that its
\* document and key produced.
ReplyNamesItsPosting ==
    \A r \in Request : req[r].pc = "committed" =>
        /\ req[r].result \in 1..Len(journal)
        /\ journal[req[r].result].doc = req[r].doc
        /\ journal[req[r].result].key = req[r].key

\* A committed transaction has a line for every line of its document, with
\* its quantities, in order.
JournalMatchesInput ==
    \A t \in 1..Len(journal) :
        LET input == Input[journal[t].doc].lines IN
        /\ Len(journal[t].lines) = Len(input)
        /\ \A i \in 1..Len(input) : /\ journal[t].lines[i].qty = input[i].qty
                                    /\ journal[t].lines[i].cell = input[i].cell

\* Every posting request is answered, whatever conflicts its attempts meet.
EveryRequestAnswered ==
    \A r \in Request : req[r].pc # "idle" ~> req[r].pc = "idle"

\* The kernel implements the abstract ledger.
Abstract == INSTANCE StockLedger WITH
    Net <- [d \in Doc |-> [c \in Cell |-> MovedIn(Input[d].lines, c)]],
    onHand <- [c \in Cell |-> balance[c].qty],
    posted <- {d \in Doc : docStatus[d] = "POSTED"}

ImplementsStockLedger == Abstract!Spec

=============================================================================
