----------------------- MODULE InventoryPostingProofs -----------------------
(***************************************************************************)
(* Proofs about the posting kernel, for every set of locations, documents, *)
(* keys and requests and every input that InputAssumption allows.          *)
(*                                                                         *)
(* The invariants of InventoryLedger are not inductive as they stand: what *)
(* a commit publishes was prepared by the steps of the open transaction,   *)
(* so the inductive invariant says the same of the private copies (tx) as  *)
(* of the tables, and ties the request to the transaction it has open.     *)
(*                                                                         *)
(* The ledger, what batches lost and what documents move are sums; a line  *)
(* adds to the private copies what it adds to the lines that the commit    *)
(* will append.                                                            *)
(***************************************************************************)
EXTENDS InventoryLedger, TotalProofs

\* A request that is in progress has a document and a key.
RequestsBound ==
    \A r \in Request : req[r].pc # "idle" => req[r].doc \in Doc /\ req[r].key \in Key

\* An answer is about to name a posting that exists.
AnswersBound ==
    \A r \in Request : req[r].pc = "committed" => req[r].result \in 1..Len(journal)

\* What the type invariant needs of the other variables.
TypeInv == TypeOK /\ RequestsBound /\ AnswersBound

(***************************************************************************)
(* Lemmas about the rows.                                                  *)
(***************************************************************************)

\* Rounded division yields an integer.
LEMMA RoundDivType ==
    ASSUME NEW a \in Int, NEW b \in Nat \ {0}
    PROVE  RoundDiv(a, b) \in Int
<1>1. 2 * a + b \in Int /\ 2 * b \in Int /\ 2 * b > 0
  OBVIOUS
<1>. QED
  BY <1>1 DEF RoundDiv

\* A movement that is not refused leaves a row with the new quantity, which is
\* not negative.
LEMMA MovedRow ==
    ASSUME NEW row \in BalanceRow, NEW q \in Int, NEW cost \in Int,
           ~ Insufficient(row, q)
    PROVE  /\ Moved(row, q, cost) \in BalanceRow
           /\ Moved(row, q, cost).qty = row.qty + q
           /\ Moved(row, q, cost).qty >= 0
<1> DEFINE next  == row.qty + q
           exact == IF q > 0 THEN row.value * CostScale + q * cost
                             ELSE next * row.cost
<1>1. row.qty \in Int /\ row.cost \in Int /\ row.value \in Int
  BY DEF BalanceRow
<1>2. next \in Nat
  BY <1>1 DEF Insufficient
<1>3. CostScale \in Nat \ {0}
  BY InputAssumption
<1>4. exact \in Int
  BY <1>1, <1>2, <1>3
<1>5. RoundDiv(exact, CostScale) \in Int
  BY <1>3, <1>4, RoundDivType
<1>6. next # 0 => RoundDiv(exact, next) \in Int
  BY <1>2, <1>4, RoundDivType
<1> HIDE DEF exact
<1>7. Moved(row, q, cost) =
        [qty |-> next,
         cost |-> IF next = 0 THEN 0
                  ELSE IF q > 0 THEN RoundDiv(exact, next) ELSE row.cost,
         value |-> RoundDiv(exact, CostScale)]
  BY DEF Moved, exact
<1>. QED
  BY <1>1, <1>2, <1>5, <1>6, <1>7 DEF BalanceRow

\* The lines of a document are well formed.
LEMMA InputLines ==
    ASSUME NEW d \in Doc
    PROVE  /\ Input[d].lines \in Seq(LineInput)
           /\ \A i \in 1..Len(Input[d].lines) : Input[d].lines[i] \in LineInput
           /\ Input[d].at \in Nat
           /\ Input[d].batches \in Seq(BatchInput)
BY InputAssumption

\* The batches of a document enter the table with what they received.
LEMMA NewBatchRows ==
    ASSUME NEW d \in Doc, tx.batch \in [BatchNo -> BatchRow],
           journal \in Seq(Posting)
    PROVE  /\ WithNewBatches(d) \in [BatchNo -> BatchRow]
           /\ \A b \in BatchNo :
                \/ WithNewBatches(d)[b] = tx.batch[b]
                \/ /\ WithNewBatches(d)[b].remaining
                         = WithNewBatches(d)[b].received
                   /\ WithNewBatches(d)[b].received \in Nat
<1>. SUFFICES ASSUME NEW b \in BatchNo
              PROVE  /\ WithNewBatches(d)[b] \in BatchRow
                     /\ \/ WithNewBatches(d)[b] = tx.batch[b]
                        \/ /\ WithNewBatches(d)[b].remaining
                                 = WithNewBatches(d)[b].received
                           /\ WithNewBatches(d)[b].received \in Nat
  BY DEF WithNewBatches
<1> DEFINE new == NewBatches(d)[CHOOSE i \in 1..Len(NewBatches(d)) :
                                  NewBatches(d)[i].no = b]
<1>1. CASE \E i \in 1..Len(NewBatches(d)) : NewBatches(d)[i].no = b
  <2>1. new \in BatchInput
    BY <1>1, InputLines DEF NewBatches
  <2>2. WithNewBatches(d)[b] =
          [sku |-> new.sku, received |-> new.qty, remaining |-> new.qty,
           at |-> Input[d].at, seq |-> Len(journal) + 1]
    BY <1>1 DEF WithNewBatches
  <2>3. Len(journal) + 1 \in Nat
    OBVIOUS
  <2> HIDE DEF new
  <2>. QED
    BY <2>1, <2>2, <2>3, InputLines DEF BatchInput, BatchRow
<1>2. CASE ~ \E i \in 1..Len(NewBatches(d)) : NewBatches(d)[i].no = b
  BY <1>2 DEF WithNewBatches
<1>. QED
  BY <1>1, <1>2

(***************************************************************************)
(* Type correctness.                                                       *)
(***************************************************************************)

\* The values a failure or a commit resets the transaction and a request to.
LEMMA ResetTypes == NoTx \in Transaction /\ IdleRequest \in RequestRow
<1>1. [c \in Cell |-> EmptyRow] \in [Cell -> BalanceRow]
  BY DEF EmptyRow, BalanceRow
<1>2. [b \in BatchNo |-> NoBatch] \in [BatchNo -> BatchRow]
  BY DEF NoBatch, BatchRow
<1>3. [g \in Sku \X CostGroup |-> NoCost] \in [Sku \X CostGroup -> Int]
  BY DEF NoCost
<1>4. NoTx \in Transaction
  BY <1>1, <1>2, <1>3 DEF NoTx, Transaction
<1>5. IdleRequest \in RequestRow
  BY InputAssumption DEF IdleRequest, RequestRow
<1>. QED
  BY <1>4, <1>5

\* The updates a step makes to a request, to a batch and to the transaction.
LEMMA RequestMoves ==
    ASSUME req \in [Request -> RequestRow], NEW r \in Request,
           NEW pc \in {"idle", "loaded", "tx", "committed"}
    PROVE  [req EXCEPT ![r].pc = pc] \in [Request -> RequestRow]
BY DEF RequestRow

LEMMA RequestCommitted ==
    ASSUME req \in [Request -> RequestRow], NEW r \in Request, NEW n \in Nat
    PROVE  [req EXCEPT ![r].pc = "committed", ![r].result = n]
             \in [Request -> RequestRow]
BY DEF RequestRow

LEMMA RequestRetries ==
    ASSUME req \in [Request -> RequestRow], NEW r \in Request,
           req[r].attempt < MaxAttempts
    PROVE  [req EXCEPT ![r].pc = "loaded", ![r].attempt = @ + 1]
             \in [Request -> RequestRow]
<1>1. req[r].attempt + 1 \in 0..MaxAttempts
  BY InputAssumption DEF RequestRow
<1>. QED
  BY <1>1 DEF RequestRow

LEMMA BatchGives ==
    ASSUME NEW rows \in [BatchNo -> BatchRow], NEW b \in BatchNo, NEW n \in Int
    PROVE  [rows EXCEPT ![b].remaining = @ - n] \in [BatchNo -> BatchRow]
<1>1. rows[b].remaining - n \in Int
  BY DEF BatchRow
<1>. QED
  BY <1>1 DEF BatchRow

LEMMA LineWritten ==
    ASSUME NEW t \in Transaction, NEW b \in [Cell -> BalanceRow],
           NEW l \in Seq(LineRow), NEW o \in [Sku \X CostGroup -> Int],
           NEW n \in Int
    PROVE  [t EXCEPT !.balance = b, !.lines = l, !.outbound = o, !.need = n]
             \in Transaction
BY DEF Transaction

LEMMA AllocationWritten ==
    ASSUME NEW t \in Transaction, NEW b \in [BatchNo -> BatchRow], NEW n \in Int,
           NEW a \in Seq(AllocationRow)
    PROVE  [t EXCEPT !.batch = b, !.need = n, !.allocs = a] \in Transaction
BY DEF Transaction

LEMMA TypeInit == Init => TypeInv
<1>. SUFFICES ASSUME Init PROVE TypeInv
  OBVIOUS
<1>1. balance \in [Cell -> BalanceRow]
  BY DEF Init, EmptyRow, BalanceRow
<1>2. batch \in [BatchNo -> BatchRow]
  BY DEF Init, NoBatch, BatchRow
<1>4. tx \in Transaction
  BY ResetTypes DEF Init
<1>5. req \in [Request -> RequestRow]
  BY ResetTypes DEF Init
<1>6. journal \in Seq(Posting) /\ Len(journal) = 0
  BY DEF Init
<1>7. TypeOK
  BY <1>1, <1>2, <1>4, <1>5, <1>6, InputAssumption DEF TypeOK, Init
<1>8. RequestsBound /\ AnswersBound
  BY DEF RequestsBound, AnswersBound, Init, IdleRequest
<1>. QED
  BY <1>7, <1>8 DEF TypeInv

LEMMA TypeStep == TypeInv /\ [Next]_vars => TypeInv'
<1>. SUFFICES ASSUME TypeInv, [Next]_vars PROVE TypeInv'
  OBVIOUS
<1>. USE DEF TypeInv, TypeOK, RequestsBound, AnswersBound, stored
<1>1. ASSUME NEW d \in Doc, CreateDocument(d) PROVE TypeInv'
  BY <1>1 DEF CreateDocument
<1>2. ASSUME NEW r \in Request, NEW d \in Doc, NEW k \in Key, Submit(r, d, k)
      PROVE  TypeInv'
  <2>1. [pc |-> "loaded", doc |-> d, key |-> k, attempt |-> 1, result |-> 0]
          \in RequestRow
    BY InputAssumption DEF RequestRow
  <2>2. req' \in [Request -> RequestRow]
    BY <1>2, <2>1 DEF Submit
  <2>. QED
    BY <1>2, <2>2 DEF Submit, IdleRequest
<1>3. ASSUME NEW r \in Request, Replay(r) PROVE TypeInv'
  <2>1. idem[req[r].doc][req[r].key] \in 1..Len(journal)
    BY <1>3 DEF Replay
  <2>2. req' \in [Request -> RequestRow]
    <3>1. idem[req[r].doc][req[r].key] \in Nat
      BY <2>1
    <3>. QED
      BY <1>3, <3>1, RequestCommitted DEF Replay
  <2>. QED
    BY <1>3, <2>1, <2>2 DEF Replay, RequestRow
<1>4. ASSUME NEW r \in Request, Begin(r) PROVE TypeInv'
  <2>1. tx' \in Transaction
    BY <1>4, ResetTypes DEF Begin, Transaction
  <2>2. req' \in [Request -> RequestRow]
    BY <1>4, RequestMoves DEF Begin
  <2>. QED
    BY <1>4, <2>1, <2>2 DEF Begin, RequestRow
<1>5. ASSUME NEW r \in Request, RejectReferences(r) PROVE TypeInv'
  BY <1>5, ResetTypes DEF RejectReferences, IdleRequest
<1>6. ASSUME NEW r \in Request, PostLine(r) PROVE TypeInv'
  <2> DEFINE line == NextLine
             row  == tx.balance[line.cell]
             cost == LineCost(line, row, tx.outbound)
  <2>1. line \in LineInput
    <3>1. tx.req = r /\ req[r].doc \in Doc
      BY <1>6 DEF PostLine, InTx
    <3>2. Len(tx.lines) + 1 \in 1..Len(Input[req[r].doc].lines)
      BY <1>6, <3>1, InputLines DEF PostLine, LinesLeft, Transaction
    <3>. QED
      BY <3>1, <3>2, InputLines DEF NextLine
  <2>2. row \in BalanceRow
    BY <2>1 DEF LineInput, Transaction
  <2>3. cost \in Int
    BY <2>1, <2>2 DEF LineCost, LineInput, BalanceRow, NoCost, Transaction, Cell
  <2>4. Moved(row, line.qty, cost) \in BalanceRow
    BY <1>6, <2>1, <2>2, <2>3, MovedRow DEF PostLine, LineInput
  <2>5. [cell |-> line.cell, qty |-> line.qty, cost |-> cost] \in LineRow
    BY <2>1, <2>3 DEF LineInput, LineRow
  <2>6. (IF Allocates(line) THEN - line.qty ELSE 0) \in Int
    BY <2>1 DEF LineInput
  <2>7. tx' = [tx EXCEPT
               !.balance[line.cell] = Moved(row, line.qty, cost),
               !.lines = Append(@, [cell |-> line.cell, qty |-> line.qty,
                                    cost |-> cost]),
               !.outbound[<<line.cell[2], line.group>>] =
                   IF line.qty < 0 THEN cost ELSE @,
               !.need = IF Allocates(line) THEN - line.qty ELSE 0]
    BY <1>6 DEF PostLine
  <2> HIDE DEF line, row, cost
  <2>8. tx' \in Transaction
    <3> DEFINE b == [tx.balance EXCEPT ![line.cell] = Moved(row, line.qty, cost)]
               l == Append(tx.lines, [cell |-> line.cell, qty |-> line.qty,
                                      cost |-> cost])
               g == <<line.cell[2], line.group>>
               o == [tx.outbound EXCEPT ![g] = IF line.qty < 0 THEN cost ELSE @]
               n == IF Allocates(line) THEN - line.qty ELSE 0
    <3>1. b \in [Cell -> BalanceRow]
      BY <2>4 DEF Transaction
    <3>2. l \in Seq(LineRow)
      BY <2>5 DEF Transaction
    <3>3. o \in [Sku \X CostGroup -> Int]
      BY <2>3 DEF Transaction
    <3>4. tx' = [tx EXCEPT !.balance = b, !.lines = l, !.outbound = o, !.need = n]
      BY <2>7
    <3>5. n \in Int
      BY <2>6
    <3> HIDE DEF b, l, g, o, n
    <3>. QED
      BY <3>1, <3>2, <3>3, <3>4, <3>5, LineWritten
  <2>. QED
    BY <1>6, <2>8 DEF PostLine
<1>7. ASSUME NEW r \in Request, AllocateBatch(r) PROVE TypeInv'
  <2>1. PICK b \in Oldest :
          LET taken == Smaller(tx.batch[b].remaining, tx.need)
          IN tx' = [tx EXCEPT
               !.batch[b].remaining = @ - taken,
               !.need = @ - taken,
               !.allocs = Append(@, [line |-> Len(tx.lines), batch |-> b,
                                     qty |-> taken])]
    BY <1>7 DEF AllocateBatch
  <2> DEFINE taken == Smaller(tx.batch[b].remaining, tx.need)
  <2>2. b \in BatchNo
    BY DEF Oldest, Candidates
  <2>3. tx.batch[b] \in BatchRow /\ tx.need \in Int
    BY <2>2 DEF Transaction
  <2>4. taken \in Int
    BY <2>3 DEF Smaller, BatchRow
  <2>5. [tx.batch EXCEPT ![b].remaining = @ - taken] \in [BatchNo -> BatchRow]
    BY <2>2, <2>4, BatchGives DEF Transaction
  <2>6. [line |-> Len(tx.lines), batch |-> b, qty |-> taken] \in AllocationRow
    BY <2>2, <2>4 DEF AllocationRow, Transaction
  <2>7. tx' = [tx EXCEPT
               !.batch[b].remaining = @ - taken,
               !.need = @ - taken,
               !.allocs = Append(@, [line |-> Len(tx.lines), batch |-> b,
                                     qty |-> taken])]
    BY <2>1
  <2> HIDE DEF taken
  <2>8. tx' \in Transaction
    <3> DEFINE rows == [tx.batch EXCEPT ![b].remaining = @ - taken]
               n == tx.need - taken
               a == Append(tx.allocs, [line |-> Len(tx.lines), batch |-> b,
                                       qty |-> taken])
    <3>1. a \in Seq(AllocationRow)
      BY <2>6 DEF Transaction
    <3>2. n \in Int
      BY <2>3, <2>4
    <3>3. tx' = [tx EXCEPT !.batch = rows, !.need = n, !.allocs = a]
      BY <2>7
    <3>4. rows \in [BatchNo -> BatchRow]
      BY <2>5
    <3> HIDE DEF rows, n, a
    <3>. QED
      BY <3>1, <3>2, <3>3, <3>4, AllocationWritten
  <2>. QED
    BY <1>7, <2>8 DEF AllocateBatch
<1>8. ASSUME NEW r \in Request, Commit(r) PROVE TypeInv'
  <2>1. req[r].doc \in Doc /\ req[r].key \in Key
    BY <1>8 DEF Commit, InTx
  <2>2. /\ tx.balance \in [Cell -> BalanceRow] /\ tx.batch \in [BatchNo -> BatchRow]
        /\ tx.lines \in Seq(LineRow) /\ tx.allocs \in Seq(AllocationRow)
    BY DEF Transaction
  <2>3. balance' \in [Cell -> BalanceRow] /\ batch' \in [BatchNo -> BatchRow]
    BY <1>8, <2>1, <2>2, NewBatchRows DEF Commit
  <2>4. [doc |-> req[r].doc, key |-> req[r].key, lines |-> tx.lines,
         allocs |-> tx.allocs] \in Posting
    BY <2>1, <2>2 DEF Posting
  <2>5. journal' \in Seq(Posting) /\ Len(journal') = Len(journal) + 1
    BY <1>8, <2>4 DEF Commit
  <2>6. idem' \in [Doc -> [Key -> 0..Len(journal')]]
    BY <1>8, <2>1, <2>5 DEF Commit
  <2>7. req' \in [Request -> RequestRow]
    <3>1. Len(journal) + 1 \in Nat
      OBVIOUS
    <3>. QED
      BY <1>8, <3>1, RequestCommitted DEF Commit
  <2>8. tx' \in Transaction
    BY <1>8, ResetTypes DEF Commit
  <2>9. RequestsBound' /\ AnswersBound'
    BY <1>8, <2>5 DEF Commit, InTx, RequestRow
  <2>. QED
    BY <1>8, <2>1, <2>3, <2>5, <2>6, <2>7, <2>8, <2>9 DEF Commit
<1>9. ASSUME NEW r \in Request, Rollback(r) PROVE TypeInv'
  BY <1>9, ResetTypes DEF Rollback, IdleRequest
<1>10. ASSUME NEW r \in Request, SerializationFailure(r) PROVE TypeInv'
  <2>1. req' \in [Request -> RequestRow]
    <3>2. CASE MayRetry(r)
      BY <1>10, <3>2, RequestRetries DEF SerializationFailure, MayRetry
    <3>3. CASE ~ MayRetry(r)
      BY <1>10, <3>3, ResetTypes DEF SerializationFailure
    <3>. QED
      BY <3>2, <3>3
  <2>. QED
    BY <1>10, <2>1, ResetTypes
    DEF SerializationFailure, InTx, IdleRequest, RequestRow
<1>11. ASSUME NEW r \in Request, WriteAudit(r) PROVE TypeInv'
  BY <1>11, ResetTypes DEF WriteAudit, IdleRequest
<1>12. ASSUME NEW l \in AdminLocation, CheckDeactivate(l) PROVE TypeInv'
  BY <1>12, InputAssumption DEF CheckDeactivate
<1>13. ASSUME NEW l \in AdminLocation, Deactivate(l) PROVE TypeInv'
  BY <1>13 DEF Deactivate
<1>14. ASSUME NEW l \in AdminLocation, NEW status \in BOOLEAN,
              UpdateLocationStatus(l, status)
       PROVE  TypeInv'
  BY <1>14 DEF UpdateLocationStatus
<1>15. ASSUME Crash PROVE TypeInv'
  BY <1>15, ResetTypes, InputAssumption DEF Crash, IdleRequest
<1>16. ASSUME UNCHANGED vars PROVE TypeInv'
  BY <1>16 DEF vars
<1>. QED
  BY <1>1, <1>2, <1>3, <1>4, <1>5, <1>6, <1>7, <1>8, <1>9, <1>10, <1>11, <1>12,
     <1>13, <1>14, <1>15, <1>16 DEF Next, ServerStep

\* Every reachable state is well typed.
THEOREM TypeCorrect == Spec => []TypeOK
<1>1. TypeInv => TypeOK
  BY DEF TypeInv
<1>. QED
  BY <1>1, TypeInit, TypeStep, PTL DEF Spec

(***************************************************************************)
(* No negative stock.                                                      *)
(***************************************************************************)

\* Every other step drops the open transaction or leaves it and the tables
\* of the stock alone.
LEMMA StepKinds ==
    ASSUME [Next]_vars
    PROVE  \/ \E r \in Request :
                Begin(r) \/ PostLine(r) \/ AllocateBatch(r) \/ Commit(r)
           \/ tx' = NoTx /\ UNCHANGED <<balance, batch, journal>>
           \/ UNCHANGED <<tx, balance, batch, journal>>
<1>1. CASE UNCHANGED vars
  BY <1>1 DEF vars
<1>2. CASE \E d \in Doc : CreateDocument(d)
  BY <1>2 DEF CreateDocument
<1>3. CASE \E r \in Request, d \in Doc, k \in Key : Submit(r, d, k)
  BY <1>3 DEF Submit, stored
<1>4. CASE \E r \in Request : ServerStep(r) \/ SerializationFailure(r)
  <2>1. PICK r \in Request : ServerStep(r) \/ SerializationFailure(r)
    BY <1>4
  <2>2. CASE Replay(r) \/ RejectReferences(r) \/ WriteAudit(r)
    BY <2>2 DEF Replay, RejectReferences, WriteAudit, stored
  <2>3. CASE Rollback(r) \/ SerializationFailure(r)
    BY <2>3 DEF Rollback, SerializationFailure, stored
  <2>. QED
    BY <2>1, <2>2, <2>3 DEF ServerStep
<1>5. CASE \E l \in AdminLocation : CheckDeactivate(l) \/ Deactivate(l)
  BY <1>5 DEF CheckDeactivate, Deactivate, stored
<1>6. CASE \E l \in AdminLocation, status \in BOOLEAN :
             UpdateLocationStatus(l, status)
  BY <1>6 DEF UpdateLocationStatus, stored
<1>7. CASE Crash
  BY <1>7 DEF Crash, stored
<1>. QED
  BY <1>1, <1>2, <1>3, <1>4, <1>5, <1>6, <1>7 DEF Next

\* What PostLine works on is well formed.
LEMMA LineAtHand ==
    ASSUME TypeInv, NEW r \in Request, PostLine(r)
    PROVE  /\ tx.req = r /\ req[r].doc \in Doc
           /\ Len(tx.lines) + 1 \in 1..Len(Input[req[r].doc].lines)
           /\ NextLine = Input[req[r].doc].lines[Len(tx.lines) + 1]
           /\ NextLine \in LineInput
           /\ tx.balance[NextLine.cell] \in BalanceRow
           /\ LineCost(NextLine, tx.balance[NextLine.cell], tx.outbound) \in Int
<1>1. /\ tx.req = r /\ req[r].doc \in Doc
      /\ tx.balance \in [Cell -> BalanceRow] /\ tx.lines \in Seq(LineRow)
      /\ tx.outbound \in [Sku \X CostGroup -> Int]
  BY DEF PostLine, InTx, TypeInv, TypeOK, RequestsBound, Transaction
<1>2. Len(tx.lines) + 1 \in 1..Len(Input[req[r].doc].lines)
  BY <1>1, InputLines DEF PostLine, LinesLeft
<1>3. NextLine = Input[req[r].doc].lines[Len(tx.lines) + 1]
  BY <1>1 DEF NextLine
<1>4. NextLine \in LineInput
  BY <1>1, <1>2, <1>3, InputLines
<1>5. tx.balance[NextLine.cell] \in BalanceRow
  BY <1>1, <1>4 DEF LineInput
<1>6. LineCost(NextLine, tx.balance[NextLine.cell], tx.outbound) \in Int
  BY <1>1, <1>4, <1>5 DEF LineCost, LineInput, BalanceRow, NoCost, Cell
<1>. QED
  BY <1>1, <1>2, <1>3, <1>4, <1>5, <1>6

\* The rows the open transaction is working on are not negative either.
StockInv ==
    /\ NonNegativeStock
    /\ \A c \in Cell : tx.balance[c].qty >= 0

LEMMA StockStep == TypeInv /\ StockInv /\ [Next]_vars => StockInv'
<1>. SUFFICES ASSUME TypeInv, StockInv, [Next]_vars PROVE StockInv'
  OBVIOUS
<1>. USE DEF StockInv, NonNegativeStock
<1>1. \A c \in Cell : NoTx.balance[c].qty >= 0
  BY DEF NoTx, EmptyRow
<1>2. ASSUME NEW r \in Request, Begin(r) PROVE StockInv'
  <2>1. tx'.balance = balance
    BY <1>2 DEF Begin, NoTx
  <2>. QED
    BY <1>2, <2>1 DEF Begin, stored
<1>3. ASSUME NEW r \in Request, PostLine(r) PROVE StockInv'
  <2> DEFINE line == NextLine
             row  == tx.balance[line.cell]
             cost == LineCost(line, row, tx.outbound)
  <2>1. /\ line \in LineInput /\ row \in BalanceRow /\ cost \in Int
        /\ tx.balance \in [Cell -> BalanceRow]
    BY <1>3, LineAtHand DEF TypeInv, TypeOK, Transaction
  <2>6. Moved(row, line.qty, cost).qty >= 0
    BY <1>3, <2>1, MovedRow DEF PostLine, LineInput
  <2>7. tx'.balance = [tx.balance EXCEPT ![line.cell] = Moved(row, line.qty, cost)]
    BY <1>3 DEF PostLine, TypeInv, TypeOK, Transaction
  <2> HIDE DEF line, row, cost
  <2>8. \A c \in Cell : tx'.balance[c].qty >= 0
    BY <2>1, <2>6, <2>7
  <2>. QED
    BY <1>3, <2>8 DEF PostLine, stored
<1>4. ASSUME NEW r \in Request, AllocateBatch(r) PROVE StockInv'
  <2>1. tx'.balance = tx.balance
    BY <1>4 DEF AllocateBatch, TypeInv, TypeOK, Transaction
  <2>. QED
    BY <1>4, <2>1 DEF AllocateBatch, stored
<1>5. ASSUME NEW r \in Request, Commit(r) PROVE StockInv'
  BY <1>1, <1>5 DEF Commit
<1>6. ASSUME tx' = NoTx, balance' = balance PROVE StockInv'
  BY <1>1, <1>6
<1>7. ASSUME UNCHANGED <<tx, balance>> PROVE StockInv'
  BY <1>7
<1>. QED
  BY <1>2, <1>3, <1>4, <1>5, <1>6, <1>7, StepKinds

LEMMA StockInit == Init => StockInv
BY DEF Init, StockInv, NonNegativeStock, EmptyRow, NoTx

\* No committed posting leaves a balance below zero.
THEOREM NoNegativeStock == Spec => []NonNegativeStock
<1>1. Init => StockInv
  BY StockInit
<1>2. StockInv => NonNegativeStock
  BY DEF StockInv
<1>. QED
  BY <1>1, <1>2, TypeInit, TypeStep, StockStep, PTL DEF Spec

(***************************************************************************)
(* Batches.                                                                *)
(***************************************************************************)

\* What FIFO has still to allocate is never negative, and the batches of the
\* open transaction are within what they received too.
BatchInv ==
    /\ BatchWithinReceipt
    /\ \A b \in BatchNo : tx.batch[b].remaining \in 0..tx.batch[b].received
    /\ tx.need >= 0

LEMMA BatchStep == TypeInv /\ BatchInv /\ [Next]_vars => BatchInv'
<1>. SUFFICES ASSUME TypeInv, BatchInv, [Next]_vars PROVE BatchInv'
  OBVIOUS
<1>. USE DEF BatchInv, BatchWithinReceipt
<1>1. /\ \A b \in BatchNo : NoTx.batch[b].remaining \in 0..NoTx.batch[b].received
      /\ NoTx.need >= 0
  BY DEF NoTx, NoBatch
<1>2. ASSUME NEW r \in Request, Begin(r) PROVE BatchInv'
  <2>1. tx'.batch = batch /\ tx'.need = 0
    BY <1>2 DEF Begin, NoTx
  <2>. QED
    BY <1>2, <2>1 DEF Begin, stored
<1>3. ASSUME NEW r \in Request, PostLine(r) PROVE BatchInv'
  <2>1. tx'.batch = tx.batch
    BY <1>3 DEF PostLine, TypeInv, TypeOK, Transaction
  <2>2. tx'.need = IF Allocates(NextLine) THEN - NextLine.qty ELSE 0
    BY <1>3 DEF PostLine, TypeInv, TypeOK, Transaction
  <2>3. tx'.need >= 0
    BY <1>3, <2>2, LineAtHand DEF Allocates, LineInput
  <2>. QED
    BY <1>3, <2>1, <2>3 DEF PostLine, stored
<1>4. ASSUME NEW r \in Request, AllocateBatch(r) PROVE BatchInv'
  <2>1. PICK b \in Oldest :
          LET taken == Smaller(tx.batch[b].remaining, tx.need)
          IN tx' = [tx EXCEPT
               !.batch[b].remaining = @ - taken,
               !.need = @ - taken,
               !.allocs = Append(@, [line |-> Len(tx.lines), batch |-> b,
                                     qty |-> taken])]
    BY <1>4 DEF AllocateBatch
  <2> DEFINE taken == Smaller(tx.batch[b].remaining, tx.need)
  <2>2. b \in BatchNo /\ tx.batch[b].remaining > 0 /\ tx.need > 0
    BY <1>4 DEF Oldest, Candidates, AllocateBatch
  <2>3. tx.batch \in [BatchNo -> BatchRow] /\ tx.batch[b] \in BatchRow
        /\ tx.need \in Int
    BY <2>2 DEF TypeInv, TypeOK, Transaction
  <2>4. /\ taken \in Nat /\ taken <= tx.need
        /\ taken <= tx.batch[b].remaining
    BY <2>2, <2>3 DEF Smaller, BatchRow
  <2>5. /\ tx'.batch = [tx.batch EXCEPT ![b].remaining = @ - taken]
        /\ tx'.need = tx.need - taken
    BY <2>1 DEF TypeInv, TypeOK, Transaction
  <2> HIDE DEF taken
  <2>6. tx'.need >= 0
    BY <2>3, <2>4, <2>5
  <2>7. ASSUME NEW c \in BatchNo
        PROVE  tx'.batch[c].remaining \in 0..tx'.batch[c].received
    <3>1. CASE c = b
      <4>1. /\ tx'.batch[b].remaining = tx.batch[b].remaining - taken
            /\ tx'.batch[b].received = tx.batch[b].received
        BY <2>2, <2>3, <2>5 DEF BatchRow
      <4>. QED
        BY <2>2, <2>3, <2>4, <3>1, <4>1 DEF BatchRow
    <3>2. CASE c # b
      BY <2>3, <2>5, <3>2
    <3>. QED
      BY <3>1, <3>2
  <2>. QED
    BY <1>4, <2>6, <2>7 DEF AllocateBatch, stored
<1>5. ASSUME NEW r \in Request, Commit(r) PROVE BatchInv'
  <2>1. /\ req[r].doc \in Doc /\ tx.batch \in [BatchNo -> BatchRow]
        /\ journal \in Seq(Posting)
    BY <1>5 DEF Commit, InTx, TypeInv, TypeOK, RequestsBound, Transaction
  <2>2. batch' = WithNewBatches(req[r].doc) /\ tx' = NoTx
    BY <1>5 DEF Commit
  <2>3. BatchWithinReceipt'
    BY <2>1, <2>2, NewBatchRows
  <2>. QED
    BY <1>1, <2>2, <2>3
<1>6. ASSUME tx' = NoTx, batch' = batch PROVE BatchInv'
  BY <1>1, <1>6
<1>7. ASSUME UNCHANGED <<tx, batch>> PROVE BatchInv'
  BY <1>7
<1>. QED
  BY <1>2, <1>3, <1>4, <1>5, <1>6, <1>7, StepKinds

LEMMA BatchInit == Init => BatchInv
BY DEF Init, BatchInv, BatchWithinReceipt, NoBatch, NoTx

\* No batch gives out more than it received.
THEOREM BatchesWithinReceipt == Spec => []BatchWithinReceipt
<1>1. Init => BatchInv
  BY BatchInit
<1>2. BatchInv => BatchWithinReceipt
  BY DEF BatchInv
<1>. QED
  BY <1>1, <1>2, TypeInit, TypeStep, BatchStep, PTL DEF Spec

(***************************************************************************)
(* Every document is posted once, and answers name their posting.          *)
(***************************************************************************)

\* An idempotency record names the posting of its document and key.
RecordsNamePostings ==
    \A d \in Doc, k \in Key : idem[d][k] # 0 =>
        /\ idem[d][k] \in 1..Len(journal)
        /\ journal[idem[d][k]].doc = d
        /\ journal[idem[d][k]].key = k

AnswerInv == RecordsNamePostings /\ ReplyNamesItsPosting

\* Requests that a step does not bring to "tx" or "committed" are the only
\* ones that Begin, Replay and Commit do not touch and others do.
LEMMA RequestKinds ==
    ASSUME TypeInv, [Next]_vars
    PROVE  \/ \E d \in Doc : CreateDocument(d)
           \/ \E r \in Request : Begin(r) \/ Replay(r) \/ Commit(r)
           \/ /\ UNCHANGED <<journal, idem, docStatus>>
              /\ \A q \in Request : req'[q].pc \in {"tx", "committed"} =>
                                      req'[q] = req[q]
<1>. USE DEF stored
<1>0. req \in [Request -> RequestRow]
  BY DEF TypeInv, TypeOK
<1>1. CASE UNCHANGED vars
  BY <1>1 DEF vars
<1>2. CASE \E r \in Request, d \in Doc, k \in Key : Submit(r, d, k)
  BY <1>0, <1>2 DEF Submit
<1>3. ASSUME NEW r \in Request,
             \/ RejectReferences(r) \/ Rollback(r) \/ WriteAudit(r)
             \/ SerializationFailure(r)
      PROVE  /\ UNCHANGED <<journal, idem, docStatus>>
             /\ \A q \in Request : req'[q].pc \in {"tx", "committed"} =>
                                     req'[q] = req[q]
  <2>1. UNCHANGED <<journal, idem, docStatus>>
    BY <1>3 DEF RejectReferences, Rollback, WriteAudit, SerializationFailure
  <2>2. \/ req' = [req EXCEPT ![r] = IdleRequest]
        \/ req' = [req EXCEPT ![r].pc = "loaded", ![r].attempt = @ + 1]
    BY <1>3 DEF RejectReferences, Rollback, WriteAudit, SerializationFailure
  <2>. QED
    BY <1>0, <2>1, <2>2 DEF IdleRequest, RequestRow
<1>4. CASE \E r \in Request : PostLine(r) \/ AllocateBatch(r)
  BY <1>4 DEF PostLine, AllocateBatch
<1>5. CASE \E l \in AdminLocation : CheckDeactivate(l) \/ Deactivate(l)
  BY <1>5 DEF CheckDeactivate, Deactivate
<1>6. CASE \E l \in AdminLocation, status \in BOOLEAN :
             UpdateLocationStatus(l, status)
  BY <1>6 DEF UpdateLocationStatus
<1>7. CASE Crash
  BY <1>7 DEF Crash, IdleRequest
<1>. QED
  BY <1>1, <1>2, <1>3, <1>4, <1>5, <1>6, <1>7 DEF Next, ServerStep

\* What a commit adds to the journal.
LEMMA Committed ==
    ASSUME TypeInv, NEW r \in Request, Commit(r)
    PROVE  /\ req[r].doc \in Doc /\ req[r].key \in Key
           /\ Len(journal) \in Nat /\ Len(journal') = Len(journal) + 1
           /\ \A t \in 1..Len(journal) : journal'[t] = journal[t]
           /\ journal'[Len(journal) + 1].doc = req[r].doc
           /\ journal'[Len(journal) + 1].key = req[r].key
           /\ journal'[Len(journal) + 1].lines = tx.lines
           /\ journal'[Len(journal) + 1].allocs = tx.allocs
<1>1. req[r].doc \in Doc /\ req[r].key \in Key
  BY DEF Commit, InTx, TypeInv, RequestsBound
<1>2. journal \in Seq(Posting) /\ tx.lines \in Seq(LineRow)
      /\ tx.allocs \in Seq(AllocationRow)
  BY DEF TypeInv, TypeOK, Transaction
<1>3. [doc |-> req[r].doc, key |-> req[r].key, lines |-> tx.lines,
       allocs |-> tx.allocs] \in Posting
  BY <1>1, <1>2 DEF Posting
<1> DEFINE p == [doc |-> req[r].doc, key |-> req[r].key, lines |-> tx.lines,
                 allocs |-> tx.allocs]
<1>4. /\ p.doc = req[r].doc /\ p.key = req[r].key
      /\ p.lines = tx.lines /\ p.allocs = tx.allocs
  OBVIOUS
<1>5. journal' = Append(journal, p)
  BY DEF Commit
<1> HIDE DEF p
<1>6. /\ Len(journal) \in Nat /\ Len(journal') = Len(journal) + 1
      /\ \A t \in 1..Len(journal) : journal'[t] = journal[t]
      /\ journal'[Len(journal) + 1] = p
  BY <1>2, <1>3, <1>5 DEF p
<1>. QED
  BY <1>1, <1>4, <1>6

LEMMA PostedStep == TypeInv /\ PostedOnce /\ [Next]_vars => PostedOnce'
<1>. SUFFICES ASSUME TypeInv, PostedOnce, [Next]_vars PROVE PostedOnce'
  OBVIOUS
<1>0. docStatus \in [Doc -> {"ABSENT", "DRAFT", "POSTED"}]
  BY DEF TypeInv, TypeOK
<1>1. ASSUME NEW d \in Doc, CreateDocument(d) PROVE PostedOnce'
  BY <1>0, <1>1 DEF CreateDocument, PostedOnce
<1>2. ASSUME NEW r \in Request, Begin(r) \/ Replay(r) PROVE PostedOnce'
  BY <1>2 DEF Begin, Replay, stored, PostedOnce
<1>3. ASSUME NEW r \in Request, Commit(r) PROVE PostedOnce'
  <2> DEFINE n == Len(journal)
             d == req[r].doc
  <2>1. /\ d \in Doc /\ n \in Nat /\ Len(journal') = n + 1
        /\ \A t \in 1..n : journal'[t] = journal[t]
        /\ journal'[n + 1].doc = d
    BY <1>3, Committed
  <2>2. docStatus[d] = "DRAFT" /\ docStatus' = [docStatus EXCEPT ![d] = "POSTED"]
    BY <1>3 DEF Commit, Finalizable
  <2>3. \A t \in 1..n : journal[t].doc # d
    BY <2>1, <2>2 DEF PostedOnce
  <2> HIDE DEF n, d
  <2>4. \A t \in 1..(n + 1) : t \in 1..n \/ t = n + 1
    BY <2>1
  <2>5. \A t, u \in 1..Len(journal') : journal'[t].doc = journal'[u].doc => t = u
    <3>1. \A t, u \in 1..n : journal[t].doc = journal[u].doc => t = u
      BY DEF PostedOnce, n
    <3>. QED
      BY <2>1, <2>3, <2>4, <3>1
  <2>6. ASSUME NEW e \in Doc
        PROVE  docStatus'[e] = "POSTED" <=>
                 \E t \in 1..Len(journal') : journal'[t].doc = e
    <3>1. docStatus[e] = "POSTED" <=> \E t \in 1..n : journal[t].doc = e
      BY DEF PostedOnce, n
    <3>2. (n + 1) \in 1..(n + 1) /\ 1..n \subseteq 1..(n + 1)
      BY <2>1
    <3>3. CASE e = d
      BY <1>0, <2>1, <2>2, <3>2, <3>3
    <3>4. CASE e # d
      BY <1>0, <2>1, <2>2, <2>4, <3>1, <3>2, <3>4
    <3>. QED
      BY <3>3, <3>4
  <2>. QED
    BY <2>5, <2>6 DEF PostedOnce
<1>4. ASSUME UNCHANGED <<journal, idem, docStatus>> PROVE PostedOnce'
  BY <1>4 DEF PostedOnce
<1>. QED
  BY <1>1, <1>2, <1>3, <1>4, RequestKinds

\* A document is posted exactly when the journal holds one posting of it.
THEOREM PostedOnlyOnce == Spec => []PostedOnce
<1>1. Init => PostedOnce
  BY DEF Init, PostedOnce
<1>. QED
  BY <1>1, TypeInit, TypeStep, PostedStep, PTL DEF Spec

LEMMA AnswerStep == TypeInv /\ AnswerInv /\ [Next]_vars => AnswerInv'
<1>. SUFFICES ASSUME TypeInv, AnswerInv, [Next]_vars PROVE AnswerInv'
  OBVIOUS
<1>. USE DEF AnswerInv, RecordsNamePostings, ReplyNamesItsPosting
<1>0. req \in [Request -> RequestRow] /\ idem \in [Doc -> [Key -> 0..Len(journal)]]
  BY DEF TypeInv, TypeOK
<1>1. ASSUME NEW d \in Doc, CreateDocument(d) PROVE AnswerInv'
  BY <1>1 DEF CreateDocument
<1>2. ASSUME NEW r \in Request, Begin(r) PROVE AnswerInv'
  BY <1>0, <1>2 DEF Begin, stored, RequestRow
<1>3. ASSUME NEW r \in Request, Replay(r) PROVE AnswerInv'
  <2>1. req[r].doc \in Doc /\ req[r].key \in Key
    BY <1>3 DEF Replay, TypeInv, RequestsBound
  <2>2. /\ req'[r].pc = "committed" /\ req'[r].doc = req[r].doc
        /\ req'[r].key = req[r].key
        /\ req'[r].result = idem[req[r].doc][req[r].key]
        /\ \A q \in Request : q # r => req'[q] = req[q]
    BY <1>0, <1>3 DEF Replay, RequestRow
  <2>3. UNCHANGED <<journal, idem>> /\ idem[req[r].doc][req[r].key] # 0
    BY <1>3 DEF Replay, stored
  <2>. QED
    BY <2>1, <2>2, <2>3
<1>4. ASSUME NEW r \in Request, Commit(r) PROVE AnswerInv'
  <2> DEFINE n == Len(journal)
             d == req[r].doc
             k == req[r].key
  <2>1. /\ d \in Doc /\ k \in Key /\ n \in Nat /\ Len(journal') = n + 1
        /\ \A t \in 1..n : journal'[t] = journal[t]
        /\ journal'[n + 1].doc = d /\ journal'[n + 1].key = k
    BY <1>4, Committed
  <2>2. idem' = [idem EXCEPT ![d][k] = n + 1]
    BY <1>4 DEF Commit
  <2>3. /\ req'[r].doc = d /\ req'[r].key = k /\ req'[r].result = n + 1
        /\ \A q \in Request : q # r => req'[q] = req[q]
    BY <1>0, <1>4 DEF Commit, RequestRow
  <2>4. /\ \A e \in Doc, j \in Key : idem[e][j] # 0 =>
             /\ idem[e][j] \in 1..n /\ journal[idem[e][j]].doc = e
             /\ journal[idem[e][j]].key = j
        /\ \A q \in Request : req[q].pc = "committed" =>
             /\ req[q].result \in 1..n /\ journal[req[q].result].doc = req[q].doc
             /\ journal[req[q].result].key = req[q].key
    OBVIOUS
  <2>5. idem \in [Doc -> [Key -> 0..n]]
    BY <1>0
  <2> HIDE DEF n, d, k
  <2>6. n + 1 \in 1..(n + 1) /\ 1..n \subseteq 1..(n + 1)
    BY <2>1
  <2>7. RecordsNamePostings'
    <3>1. SUFFICES ASSUME NEW e \in Doc, NEW j \in Key, idem'[e][j] # 0
                   PROVE  /\ idem'[e][j] \in 1..Len(journal')
                          /\ journal'[idem'[e][j]].doc = e
                          /\ journal'[idem'[e][j]].key = j
      OBVIOUS
    <3>2. CASE e = d /\ j = k
      BY <2>1, <2>2, <2>5, <2>6, <3>2
    <3>3. CASE ~ (e = d /\ j = k)
      <4>1. idem'[e][j] = idem[e][j]
        BY <2>1, <2>2, <2>5, <3>3
      <4>. QED
        BY <2>1, <2>4, <2>6, <3>1, <4>1
    <3>. QED
      BY <3>2, <3>3
  <2>8. ReplyNamesItsPosting'
    BY <2>1, <2>3, <2>4, <2>6
  <2>. QED
    BY <2>7, <2>8
<1>5. ASSUME UNCHANGED <<journal, idem, docStatus>>,
             \A q \in Request : req'[q].pc \in {"tx", "committed"} =>
                                 req'[q] = req[q]
      PROVE  AnswerInv'
  BY <1>5
<1>. QED
  BY <1>1, <1>2, <1>3, <1>4, <1>5, RequestKinds

\* An answer, first or replayed, names the posting of its document and key.
THEOREM RepliesNameTheirPosting == Spec => []ReplyNamesItsPosting
<1>1. Init => AnswerInv
  BY DEF Init, AnswerInv, RecordsNamePostings, ReplyNamesItsPosting, IdleRequest
<1>2. AnswerInv => ReplyNamesItsPosting
  BY DEF AnswerInv
<1>. QED
  BY <1>1, <1>2, TypeInit, TypeStep, AnswerStep, PTL DEF Spec

(***************************************************************************)
(* A committed posting is the whole document.                              *)
(***************************************************************************)

\* The lines written so far by an open transaction are the first lines of the
\* document it posts.
LinesInv ==
    /\ JournalMatchesInput
    /\ \A r \in Request : InTx(r) =>
         LET input == Input[req[r].doc].lines IN
         /\ Len(tx.lines) <= Len(input)
         /\ \A i \in 1..Len(tx.lines) : /\ tx.lines[i].qty = input[i].qty
                                        /\ tx.lines[i].cell = input[i].cell

LEMMA LinesStep == TypeInv /\ LinesInv /\ [Next]_vars => LinesInv'
<1>. SUFFICES ASSUME TypeInv, LinesInv, [Next]_vars PROVE LinesInv'
  OBVIOUS
<1>. USE DEF LinesInv
<1>0. /\ req \in [Request -> RequestRow] /\ tx \in Transaction
      /\ tx.lines \in Seq(LineRow)
  BY DEF TypeInv, TypeOK, Transaction
<1>1. ASSUME NEW r \in Request, Begin(r) PROVE LinesInv'
  <2>1. tx'.req = r /\ tx'.lines = << >>
    BY <1>1 DEF Begin, NoTx
  <2>2. \A q \in Request : InTx(q)' => q = r /\ req'[q].doc = req[r].doc
    BY <1>0, <1>1, <2>1 DEF Begin, InTx, RequestRow
  <2>3. req[r].doc \in Doc /\ Len(tx'.lines) = 0
    BY <1>1, <2>1 DEF Begin, TypeInv, RequestsBound
  <2>4. JournalMatchesInput'
    BY <1>1 DEF Begin, stored, JournalMatchesInput
  <2>. QED
    BY <2>2, <2>3, <2>4, InputLines
<1>2. ASSUME NEW r \in Request, PostLine(r) PROVE LinesInv'
  <2> DEFINE input == Input[req[r].doc].lines
             n == Len(tx.lines)
  <2>1. PICK cost :
          tx'.lines = Append(tx.lines, [cell |-> NextLine.cell,
                                        qty |-> NextLine.qty, cost |-> cost])
                /\ cost \in Int
    BY <1>0, <1>2, LineAtHand DEF PostLine, Transaction
  <2>2. /\ tx'.req = tx.req /\ req' = req /\ journal' = journal
        /\ NextLine = input[n + 1] /\ n + 1 \in 1..Len(input)
        /\ tx.req = r /\ InTx(r) /\ NextLine \in LineInput
    BY <1>0, <1>2, LineAtHand DEF PostLine, stored, Transaction
  <2> DEFINE line == [cell |-> NextLine.cell, qty |-> NextLine.qty, cost |-> cost]
  <2>3. line \in LineRow /\ line.qty = NextLine.qty /\ line.cell = NextLine.cell
    BY <2>1, <2>2 DEF LineRow, LineInput
  <2> HIDE DEF line
  <2>4. /\ n \in Nat /\ Len(tx'.lines) = n + 1
        /\ \A i \in 1..n : tx'.lines[i] = tx.lines[i]
        /\ tx'.lines[n + 1] = line
    BY <1>0, <2>1, <2>3 DEF line
  <2>5. \A i \in 1..n : tx.lines[i].qty = input[i].qty /\ tx.lines[i].cell = input[i].cell
    BY <2>2
  <2>6. JournalMatchesInput'
    BY <2>2 DEF JournalMatchesInput
  <2>7. \A q \in Request : InTx(q)' => q = r
    BY <2>2 DEF InTx
  <2> HIDE DEF n
  <2>8. \A i \in 1..(n + 1) : i \in 1..n \/ i = n + 1
    BY <2>4
  <2>9. \A i \in 1..(n + 1) : /\ tx'.lines[i].qty = input[i].qty
                              /\ tx'.lines[i].cell = input[i].cell
    BY <2>2, <2>3, <2>4, <2>5, <2>8
  <2>10. n + 1 <= Len(input)
    BY <2>2, <2>4, LineAtHand, <1>2, InputLines
  <2>. QED
    BY <2>2, <2>4, <2>6, <2>7, <2>9, <2>10
<1>3. ASSUME NEW r \in Request, AllocateBatch(r) PROVE LinesInv'
  <2>1. tx'.lines = tx.lines /\ tx'.req = tx.req
    BY <1>0, <1>3 DEF AllocateBatch, Transaction
  <2>2. UNCHANGED <<req, journal>>
    BY <1>3 DEF AllocateBatch, stored
  <2>. QED
    BY <2>1, <2>2 DEF InTx, JournalMatchesInput
<1>4. ASSUME NEW r \in Request, Commit(r) PROVE LinesInv'
  <2>1. \A q \in Request : ~ InTx(q)'
    BY <1>4, InputAssumption DEF Commit, InTx, NoTx
  <2>2. /\ InTx(r) /\ Len(tx.lines) = Len(Input[req[r].doc].lines)
    BY <1>4 DEF Commit, LinesDone
  <2> DEFINE n == Len(journal)
             d == req[r].doc
  <2>3. /\ n \in Nat /\ Len(journal') = n + 1
        /\ \A t \in 1..n : journal'[t] = journal[t]
        /\ journal'[n + 1].doc = d /\ journal'[n + 1].lines = tx.lines
    BY <1>4, Committed
  <2>4. \A i \in 1..Len(Input[d].lines) :
          /\ tx.lines[i].qty = Input[d].lines[i].qty
          /\ tx.lines[i].cell = Input[d].lines[i].cell
    BY <2>2
  <2>5. \A t \in 1..n :
          /\ Len(journal[t].lines) = Len(Input[journal[t].doc].lines)
          /\ \A i \in 1..Len(Input[journal[t].doc].lines) :
               /\ journal[t].lines[i].qty = Input[journal[t].doc].lines[i].qty
               /\ journal[t].lines[i].cell = Input[journal[t].doc].lines[i].cell
    BY DEF JournalMatchesInput
  <2>6. Len(tx.lines) = Len(Input[d].lines)
    BY <2>2
  <2> HIDE DEF n, d
  <2>7. \A t \in 1..(n + 1) : t \in 1..n \/ t = n + 1
    BY <2>3
  <2>8. JournalMatchesInput'
    <3>1. SUFFICES ASSUME NEW t \in 1..Len(journal')
                   PROVE  LET input == Input[journal'[t].doc].lines IN
                          /\ Len(journal'[t].lines) = Len(input)
                          /\ \A i \in 1..Len(input) :
                               /\ journal'[t].lines[i].qty = input[i].qty
                               /\ journal'[t].lines[i].cell = input[i].cell
      BY DEF JournalMatchesInput
    <3>2. CASE t \in 1..n
      <4>1. journal'[t] = journal[t]
        BY <2>3, <3>2
      <4>. QED
        BY <2>5, <3>2, <4>1
    <3>3. CASE t = n + 1
      BY <2>3, <2>4, <2>6, <3>3
    <3>. QED
      BY <2>3, <2>7, <3>1, <3>2, <3>3
  <2>. QED
    BY <2>1, <2>8
<1>5. ASSUME tx' = NoTx, journal' = journal PROVE LinesInv'
  <2>1. \A q \in Request : ~ InTx(q)'
    BY <1>5, InputAssumption DEF InTx, NoTx
  <2>. QED
    BY <1>5, <2>1 DEF JournalMatchesInput
<1>6. ASSUME UNCHANGED <<tx, journal>>,
             \A q \in Request : req'[q].pc \in {"tx", "committed"} =>
                                 req'[q] = req[q]
      PROVE  LinesInv'
  <2>1. JournalMatchesInput'
    BY <1>6 DEF JournalMatchesInput
  <2>2. \A q \in Request : InTx(q)' => InTx(q) /\ req'[q] = req[q]
    BY <1>6 DEF InTx
  <2>. QED
    BY <1>6, <2>1, <2>2
<1>7. ASSUME NEW d \in Doc, CreateDocument(d) PROVE LinesInv'
  BY <1>7 DEF CreateDocument, InTx, JournalMatchesInput
<1>8. ASSUME NEW r \in Request, Replay(r) PROVE LinesInv'
  BY <1>0, <1>8 DEF Replay, stored, InTx, JournalMatchesInput, RequestRow
<1>. QED
  BY <1>1, <1>2, <1>3, <1>4, <1>5, <1>6, <1>7, <1>8, StepKinds, RequestKinds

LEMMA LinesInit == Init => LinesInv
BY InputAssumption DEF Init, LinesInv, JournalMatchesInput, InTx, NoTx

\* A committed transaction has exactly the lines of its document.
THEOREM PostingsAreWhole == Spec => []JournalMatchesInput
<1>1. Init => LinesInv
  BY LinesInit
<1>2. LinesInv => JournalMatchesInput
  BY DEF LinesInv
<1>. QED
  BY <1>1, <1>2, TypeInit, TypeStep, LinesStep, PTL DEF Spec

(***************************************************************************)
(* The ledger lines explain the balances.                                  *)
(***************************************************************************)

\* One more line moves its cell and no other.
LEMMA MovedByOneMore ==
    ASSUME NEW lines \in Seq(LineRow), NEW line \in LineRow, NEW c
    PROVE  /\ MovedIn(lines, c) \in Int
           /\ MovedIn(Append(lines, line), c)
                = MovedIn(lines, c) + (IF line.cell = c THEN line.qty ELSE 0)
<1>. DEFINE n == Len(lines)
            more == Append(lines, line)
            f == [i \in 1..n |-> IF lines[i].cell = c THEN lines[i].qty ELSE 0]
            g == [i \in 1..(n + 1) |-> IF more[i].cell = c THEN more[i].qty ELSE 0]
<1>1. /\ n \in Nat /\ Len(more) = n + 1 /\ more[n + 1] = line
      /\ \A i \in 1..n : more[i] = lines[i] /\ lines[i] \in LineRow
  OBVIOUS
<1>2. MovedIn(lines, c) = Total(f)
  BY DEF MovedIn
<1>3. MovedIn(more, c) = Total(g)
  BY <1>1 DEF MovedIn
<1>4. \A i \in 1..n : lines[i].qty \in Int
  BY <1>1 DEF LineRow
<1>5. f \in [1..n -> Int]
  BY <1>4
<1>6. \A i \in 1..(n + 1) : more[i].qty \in Int
  <2>1. line.qty \in Int
    BY DEF LineRow
  <2>. HIDE DEF more, n
  <2>. QED
    BY <1>1, <1>4, <2>1
<1>. HIDE DEF more, n
<1>7. g \in [1..(n + 1) -> Int]
  BY <1>6
<1>8. f = Restrict(g, 1..n)
  BY <1>1 DEF Restrict
<1>9. g[n + 1] = IF line.cell = c THEN line.qty ELSE 0
  BY <1>1
<1>. HIDE DEF f, g
<1>. QED
  BY <1>1, <1>2, <1>3, <1>5, <1>7, <1>8, <1>9, TotalAppended DEF more

\* No line moves nothing.
LEMMA NothingMoved == \A c : MovedIn(<< >>, c) = 0
BY TotalEmpty DEF MovedIn

\* What the journal moves in a cell, and what a commit adds to it.
JournalMoved(c) == Total([t \in 1..Len(journal) |-> MovedIn(journal[t].lines, c)])

LEMMA LinesOfPostings ==
    ASSUME TypeInv
    PROVE  /\ journal \in Seq(Posting) /\ Len(journal) \in Nat
           /\ \A t \in 1..Len(journal) : /\ journal[t].lines \in Seq(LineRow)
                                         /\ journal[t].allocs \in Seq(AllocationRow)
<1>1. journal \in Seq(Posting)
  BY DEF TypeInv, TypeOK
<1>2. \A t \in 1..Len(journal) : journal[t] \in Posting
  BY <1>1
<1>. QED
  BY <1>1, <1>2 DEF Posting

LEMMA MovedIsInt == ASSUME NEW lines \in Seq(LineRow), NEW c PROVE MovedIn(lines, c) \in Int
<1>. DEFINE n == Len(lines)
            f == [i \in 1..n |-> IF lines[i].cell = c THEN lines[i].qty ELSE 0]
<1>1. n \in Nat /\ \A i \in 1..n : lines[i] \in LineRow
  OBVIOUS
<1>2. \A i \in 1..n : lines[i].qty \in Int
  BY <1>1 DEF LineRow
<1>3. MovedIn(lines, c) = Total(f)
  BY DEF MovedIn
<1>4. IsFiniteSet(1..n)
  BY <1>1, FS_Interval
<1>. HIDE DEF n
<1>5. f \in [1..n -> Int]
  BY <1>2
<1>. HIDE DEF f
<1>. QED
  BY <1>3, <1>4, <1>5, TotalInt

LEMMA JournalMovedGrows ==
    ASSUME TypeInv, NEW r \in Request, Commit(r), NEW c
    PROVE  JournalMoved(c)' = JournalMoved(c) + MovedIn(tx.lines, c)
<1>. DEFINE n == Len(journal)
            f == [t \in 1..n |-> MovedIn(journal[t].lines, c)]
            g == [t \in 1..(n + 1) |-> MovedIn(journal'[t].lines, c)]
<1>1. /\ n \in Nat /\ Len(journal') = n + 1
      /\ \A t \in 1..n : journal'[t] = journal[t]
      /\ journal'[n + 1].lines = tx.lines
  BY Committed
<1>2. \A t \in 1..n : MovedIn(journal[t].lines, c) \in Int
  BY LinesOfPostings, MovedIsInt
<1>3. MovedIn(tx.lines, c) \in Int
  BY MovedIsInt DEF TypeInv, TypeOK, Transaction
<1>4. JournalMoved(c) = Total(f) /\ JournalMoved(c)' = Total(g)
  BY <1>1 DEF JournalMoved
<1>. HIDE DEF n
<1>5. f \in [1..n -> Int]
  BY <1>2
<1>6. g \in [1..(n + 1) -> Int]
  BY <1>1, <1>2, <1>3
<1>7. f = Restrict(g, 1..n) /\ g[n + 1] = MovedIn(tx.lines, c)
  BY <1>1 DEF Restrict
<1>. HIDE DEF f, g
<1>. QED
  BY <1>1, <1>4, <1>5, <1>6, <1>7, TotalAppended

\* The rows the open transaction works on differ from the stored ones by its lines.
LedgerInv ==
    /\ LedgerExplainsBalance
    /\ tx.req # None => \A c \in Cell :
         tx.balance[c].qty = balance[c].qty + MovedIn(tx.lines, c)

LEMMA LedgerStep == TypeInv /\ LedgerInv /\ [Next]_vars => LedgerInv'
<1>. SUFFICES ASSUME TypeInv, LedgerInv, [Next]_vars PROVE LedgerInv'
  OBVIOUS
<1>. USE DEF LedgerInv
<1>0. /\ tx \in Transaction /\ tx.lines \in Seq(LineRow)
      /\ balance \in [Cell -> BalanceRow] /\ tx.balance \in [Cell -> BalanceRow]
  BY DEF TypeInv, TypeOK, Transaction
<1>1. ASSUME UNCHANGED <<balance, journal>> PROVE LedgerExplainsBalance'
  BY <1>1 DEF LedgerExplainsBalance
<1>2. ASSUME NEW r \in Request, Begin(r) PROVE LedgerInv'
  <2>1. tx'.balance = balance /\ tx'.lines = << >> /\ UNCHANGED <<balance, journal>>
    BY <1>2 DEF Begin, NoTx, stored
  <2>2. \A c \in Cell : balance[c].qty \in Int
    BY <1>0 DEF BalanceRow
  <2>. QED
    BY <1>1, <2>1, <2>2, NothingMoved
<1>3. ASSUME NEW r \in Request, PostLine(r) PROVE LedgerInv'
  <2> DEFINE line == NextLine
             row  == tx.balance[line.cell]
             cost == LineCost(line, row, tx.outbound)
             new  == [cell |-> line.cell, qty |-> line.qty, cost |-> cost]
  <2>1. /\ line \in LineInput /\ row \in BalanceRow /\ cost \in Int /\ tx.req = r
    BY <1>3, LineAtHand
  <2>2. Moved(row, line.qty, cost).qty = row.qty + line.qty
    BY <1>3, <2>1, MovedRow DEF PostLine, LineInput
  <2>3. /\ tx'.balance = [tx.balance EXCEPT ![line.cell] = Moved(row, line.qty, cost)]
        /\ tx'.lines = Append(tx.lines, new)
        /\ UNCHANGED <<balance, journal>>
    BY <1>0, <1>3 DEF PostLine, Transaction, stored
  <2>4. new \in LineRow /\ new.cell = line.cell /\ new.qty = line.qty
    BY <2>1 DEF LineInput, LineRow
  <2>5. tx.req # None
    BY <2>1, InputAssumption
  <2> HIDE DEF line, cost, new
  <2>6. ASSUME NEW c \in Cell
        PROVE  tx'.balance[c].qty = balance'[c].qty + MovedIn(tx'.lines, c)
    <3>1. /\ MovedIn(tx.lines, c) \in Int
          /\ MovedIn(tx'.lines, c)
               = MovedIn(tx.lines, c) + (IF line.cell = c THEN line.qty ELSE 0)
      BY <1>0, <2>3, <2>4, MovedByOneMore
    <3>2. tx.balance[c].qty = balance[c].qty + MovedIn(tx.lines, c)
      BY <2>5
    <3>3. tx.balance[c].qty \in Int /\ balance[c].qty \in Int /\ line.qty \in Int
      BY <1>0, <2>1 DEF BalanceRow, LineInput
    <3>4. tx'.balance[c].qty = tx.balance[c].qty + (IF line.cell = c THEN line.qty ELSE 0)
      BY <1>0, <2>1, <2>2, <2>3, <3>3
    <3>. QED
      BY <2>3, <3>1, <3>2, <3>3, <3>4
  <2>. QED
    BY <1>1, <2>3, <2>6
<1>4. ASSUME NEW r \in Request, AllocateBatch(r) PROVE LedgerInv'
  <2>1. /\ tx'.balance = tx.balance /\ tx'.lines = tx.lines /\ tx'.req = tx.req
        /\ UNCHANGED <<balance, journal>>
    BY <1>0, <1>4 DEF AllocateBatch, Transaction, stored
  <2>. QED
    BY <1>1, <2>1
<1>5. ASSUME NEW r \in Request, Commit(r) PROVE LedgerInv'
  <2>1. tx'.req = None /\ balance' = tx.balance /\ tx.req # None
    BY <1>5, InputAssumption DEF Commit, NoTx, InTx
  <2>2. ASSUME NEW c \in Cell PROVE balance'[c].qty = JournalMoved(c)'
    <3>1. JournalMoved(c)' = JournalMoved(c) + MovedIn(tx.lines, c)
      BY <1>5, JournalMovedGrows
    <3>2. balance[c].qty = JournalMoved(c)
      BY DEF LedgerExplainsBalance, JournalMoved
    <3>. QED
      BY <2>1, <3>1, <3>2
  <2>3. LedgerExplainsBalance'
    BY <2>2 DEF LedgerExplainsBalance, JournalMoved
  <2>. QED
    BY <2>1, <2>3
<1>6. ASSUME tx' = NoTx, UNCHANGED <<balance, journal>> PROVE LedgerInv'
  <2>1. tx'.req = None
    BY <1>6 DEF NoTx
  <2>. QED
    BY <1>1, <1>6, <2>1
<1>7. ASSUME UNCHANGED <<tx, balance, journal>> PROVE LedgerInv'
  BY <1>1, <1>7
<1>. QED
  BY <1>2, <1>3, <1>4, <1>5, <1>6, <1>7, StepKinds

LEMMA LedgerInit == Init => LedgerInv
<1>. SUFFICES ASSUME Init PROVE LedgerInv
  OBVIOUS
<1>1. tx.req = None /\ \A c \in Cell : balance[c].qty = 0
  BY DEF Init, NoTx, EmptyRow
<1>2. \A c : Total([t \in 1..Len(journal) |-> MovedIn(journal[t].lines, c)]) = 0
  BY TotalEmpty DEF Init
<1>. QED
  BY <1>1, <1>2 DEF LedgerInv, LedgerExplainsBalance

\* The balance of every cell is what the committed ledger lines moved in it.
THEOREM LedgerExplainsBalances == Spec => []LedgerExplainsBalance
<1>1. Init => LedgerInv
  BY LedgerInit
<1>2. LedgerInv => LedgerExplainsBalance
  BY DEF LedgerInv
<1>. QED
  BY <1>1, <1>2, TypeInit, TypeStep, LedgerStep, PTL DEF Spec

(***************************************************************************)
(* The allocations explain the batches.                                    *)
(***************************************************************************)

\* One more allocation takes from its batch and gives to its line.
LEMMA TakenIsInt ==
    ASSUME NEW allocs \in Seq(AllocationRow), NEW b, NEW n
    PROVE  TakenFrom(allocs, b) \in Int /\ GivenTo(allocs, n) \in Int
<1>. DEFINE m == Len(allocs)
            f == [i \in 1..m |-> IF allocs[i].batch = b THEN allocs[i].qty ELSE 0]
            g == [i \in 1..m |-> IF allocs[i].line = n THEN allocs[i].qty ELSE 0]
<1>1. m \in Nat /\ \A i \in 1..m : allocs[i] \in AllocationRow
  OBVIOUS
<1>2. \A i \in 1..m : allocs[i].qty \in Int
  BY <1>1 DEF AllocationRow
<1>3. TakenFrom(allocs, b) = Total(f) /\ GivenTo(allocs, n) = Total(g)
  BY DEF TakenFrom, GivenTo
<1>4. IsFiniteSet(1..m)
  BY <1>1, FS_Interval
<1>. HIDE DEF m
<1>5. f \in [1..m -> Int]
  BY <1>2
<1>6. g \in [1..m -> Int]
  BY <1>2
<1>. HIDE DEF f, g
<1>. QED
  BY <1>3, <1>4, <1>5, <1>6, TotalInt

LEMMA TakenByOneMore ==
    ASSUME NEW allocs \in Seq(AllocationRow), NEW a \in AllocationRow, NEW b
    PROVE  TakenFrom(Append(allocs, a), b)
             = TakenFrom(allocs, b) + (IF a.batch = b THEN a.qty ELSE 0)
<1>. DEFINE m == Len(allocs)
            more == Append(allocs, a)
            f == [i \in 1..m |-> IF allocs[i].batch = b THEN allocs[i].qty ELSE 0]
            g == [i \in 1..(m + 1) |-> IF more[i].batch = b THEN more[i].qty ELSE 0]
<1>1. /\ m \in Nat /\ Len(more) = m + 1 /\ more[m + 1] = a
      /\ \A i \in 1..m : more[i] = allocs[i] /\ allocs[i] \in AllocationRow
  OBVIOUS
<1>2. TakenFrom(allocs, b) = Total(f)
  BY DEF TakenFrom
<1>3. TakenFrom(more, b) = Total(g)
  BY <1>1 DEF TakenFrom
<1>4. \A i \in 1..m : allocs[i].qty \in Int
  BY <1>1 DEF AllocationRow
<1>5. f \in [1..m -> Int]
  BY <1>4
<1>6. \A i \in 1..(m + 1) : more[i].qty \in Int
  <2>1. a.qty \in Int
    BY DEF AllocationRow
  <2>. HIDE DEF more, m
  <2>. QED
    BY <1>1, <1>4, <2>1
<1>. HIDE DEF more, m
<1>7. g \in [1..(m + 1) -> Int]
  BY <1>6
<1>8. f = Restrict(g, 1..m)
  BY <1>1 DEF Restrict
<1>9. g[m + 1] = IF a.batch = b THEN a.qty ELSE 0
  BY <1>1
<1>. HIDE DEF f, g
<1>. QED
  BY <1>1, <1>2, <1>3, <1>5, <1>7, <1>8, <1>9, TotalAppended DEF more

LEMMA GivenByOneMore ==
    ASSUME NEW allocs \in Seq(AllocationRow), NEW a \in AllocationRow, NEW n
    PROVE  GivenTo(Append(allocs, a), n)
             = GivenTo(allocs, n) + (IF a.line = n THEN a.qty ELSE 0)
<1>. DEFINE m == Len(allocs)
            more == Append(allocs, a)
            f == [i \in 1..m |-> IF allocs[i].line = n THEN allocs[i].qty ELSE 0]
            g == [i \in 1..(m + 1) |-> IF more[i].line = n THEN more[i].qty ELSE 0]
<1>1. /\ m \in Nat /\ Len(more) = m + 1 /\ more[m + 1] = a
      /\ \A i \in 1..m : more[i] = allocs[i] /\ allocs[i] \in AllocationRow
  OBVIOUS
<1>2. GivenTo(allocs, n) = Total(f)
  BY DEF GivenTo
<1>3. GivenTo(more, n) = Total(g)
  BY <1>1 DEF GivenTo
<1>4. \A i \in 1..m : allocs[i].qty \in Int
  BY <1>1 DEF AllocationRow
<1>5. f \in [1..m -> Int]
  BY <1>4
<1>6. \A i \in 1..(m + 1) : more[i].qty \in Int
  <2>1. a.qty \in Int
    BY DEF AllocationRow
  <2>. HIDE DEF more, m
  <2>. QED
    BY <1>1, <1>4, <2>1
<1>. HIDE DEF more, m
<1>7. g \in [1..(m + 1) -> Int]
  BY <1>6
<1>8. f = Restrict(g, 1..m)
  BY <1>1 DEF Restrict
<1>9. g[m + 1] = IF a.line = n THEN a.qty ELSE 0
  BY <1>1
<1>. HIDE DEF f, g
<1>. QED
  BY <1>1, <1>2, <1>3, <1>5, <1>7, <1>8, <1>9, TotalAppended DEF more

\* No allocation takes or gives anything, and a line none of them names gets nothing.
LEMMA NothingTaken == \A b : TakenFrom(<< >>, b) = 0
BY TotalEmpty DEF TakenFrom

LEMMA NothingGiven ==
    ASSUME NEW allocs \in Seq(AllocationRow), NEW n,
           \A i \in 1..Len(allocs) : allocs[i].line # n
    PROVE  GivenTo(allocs, n) = 0
<1>. DEFINE m == Len(allocs)
            g == [i \in 1..m |-> IF allocs[i].line = n THEN allocs[i].qty ELSE 0]
<1>1. m \in Nat /\ GivenTo(allocs, n) = Total(g)
  BY DEF GivenTo
<1>2. IsFiniteSet(1..m)
  BY <1>1, FS_Interval
<1>3. g \in [1..m -> Int] /\ \A i \in 1..m : g[i] = 0
  OBVIOUS
<1>. HIDE DEF m, g
<1>. QED
  BY <1>1, <1>2, <1>3, TotalZero

\* What the journal takes from a batch, and what a commit adds to it.
JournalTaken(b) == Total([t \in 1..Len(journal) |-> TakenFrom(journal[t].allocs, b)])

LEMMA JournalTakenGrows ==
    ASSUME TypeInv, NEW r \in Request, Commit(r), NEW b
    PROVE  /\ JournalTaken(b) \in Int
           /\ JournalTaken(b)' = JournalTaken(b) + TakenFrom(tx.allocs, b)
<1>. DEFINE n == Len(journal)
            f == [t \in 1..n |-> TakenFrom(journal[t].allocs, b)]
            g == [t \in 1..(n + 1) |-> TakenFrom(journal'[t].allocs, b)]
<1>1. /\ n \in Nat /\ Len(journal') = n + 1
      /\ \A t \in 1..n : journal'[t] = journal[t]
      /\ journal'[n + 1].allocs = tx.allocs
  BY Committed
<1>2. \A t \in 1..n : TakenFrom(journal[t].allocs, b) \in Int
  BY LinesOfPostings, TakenIsInt
<1>3. TakenFrom(tx.allocs, b) \in Int
  BY TakenIsInt DEF TypeInv, TypeOK, Transaction
<1>4. JournalTaken(b) = Total(f) /\ JournalTaken(b)' = Total(g)
  BY <1>1 DEF JournalTaken
<1>. HIDE DEF n
<1>5. f \in [1..n -> Int]
  BY <1>2
<1>6. g \in [1..(n + 1) -> Int]
  BY <1>1, <1>2, <1>3
<1>7. f = Restrict(g, 1..n) /\ g[n + 1] = TakenFrom(tx.allocs, b)
  BY <1>1 DEF Restrict
<1>. HIDE DEF f, g
<1>. QED
  BY <1>1, <1>4, <1>5, <1>6, <1>7, TotalAppended

\* What the open transaction allocated is what its batches lost, and every line that
\* is traced is allocated, but for what the current line still needs.
BatchesTaken ==
    tx.req # None => \A b \in BatchNo :
        /\ tx.batch[b].received = batch[b].received
        /\ batch[b].remaining - tx.batch[b].remaining = TakenFrom(tx.allocs, b)

LinesGiven(d) ==
    /\ \A i \in 1..Len(tx.allocs) : tx.allocs[i].line \in 1..Len(tx.lines)
    /\ tx.need > 0 => Len(tx.lines) > 0
    /\ \A n \in 1..Len(tx.lines) : Allocates(Input[d].lines[n]) =>
         - tx.lines[n].qty = GivenTo(tx.allocs, n)
                             + (IF n = Len(tx.lines) THEN tx.need ELSE 0)

AllocInv ==
    /\ AllocationsExplainBatches
    /\ BatchesTaken
    /\ \A r \in Request : InTx(r) => LinesGiven(req[r].doc)

\* A new line is not allocated yet; the earlier ones stay as they are.
LEMMA LinePosted ==
    ASSUME TypeInv, BatchInv, NEW r \in Request, PostLine(r), LinesGiven(req[r].doc)
    PROVE  LinesGiven(req[r].doc)'
<1>. DEFINE d == req[r].doc
            m == Len(tx.lines)
<1>0. /\ tx.lines \in Seq(LineRow) /\ tx.allocs \in Seq(AllocationRow) /\ tx \in Transaction
      /\ tx.need \in Int
  BY DEF TypeInv, TypeOK, Transaction
<1>1. PICK cost \in Int :
        tx'.lines = Append(tx.lines, [cell |-> NextLine.cell,
                                      qty |-> NextLine.qty, cost |-> cost])
  BY <1>0, LineAtHand DEF PostLine, Transaction
<1>2. /\ tx'.allocs = tx.allocs /\ tx.need = 0 /\ req' = req
      /\ tx'.need = IF Allocates(NextLine) THEN - NextLine.qty ELSE 0
  BY <1>0 DEF PostLine, LinesLeft, Transaction
<1>3. NextLine = Input[d].lines[m + 1] /\ NextLine \in LineInput
  BY LineAtHand
<1>. DEFINE line == [cell |-> NextLine.cell, qty |-> NextLine.qty, cost |-> cost]
<1>4. line \in LineRow /\ line.qty = NextLine.qty
  BY <1>3 DEF LineInput, LineRow
<1>. HIDE DEF line
<1>5. /\ m \in Nat /\ Len(tx'.lines) = m + 1 /\ tx'.lines[m + 1].qty = NextLine.qty
      /\ \A n \in 1..m : tx'.lines[n] = tx.lines[n]
  BY <1>0, <1>1, <1>4 DEF line
<1>6. \A i \in 1..Len(tx.allocs) : tx.allocs[i].line \in 1..m
  BY DEF LinesGiven
<1>7. NextLine.qty \in Int
  BY <1>3 DEF LineInput
<1>8. \A n \in 1..m : Allocates(Input[d].lines[n]) =>
                        - tx.lines[n].qty = GivenTo(tx.allocs, n) + 0
  BY <1>2 DEF LinesGiven
<1>9. \A n \in 1..m : GivenTo(tx.allocs, n) \in Int
  BY <1>0, TakenIsInt
<1>. HIDE DEF m, d
<1>10. \A i \in 1..Len(tx.allocs) : tx.allocs[i].line # m + 1
  BY <1>5, <1>6
<1>11. GivenTo(tx.allocs, m + 1) = 0
  BY <1>0, <1>10, NothingGiven
<1>12. ASSUME NEW n \in 1..(m + 1), Allocates(Input[d].lines[n])
       PROVE  - tx'.lines[n].qty = GivenTo(tx.allocs, n)
                                   + (IF n = m + 1 THEN tx'.need ELSE 0)
  <2>1. CASE n = m + 1
    <3>1. Allocates(NextLine)
      BY <1>3, <1>12, <2>1
    <3>2. tx'.need = - NextLine.qty
      BY <1>2, <3>1
    <3>3. GivenTo(tx.allocs, n) = 0 /\ tx'.lines[n].qty = NextLine.qty
      BY <1>5, <1>11, <2>1
    <3>. QED
      BY <1>7, <2>1, <3>2, <3>3
  <2>2. CASE n # m + 1
    <3>1. n \in 1..m
      BY <1>5, <2>2
    <3>. QED
      BY <1>5, <1>8, <1>12, <2>2, <3>1
  <2>. QED
    BY <2>1, <2>2
<1>13. 1..m \subseteq 1..(m + 1) /\ m + 1 > 0
  BY <1>5
<1>. QED
  BY <1>2, <1>5, <1>6, <1>12, <1>13 DEF LinesGiven, d

\* One batch gives what it can to the current line.
LEMMA BatchAllocated ==
    ASSUME TypeInv, BatchInv, NEW r \in Request, AllocateBatch(r)
    PROVE  \E a \in AllocationRow :
             /\ a.batch \in BatchNo /\ a.line = Len(tx.lines)
             /\ tx'.allocs = Append(tx.allocs, a)
             /\ tx'.need = tx.need - a.qty
             /\ tx'.batch = [tx.batch EXCEPT ![a.batch].remaining = @ - a.qty]
             /\ tx'.lines = tx.lines /\ tx'.req = tx.req /\ tx.need > 0
<1>1. PICK b \in Oldest :
        LET taken == Smaller(tx.batch[b].remaining, tx.need)
        IN tx' = [tx EXCEPT
             !.batch[b].remaining = @ - taken,
             !.need = @ - taken,
             !.allocs = Append(@, [line |-> Len(tx.lines), batch |-> b,
                                   qty |-> taken])]
  BY DEF AllocateBatch
<1> DEFINE taken == Smaller(tx.batch[b].remaining, tx.need)
           a == [line |-> Len(tx.lines), batch |-> b, qty |-> taken]
<1>2. b \in BatchNo /\ tx.need > 0
  BY DEF Oldest, Candidates, AllocateBatch
<1>3. tx \in Transaction /\ tx.batch[b] \in BatchRow /\ tx.need \in Int
      /\ Len(tx.lines) \in Nat
  BY <1>2 DEF TypeInv, TypeOK, Transaction
<1>4. taken \in Int
  BY <1>3 DEF Smaller, BatchRow
<1>5. tx' = [tx EXCEPT !.batch[b].remaining = @ - taken, !.need = @ - taken,
                       !.allocs = Append(@, a)]
  BY <1>1
<1>. HIDE DEF taken
<1>6. a \in AllocationRow /\ a.batch = b /\ a.line = Len(tx.lines) /\ a.qty = taken
  BY <1>2, <1>3, <1>4 DEF AllocationRow
<1>. HIDE DEF a
<1>7. /\ tx'.batch = [tx.batch EXCEPT ![b].remaining = @ - taken]
      /\ tx'.need = tx.need - taken /\ tx'.allocs = Append(tx.allocs, a)
      /\ tx'.lines = tx.lines /\ tx'.req = tx.req
  BY <1>3, <1>5 DEF Transaction
<1>. QED
  BY <1>2, <1>6, <1>7

LEMMA LineAllocated ==
    ASSUME TypeInv, BatchInv, NEW r \in Request, AllocateBatch(r),
           LinesGiven(req[r].doc), BatchesTaken
    PROVE  LinesGiven(req[r].doc)' /\ BatchesTaken'
<1>0. /\ tx.lines \in Seq(LineRow) /\ tx.allocs \in Seq(AllocationRow)
      /\ tx.need \in Int /\ tx.batch \in [BatchNo -> BatchRow]
      /\ batch \in [BatchNo -> BatchRow]
  BY DEF TypeInv, TypeOK, Transaction
<1>. DEFINE d == req[r].doc
            m == Len(tx.lines)
<1>1. PICK a \in AllocationRow :
        /\ a.batch \in BatchNo /\ a.line = m
        /\ tx'.allocs = Append(tx.allocs, a)
        /\ tx'.need = tx.need - a.qty
        /\ tx'.batch = [tx.batch EXCEPT ![a.batch].remaining = @ - a.qty]
        /\ tx'.lines = tx.lines /\ tx'.req = tx.req /\ tx.need > 0
  BY BatchAllocated
<1>2. UNCHANGED <<req, batch>>
  BY DEF AllocateBatch, stored
<1>3. a.qty \in Int /\ m \in Nat /\ m > 0
  BY <1>0, <1>1 DEF LinesGiven, AllocationRow
<1>4. \A i \in 1..Len(tx'.allocs) : tx'.allocs[i].line \in 1..m
  <2>1. \A i \in 1..Len(tx.allocs) : tx.allocs[i].line \in 1..m
    BY DEF LinesGiven
  <2>2. m \in 1..m
    BY <1>3
  <2>. HIDE DEF m
  <2>3. ASSUME NEW i \in 1..Len(tx'.allocs)
        PROVE  \/ tx'.allocs[i] = a
               \/ i \in 1..Len(tx.allocs) /\ tx'.allocs[i] = tx.allocs[i]
    BY <1>0, <1>1
  <2>. QED
    BY <1>1, <2>1, <2>2, <2>3
<1>5. \A n \in 1..m : tx.lines[n].qty \in Int
  <2>1. \A n \in 1..m : tx.lines[n] \in LineRow
    BY <1>0
  <2>. QED
    BY <2>1 DEF LineRow
<1>6. \A n \in 1..m : Allocates(Input[d].lines[n]) =>
        - tx.lines[n].qty = GivenTo(tx.allocs, n) + (IF n = m THEN tx.need ELSE 0)
  BY DEF LinesGiven
<1>7. ASSUME NEW n
      PROVE  /\ GivenTo(tx.allocs, n) \in Int
             /\ GivenTo(tx'.allocs, n)
                  = GivenTo(tx.allocs, n) + (IF a.line = n THEN a.qty ELSE 0)
  <2>1. GivenTo(tx.allocs, n) \in Int
    BY <1>0, TakenIsInt
  <2>2. GivenTo(Append(tx.allocs, a), n)
          = GivenTo(tx.allocs, n) + (IF a.line = n THEN a.qty ELSE 0)
    BY <1>0, GivenByOneMore
  <2>. QED
    BY <1>1, <2>1, <2>2
<1>8. ASSUME NEW b
      PROVE  /\ TakenFrom(tx.allocs, b) \in Int
             /\ TakenFrom(tx'.allocs, b)
                  = TakenFrom(tx.allocs, b) + (IF a.batch = b THEN a.qty ELSE 0)
  <2>1. TakenFrom(tx.allocs, b) \in Int
    BY <1>0, TakenIsInt
  <2>2. TakenFrom(Append(tx.allocs, a), b)
          = TakenFrom(tx.allocs, b) + (IF a.batch = b THEN a.qty ELSE 0)
    BY <1>0, TakenByOneMore
  <2>. QED
    BY <1>1, <2>1, <2>2
<1>9. BatchesTaken'
  <2>. SUFFICES ASSUME tx.req # None, NEW b \in BatchNo
                PROVE  /\ tx'.batch[b].received = batch[b].received
                       /\ batch[b].remaining - tx'.batch[b].remaining
                            = TakenFrom(tx'.allocs, b)
    BY <1>1, <1>2 DEF BatchesTaken
  <2>1. /\ tx.batch[b].received = batch[b].received
        /\ batch[b].remaining - tx.batch[b].remaining = TakenFrom(tx.allocs, b)
    BY DEF BatchesTaken
  <2>2. tx.batch[b] \in BatchRow /\ tx.batch[b].remaining \in Int
        /\ batch[b].remaining \in Int
    BY <1>0 DEF BatchRow
  <2>3. /\ tx'.batch[b].received = tx.batch[b].received
        /\ tx'.batch[b].remaining
             = tx.batch[b].remaining - (IF a.batch = b THEN a.qty ELSE 0)
    <3>1. CASE a.batch = b
      BY <1>0, <1>1, <2>2, <3>1 DEF BatchRow
    <3>2. CASE a.batch # b
      BY <1>0, <1>1, <2>2, <3>2
    <3>. QED
      BY <3>1, <3>2
  <2>. QED
    BY <1>3, <1>8, <2>1, <2>2, <2>3
<1>10. ASSUME NEW n \in 1..m, Allocates(Input[d].lines[n])
       PROVE  - tx.lines[n].qty = GivenTo(tx'.allocs, n)
                                  + (IF n = m THEN tx'.need ELSE 0)
  <2>1. - tx.lines[n].qty = GivenTo(tx.allocs, n) + (IF n = m THEN tx.need ELSE 0)
    BY <1>6, <1>10
  <2>. HIDE DEF m
  <2>. QED
    BY <1>0, <1>1, <1>3, <1>7, <2>1
<1>. QED
  BY <1>1, <1>2, <1>3, <1>4, <1>9, <1>10 DEF LinesGiven

\* A batch row after the document's own batches entered: as the transaction left it,
\* or new, and then its number was free.
LEMMA BatchEntered ==
    ASSUME TypeInv, NEW r \in Request, Commit(r), NEW b \in BatchNo
    PROVE  \/ batch'[b] = tx.batch[b]
           \/ /\ tx.batch[b].received = 0
              /\ \E q \in Nat : batch'[b].received = q /\ batch'[b].remaining = q
<1>. DEFINE d == req[r].doc
            named == {i \in 1..Len(NewBatches(d)) : NewBatches(d)[i].no = b}
            j == CHOOSE i \in 1..Len(NewBatches(d)) : NewBatches(d)[i].no = b
<1>1. batch' = WithNewBatches(d) /\ BatchNosFree(d)
  BY DEF Commit
<1>2. CASE named = {}
  BY <1>1, <1>2 DEF WithNewBatches
<1>3. CASE named # {}
  <2>1. \E i \in 1..Len(NewBatches(d)) : NewBatches(d)[i].no = b
    BY <1>3
  <2>2. j \in 1..Len(NewBatches(d)) /\ NewBatches(d)[j].no = b
    BY <2>1
  <2>3. batch'[b] = [sku |-> NewBatches(d)[j].sku, received |-> NewBatches(d)[j].qty,
                     remaining |-> NewBatches(d)[j].qty, at |-> Input[d].at,
                     seq |-> Len(journal) + 1]
    BY <1>1, <2>1 DEF WithNewBatches
  <2>4. tx.batch[b].received = 0
    BY <1>1, <2>2 DEF BatchNosFree
  <2>5. d \in Doc
    BY DEF Commit, InTx, TypeInv, RequestsBound
  <2>6. NewBatches(d)[j] \in BatchInput
    <3>1. NewBatches(d) \in Seq(BatchInput)
      BY <2>5, InputLines DEF NewBatches
    <3>. HIDE DEF j
    <3>. QED
      BY <2>2, <3>1
  <2>. HIDE DEF j
  <2>7. NewBatches(d)[j].qty \in Nat
    BY <2>6 DEF BatchInput
  <2>. QED
    BY <2>3, <2>4, <2>7
<1>. QED
  BY <1>2, <1>3

\* Each step keeps the allocations and the batches together.
LEMMA AllocStep == TypeInv /\ BatchInv /\ AllocInv /\ [Next]_vars => AllocInv'
<1>. SUFFICES ASSUME TypeInv, BatchInv, AllocInv, [Next]_vars PROVE AllocInv'
  OBVIOUS
<1>0. /\ req \in [Request -> RequestRow] /\ tx \in Transaction
      /\ batch \in [BatchNo -> BatchRow] /\ tx.batch \in [BatchNo -> BatchRow]
      /\ tx.lines \in Seq(LineRow) /\ tx.allocs \in Seq(AllocationRow)
  BY DEF TypeInv, TypeOK, Transaction
<1>1. ASSUME UNCHANGED <<batch, journal>> PROVE AllocationsExplainBatches'
  BY <1>1 DEF AllocInv, AllocationsExplainBatches
<1>2. ASSUME NEW r \in Request, Begin(r) PROVE AllocInv'
  <2>1. /\ tx'.batch = batch /\ tx'.allocs = << >> /\ tx'.lines = << >> /\ tx'.need = 0
        /\ UNCHANGED <<batch, journal>>
    BY <1>2 DEF Begin, NoTx, stored
  <2>2. BatchesTaken'
    <3>1. \A b \in BatchNo : batch[b].remaining \in Int
      BY <1>0 DEF BatchRow
    <3>. QED
      BY <2>1, <3>1, NothingTaken DEF BatchesTaken
  <2>3. \A d : LinesGiven(d)'
    BY <2>1 DEF LinesGiven
  <2>. QED
    BY <1>1, <2>1, <2>2, <2>3 DEF AllocInv
<1>3. ASSUME NEW r \in Request, PostLine(r) PROVE AllocInv'
  <2>1. /\ tx'.batch = tx.batch /\ tx'.allocs = tx.allocs /\ tx'.req = tx.req
        /\ UNCHANGED <<batch, journal, req>>
    BY <1>0, <1>3 DEF PostLine, Transaction, stored
  <2>2. BatchesTaken'
    BY <2>1 DEF AllocInv, BatchesTaken
  <2>3. InTx(r) /\ \A q \in Request : InTx(q)' => q = r /\ req'[q].doc = req[r].doc
    BY <1>3, <2>1 DEF PostLine, InTx
  <2>4. LinesGiven(req[r].doc)'
    BY <1>3, <2>3, LinePosted DEF AllocInv
  <2>. QED
    BY <1>1, <2>1, <2>2, <2>3, <2>4 DEF AllocInv
<1>4. ASSUME NEW r \in Request, AllocateBatch(r) PROVE AllocInv'
  <2>1. tx'.req = tx.req /\ UNCHANGED <<batch, journal, req>>
    BY <1>0, <1>4 DEF AllocateBatch, Transaction, stored
  <2>2. InTx(r) /\ \A q \in Request : InTx(q)' => q = r /\ req'[q].doc = req[r].doc
    BY <1>4, <2>1 DEF AllocateBatch, InTx
  <2>3. LinesGiven(req[r].doc)' /\ BatchesTaken'
    BY <1>4, <2>2, LineAllocated DEF AllocInv
  <2>. QED
    BY <1>1, <2>1, <2>2, <2>3 DEF AllocInv
<1>5. ASSUME NEW r \in Request, Commit(r) PROVE AllocInv'
  <2>1. /\ tx'.req = None /\ tx.req # None /\ InTx(r) /\ tx.need = 0
    BY <1>5, InputAssumption DEF Commit, NoTx, InTx, LinesDone
  <2>2. BatchesTaken' /\ \A q \in Request : ~ InTx(q)'
    BY <2>1, InputAssumption DEF BatchesTaken, InTx
  <2>3. ASSUME NEW b \in BatchNo
        PROVE  batch'[b].received - batch'[b].remaining = JournalTaken(b)'
    <3>1. /\ JournalTaken(b)' = JournalTaken(b) + TakenFrom(tx.allocs, b)
          /\ JournalTaken(b) \in Int
      BY <1>5, JournalTakenGrows
    <3>2. batch[b].received - batch[b].remaining = JournalTaken(b)
      BY DEF AllocInv, AllocationsExplainBatches, JournalTaken
    <3>3. /\ tx.batch[b].received = batch[b].received
          /\ batch[b].remaining - tx.batch[b].remaining = TakenFrom(tx.allocs, b)
      BY <2>1 DEF AllocInv, BatchesTaken
    <3>4. /\ batch[b].received \in Int /\ batch[b].remaining \in Int
          /\ tx.batch[b].remaining \in Int /\ tx.batch[b].received \in Nat
      BY <1>0 DEF BatchRow
    <3>5. tx.batch[b].received - tx.batch[b].remaining = JournalTaken(b)'
      BY <3>1, <3>2, <3>3, <3>4
    <3>6. CASE batch'[b] = tx.batch[b]
      BY <3>5, <3>6
    <3>7. CASE /\ tx.batch[b].received = 0
               /\ \E q \in Nat : batch'[b].received = q /\ batch'[b].remaining = q
      <4>1. tx.batch[b].remaining = 0
        BY <3>4, <3>7 DEF BatchInv
      <4>2. JournalTaken(b)' = 0
        BY <3>5, <3>7, <4>1
      <4>. QED
        BY <3>7, <4>2
    <3>. QED
      BY <1>5, <3>6, <3>7, BatchEntered
  <2>. DEFINE m == Len(journal)
              d == req[r].doc
  <2>4. /\ m \in Nat /\ Len(journal') = m + 1
        /\ \A t \in 1..m : journal'[t] = journal[t]
        /\ journal'[m + 1].doc = d /\ journal'[m + 1].lines = tx.lines
        /\ journal'[m + 1].allocs = tx.allocs
    BY <1>5, Committed
  <2>5. \A n \in 1..Len(tx.lines) : Allocates(Input[d].lines[n]) =>
          - tx.lines[n].qty = GivenTo(tx.allocs, n)
    <3>1. \A n \in 1..Len(tx.lines) : GivenTo(tx.allocs, n) \in Int
      BY <1>0, TakenIsInt
    <3>2. \A n \in 1..Len(tx.lines) : Allocates(Input[d].lines[n]) =>
            - tx.lines[n].qty = GivenTo(tx.allocs, n)
                                + (IF n = Len(tx.lines) THEN tx.need ELSE 0)
      BY <2>1 DEF AllocInv, LinesGiven
    <3>. QED
      BY <2>1, <3>1, <3>2
  <2>6. \A t \in 1..m : \A n \in 1..Len(journal[t].lines) :
          Allocates(Input[journal[t].doc].lines[n]) =>
            - journal[t].lines[n].qty = GivenTo(journal[t].allocs, n)
    BY DEF AllocInv, AllocationsExplainBatches
  <2>. HIDE DEF m, d
  <2>7. ASSUME NEW t \in 1..Len(journal'), NEW n \in 1..Len(journal'[t].lines),
               Allocates(Input[journal'[t].doc].lines[n])
        PROVE  - journal'[t].lines[n].qty = GivenTo(journal'[t].allocs, n)
    <3>1. CASE t = m + 1
      BY <2>4, <2>5, <2>7, <3>1
    <3>2. CASE t # m + 1
      <4>1. t \in 1..m
        BY <2>4, <3>2
      <4>2. journal'[t] = journal[t]
        BY <2>4, <4>1
      <4>. QED
        BY <2>6, <2>7, <4>1, <4>2
    <3>. QED
      BY <3>1, <3>2
  <2>8. AllocationsExplainBatches'
    BY <2>3, <2>7 DEF AllocationsExplainBatches, JournalTaken
  <2>. QED
    BY <2>2, <2>8 DEF AllocInv
<1>6. ASSUME tx' = NoTx, UNCHANGED <<batch, journal>> PROVE AllocInv'
  <2>1. BatchesTaken' /\ \A q \in Request : ~ InTx(q)'
    BY <1>6, InputAssumption DEF BatchesTaken, InTx, NoTx
  <2>. QED
    BY <1>1, <1>6, <2>1 DEF AllocInv
<1>7. ASSUME UNCHANGED <<tx, batch, journal>>,
             \A q \in Request : req'[q].pc = "tx" => req'[q] = req[q]
      PROVE  AllocInv'
  <2>1. BatchesTaken'
    BY <1>7 DEF AllocInv, BatchesTaken
  <2>2. \A q \in Request : InTx(q)' => InTx(q) /\ req'[q] = req[q]
    BY <1>7 DEF InTx
  <2>3. ASSUME NEW q \in Request, InTx(q)' PROVE LinesGiven(req[q].doc)'
    <3>1. LinesGiven(req[q].doc) /\ req'[q] = req[q]
      BY <2>2, <2>3 DEF AllocInv
    <3>. QED
      BY <1>7, <3>1 DEF LinesGiven
  <2>. QED
    BY <1>1, <1>7, <2>1, <2>3 DEF AllocInv
<1>8. ASSUME NEW d \in Doc, CreateDocument(d) PROVE AllocInv'
  BY <1>7, <1>8 DEF CreateDocument
<1>9. ASSUME NEW r \in Request, Replay(r) PROVE AllocInv'
  <2>1. \A q \in Request : req'[q].pc = "tx" => req'[q] = req[q]
    BY <1>0, <1>9 DEF Replay, RequestRow
  <2>. QED
    BY <1>7, <1>9, <2>1 DEF Replay, stored
<1>. QED
  BY <1>2, <1>3, <1>4, <1>5, <1>6, <1>7, <1>8, <1>9, StepKinds, RequestKinds

\* What batches lost is what the committed postings took from them, and a posted line
\* that is traced is allocated in full.
THEOREM AllocationsExplain == Spec => []AllocationsExplainBatches
<1>1. Init => AllocInv
  <2>. SUFFICES ASSUME Init PROVE AllocInv
    OBVIOUS
  <2>1. /\ tx.req = None /\ Len(journal) = 0
        /\ \A b \in BatchNo : batch[b].received - batch[b].remaining = 0
    BY DEF Init, NoTx, NoBatch
  <2>2. \A b : Total([t \in 1..Len(journal) |-> TakenFrom(journal[t].allocs, b)]) = 0
    BY TotalEmpty DEF Init
  <2>3. AllocationsExplainBatches
    BY <2>1, <2>2 DEF AllocationsExplainBatches
  <2>. QED
    BY <2>1, <2>3, InputAssumption DEF AllocInv, BatchesTaken, InTx
<1>2. AllocInv => AllocationsExplainBatches
  BY DEF AllocInv
<1>. QED
  BY <1>1, <1>2, TypeInit, TypeStep, BatchInit, BatchStep, AllocStep, PTL DEF Spec

(***************************************************************************)
(* The kernel implements the abstract ledger.                              *)
(***************************************************************************)

\* An attempt that has posted every line moved what the document says.
LEMMA PostedMovements ==
    ASSUME TypeInv, LinesInv, NEW r \in Request, InTx(r), LinesDone(r), NEW c \in Cell
    PROVE  MovedIn(Input[req[r].doc].lines, c) = MovedIn(tx.lines, c)
<1>. DEFINE input == Input[req[r].doc].lines
            n == Len(tx.lines)
<1>1. /\ n = Len(input)
      /\ \A i \in 1..n : tx.lines[i].qty = input[i].qty /\ tx.lines[i].cell = input[i].cell
  BY DEF LinesInv, LinesDone
<1>2. MovedIn(input, c) = Total([i \in 1..n |-> IF input[i].cell = c THEN input[i].qty ELSE 0])
  BY <1>1 DEF MovedIn
<1>3. MovedIn(tx.lines, c)
        = Total([i \in 1..n |-> IF tx.lines[i].cell = c THEN tx.lines[i].qty ELSE 0])
  BY DEF MovedIn
<1>4. [i \in 1..n |-> IF tx.lines[i].cell = c THEN tx.lines[i].qty ELSE 0]
        = [i \in 1..n |-> IF input[i].cell = c THEN input[i].qty ELSE 0]
  <2>. HIDE DEF n, input
  <2>. QED
    BY <1>1
<1>. QED
  BY <1>2, <1>3, <1>4

\* The abstract state of the kernel.
OnHand == [c \in Cell |-> balance[c].qty]
PostedDocs == {d \in Doc : docStatus[d] = "POSTED"}
Moves(d) == [c \in Cell |-> MovedIn(Input[d].lines, c)]

\* A commit posts its document in the abstract ledger.
LEMMA CommitPosts ==
    ASSUME TypeInv, StockInv, LedgerInv, LinesInv, NEW r \in Request, Commit(r)
    PROVE  Abstract!Next
<1>. PICK d \in Doc : d = req[r].doc
  BY Committed
<1>1. /\ InTx(r) /\ LinesDone(r) /\ tx.req # None
      /\ docStatus[d] = "DRAFT" /\ docStatus' = [docStatus EXCEPT ![d] = "POSTED"]
      /\ balance' = tx.balance
  BY InputAssumption DEF Commit, Finalizable, InTx
<1>2. docStatus \in [Doc -> {"ABSENT", "DRAFT", "POSTED"}]
  BY DEF TypeInv, TypeOK
<1>3. d \notin PostedDocs /\ PostedDocs' = PostedDocs \cup {d}
  BY <1>1, <1>2 DEF PostedDocs
<1>4. ASSUME NEW c \in Cell
      PROVE  /\ balance'[c].qty = balance[c].qty + Moves(d)[c]
             /\ balance'[c].qty >= 0
  BY <1>1, PostedMovements DEF LedgerInv, StockInv, Moves
<1>5. /\ OnHand' = [c \in Cell |-> OnHand[c] + Moves(d)[c]]
      /\ \A c \in Cell : OnHand'[c] >= 0
  BY <1>4 DEF OnHand
<1>6. [e \in Doc |-> [c \in Cell |-> MovedIn(Input[e].lines, c)]][d] = Moves(d)
  BY <1>1 DEF Moves
<1>7. Abstract!Post(d)
  BY <1>3, <1>5, <1>6 DEF Abstract!Post, OnHand, PostedDocs
<1>. QED
  BY <1>7 DEF Abstract!Next

\* Every behaviour of the kernel is one of the abstract ledger: each commit posts one
\* document, wholly and once, and every other step changes nothing the ledger shows.
THEOREM KernelImplementsLedger == Spec => ImplementsStockLedger
<1>1. Init => Abstract!Init
  BY DEF Init, EmptyRow, Abstract!Init
<1>2. TypeInv /\ StockInv /\ LedgerInv /\ LinesInv /\ [Next]_vars
        => [Abstract!Next]_<<OnHand, PostedDocs>>
  <2>. SUFFICES ASSUME TypeInv, StockInv, LedgerInv, LinesInv, [Next]_vars
                PROVE  Abstract!Next \/ UNCHANGED <<OnHand, PostedDocs>>
    OBVIOUS
  <2>1. ASSUME NEW r \in Request, Commit(r) PROVE Abstract!Next
    BY <2>1, CommitPosts
  <2>2. ASSUME UNCHANGED <<balance, docStatus>> PROVE UNCHANGED <<OnHand, PostedDocs>>
    BY <2>2 DEF OnHand, PostedDocs
  <2>3. ASSUME NEW r \in Request, Begin(r) \/ Replay(r) \/ PostLine(r) \/ AllocateBatch(r)
        PROVE  UNCHANGED <<balance, docStatus>>
    BY <2>3 DEF Begin, Replay, PostLine, AllocateBatch, stored
  <2>4. ASSUME NEW d \in Doc, CreateDocument(d)
        PROVE  UNCHANGED <<OnHand, PostedDocs>>
    <3>1. balance' = balance /\ docStatus[d] = "ABSENT"
          /\ docStatus' = [docStatus EXCEPT ![d] = "DRAFT"]
      BY <2>4 DEF CreateDocument
    <3>2. docStatus \in [Doc -> {"ABSENT", "DRAFT", "POSTED"}]
      BY DEF TypeInv, TypeOK
    <3>. QED
      BY <3>1, <3>2 DEF OnHand, PostedDocs
  <2>. QED
    BY <2>1, <2>2, <2>3, <2>4, StepKinds, RequestKinds
<1>3. Init => LedgerInv
  BY LedgerInit
<1>4. Init => StockInv /\ LinesInv
  BY StockInit, LinesInit
<1>. QED
  BY <1>1, <1>2, <1>3, <1>4, TypeInit, TypeStep, StockStep, LedgerStep, LinesStep, PTL
  DEF Spec, ImplementsStockLedger, Abstract!Spec, OnHand, PostedDocs

(***************************************************************************)
(* The value of a row tracks its quantity and average cost.                *)
(***************************************************************************)

\* Rounding to the nearest is off by at most half a unit.
LEMMA DivBounds ==
    ASSUME NEW x \in Int, NEW y \in Nat \ {0}
    PROVE  (x \div y) \in Int /\ y * (x \div y) <= x /\ x < y * (x \div y) + y
OBVIOUS

LEMMA RoundDivOff ==
    ASSUME NEW a \in Int, NEW b \in Nat \ {0}
    PROVE  2 * (b * RoundDiv(a, b) - a) \in (-b)..b
<1>. DEFINE q == (2 * a + b) \div (2 * b)
<1>1. 2 * a + b \in Int /\ 2 * b \in Nat \ {0}
  OBVIOUS
<1>2. q \in Int /\ (2 * b) * q <= 2 * a + b /\ 2 * a + b < (2 * b) * q + 2 * b
  BY <1>1, DivBounds
<1>3. RoundDiv(a, b) = q
  BY DEF RoundDiv
<1>. HIDE DEF q
<1>4. b * q \in Int /\ (2 * b) * q = 2 * (b * q)
  BY <1>2
<1>. DEFINE p == b * q
<1>5. p \in Int /\ 2 * p <= 2 * a + b /\ 2 * a + b < 2 * p + 2 * b
  BY <1>2, <1>4
<1>. HIDE DEF p
<1>6. 2 * (p - a) \in (-b)..b
  BY <1>5
<1>. QED
  BY <1>3, <1>6 DEF p

\* Twice the distance between what a row is worth and what its average says.
Gap(row) == 2 * (row.value * CostScale - row.qty * row.cost)

GapWithin(row) == Gap(row) \in (-(CostScale + row.qty))..(CostScale + row.qty)

\* Whatever a row with no negative stock was, a movement leaves it off by no more than the two roundings:
\* the value is rounded once, and so is an average that is divided anew.
LEMMA MovedGap ==
    ASSUME NEW row \in BalanceRow, NEW q \in Int, NEW cost \in Int,
           row.qty >= 0, ~ Insufficient(row, q)
    PROVE  GapWithin(Moved(row, q, cost))
<1>. DEFINE next  == row.qty + q
            exact == IF q > 0 THEN row.value * CostScale + q * cost
                              ELSE next * row.cost
            value == RoundDiv(exact, CostScale)
            average == IF next = 0 THEN 0
                       ELSE IF q > 0 THEN RoundDiv(exact, next) ELSE row.cost
<1>1. row.qty \in Int /\ row.cost \in Int /\ row.value \in Int /\ CostScale \in Nat \ {0}
  BY InputAssumption DEF BalanceRow
<1>2. next \in Nat
  BY <1>1 DEF Insufficient
<1>3. exact \in Int
  BY <1>1, <1>2
<1>4. value \in Int /\ 2 * (CostScale * value - exact) \in (-CostScale)..CostScale
  BY <1>1, <1>3, RoundDivOff, RoundDivType
<1>5. average \in Int /\ 2 * (next * average - exact) \in (-next)..next
  <2>1. CASE next = 0
    <3>1. ~ q > 0 /\ exact = 0 /\ average = 0
      BY <1>1, <2>1
    <3>. HIDE DEF exact, average
    <3>. QED
      BY <1>1, <1>2, <2>1, <3>1
  <2>2. CASE next # 0 /\ q > 0
    <3>1. average = RoundDiv(exact, next) /\ next \in Nat \ {0}
      BY <1>2, <2>2
    <3>. HIDE DEF exact, average, next
    <3>. QED
      BY <1>3, <3>1, RoundDivOff, RoundDivType
  <2>3. CASE next # 0 /\ ~ q > 0
    <3>1. average = row.cost /\ exact = next * row.cost
      BY <2>3
    <3>. HIDE DEF exact, average, next
    <3>. QED
      BY <1>1, <1>2, <3>1
  <2>. QED
    BY <2>1, <2>2, <2>3
<1>6. /\ Moved(row, q, cost).qty = next
      /\ Moved(row, q, cost).cost = average
      /\ Moved(row, q, cost).value = value
  BY DEF Moved
<1>. HIDE DEF next, exact, value, average
<1>7. value * CostScale = CostScale * value /\ CostScale * value \in Int
      /\ next * average \in Int
  BY <1>1, <1>2, <1>4, <1>5
<1>8. Gap(Moved(row, q, cost)) = 2 * (CostScale * value - next * average)
  BY <1>6, <1>7 DEF Gap
<1>. DEFINE v == CostScale * value
            a == next * average
<1>9. /\ v \in Int /\ a \in Int
      /\ 2 * (v - exact) \in (-CostScale)..CostScale
      /\ 2 * (a - exact) \in (-next)..next
  BY <1>4, <1>5, <1>7
<1>. HIDE DEF v, a
<1>10. 2 * (v - a) \in (-(CostScale + next))..(CostScale + next)
  BY <1>1, <1>2, <1>3, <1>9
<1>. QED
  BY <1>6, <1>8, <1>10 DEF GapWithin, v, a

CostInv == \A c \in Cell : GapWithin(balance[c]) /\ GapWithin(tx.balance[c])

LEMMA EmptyGap == GapWithin(EmptyRow)
BY InputAssumption DEF GapWithin, Gap, EmptyRow

\* Each step keeps every row, stored or private, within its gap.
LEMMA CostStep == TypeInv /\ StockInv /\ CostInv /\ [Next]_vars => CostInv'
<1>. SUFFICES ASSUME TypeInv, StockInv, CostInv, [Next]_vars PROVE CostInv'
  OBVIOUS
<1>1. \A c \in Cell : GapWithin(NoTx.balance[c])
  BY EmptyGap DEF NoTx
<1>2. ASSUME NEW r \in Request, Begin(r) PROVE CostInv'
  <2>1. tx'.balance = balance /\ balance' = balance
    BY <1>2 DEF Begin, NoTx, stored
  <2>. QED
    BY <2>1 DEF CostInv
<1>3. ASSUME NEW r \in Request, PostLine(r) PROVE CostInv'
  <2> DEFINE line == NextLine
             row  == tx.balance[line.cell]
             cost == LineCost(line, row, tx.outbound)
  <2>1. /\ line \in LineInput /\ row \in BalanceRow /\ cost \in Int /\ row.qty >= 0
        /\ tx.balance \in [Cell -> BalanceRow]
    BY <1>3, LineAtHand DEF TypeInv, TypeOK, Transaction, StockInv, LineInput
  <2>2. GapWithin(Moved(row, line.qty, cost))
    BY <1>3, <2>1, MovedGap DEF PostLine, LineInput
  <2>3. /\ tx'.balance = [tx.balance EXCEPT ![line.cell] = Moved(row, line.qty, cost)]
        /\ balance' = balance
    BY <1>3 DEF PostLine, TypeInv, TypeOK, Transaction, stored
  <2> HIDE DEF line, row, cost
  <2>4. ASSUME NEW c \in Cell PROVE GapWithin(tx'.balance[c])
    <3>1. CASE c = line.cell
      BY <2>1, <2>2, <2>3, <3>1
    <3>2. CASE c # line.cell
      BY <2>1, <2>3, <3>2 DEF CostInv
    <3>. QED
      BY <3>1, <3>2
  <2>. QED
    BY <2>3, <2>4 DEF CostInv
<1>4. ASSUME NEW r \in Request, AllocateBatch(r) PROVE CostInv'
  <2>1. tx'.balance = tx.balance /\ balance' = balance
    BY <1>4 DEF AllocateBatch, TypeInv, TypeOK, Transaction, stored
  <2>. QED
    BY <2>1 DEF CostInv
<1>5. ASSUME NEW r \in Request, Commit(r) PROVE CostInv'
  BY <1>1, <1>5 DEF Commit, CostInv
<1>6. ASSUME tx' = NoTx, balance' = balance PROVE CostInv'
  BY <1>1, <1>6 DEF CostInv
<1>7. ASSUME UNCHANGED <<tx, balance>> PROVE CostInv'
  BY <1>7 DEF CostInv
<1>. QED
  BY <1>2, <1>3, <1>4, <1>5, <1>6, <1>7, StepKinds

\* The stored value and quantity times the stored average never drift apart by more
\* than the rounding of the two columns, however many movements a row has seen.
THEOREM ValueNeverDrifts == Spec => []ValueTracksCost
<1>1. Init => CostInv
  BY EmptyGap DEF Init, CostInv, NoTx
<1>2. CostInv => ValueTracksCost
  BY DEF CostInv, ValueTracksCost, GapWithin, Gap
<1>. QED
  BY <1>1, <1>2, TypeInit, TypeStep, StockInit, StockStep, CostStep, PTL DEF Spec

(***************************************************************************)
(* The batches cover the available stock.                                  *)
(***************************************************************************)

\* The available stock of a sku in rows of balances, and what its batches hold.
AvailableIn(rows, s) == Total([l \in Location |-> rows[<<l, s, "AVAILABLE">>].qty])

HeldBy(rows, s) == Total([b \in BatchNo |-> IF rows[b].sku = s THEN rows[b].remaining ELSE 0])

LEMMA SumsOfStock ==
    ASSUME NEW rows \in [Cell -> BalanceRow], NEW held \in [BatchNo -> BatchRow], NEW s \in Sku
    PROVE  AvailableIn(rows, s) \in Int /\ HeldBy(held, s) \in Int
<1>. DEFINE f == [l \in Location |-> rows[<<l, s, "AVAILABLE">>].qty]
            g == [b \in BatchNo |-> IF held[b].sku = s THEN held[b].remaining ELSE 0]
<1>1. f \in [Location -> Int]
  <2>1. \A l \in Location : <<l, s, "AVAILABLE">> \in Cell
    BY InputAssumption DEF Cell
  <2>. QED
    BY <2>1 DEF BalanceRow
<1>2. g \in [BatchNo -> Int]
  BY DEF BatchRow
<1>3. IsFiniteSet(Location) /\ IsFiniteSet(BatchNo)
  BY BackedAssumption
<1>. HIDE DEF f, g
<1>4. Total(f) \in Int /\ Total(g) \in Int
  BY <1>1, <1>2, <1>3, TotalInt
<1>. QED
  BY <1>4 DEF AvailableIn, HeldBy, f, g

\* A movement counts where it moves available stock of the sku.
LEMMA AvailableMoves ==
    ASSUME NEW rows \in [Cell -> BalanceRow], NEW c \in Cell,
           NEW new \in [Cell -> BalanceRow], \A x \in Cell : x # c => new[x] = rows[x],
           NEW s \in Sku
    PROVE  AvailableIn(new, s)
             = AvailableIn(rows, s) + (IF c[2] = s /\ c[3] = "AVAILABLE"
                                       THEN new[c].qty - rows[c].qty ELSE 0)
<1>. DEFINE f == [l \in Location |-> rows[<<l, s, "AVAILABLE">>].qty]
            g == [l \in Location |-> new[<<l, s, "AVAILABLE">>].qty]
<1>1. \A l \in Location : <<l, s, "AVAILABLE">> \in Cell
  BY InputAssumption DEF Cell
<1>2. f \in [Location -> Int] /\ g \in [Location -> Int]
  BY <1>1 DEF BalanceRow
<1>3. c[1] \in Location /\ c = <<c[1], c[2], c[3]>>
  BY DEF Cell
<1>4. IsFiniteSet(Location)
  BY BackedAssumption
<1>5. Total(f) \in Int
  <2>. HIDE DEF f
  <2>. QED
    BY <1>2, <1>4, TotalInt
<1>6. CASE c[2] = s /\ c[3] = "AVAILABLE"
  <2>1. f[c[1]] = rows[c].qty /\ g[c[1]] = new[c].qty
    BY <1>3, <1>6
  <2>2. \A l \in Location \ {c[1]} : g[l] = f[l]
    BY <1>1, <1>3
  <2>. HIDE DEF f, g
  <2>3. Total(g) = Total(f) + g[c[1]] - f[c[1]]
    BY <1>2, <1>3, <1>4, <2>2, TotalChange
  <2>4. Total(g) = Total(f) + (new[c].qty - rows[c].qty)
    BY <1>5, <2>1, <2>3 DEF BalanceRow
  <2>. QED
    BY <1>6, <2>4 DEF AvailableIn, f, g
<1>7. CASE ~ (c[2] = s /\ c[3] = "AVAILABLE")
  <2>1. \A l \in Location : <<l, s, "AVAILABLE">> # c
    BY <1>7
  <2>2. \A l \in Location : new[<<l, s, "AVAILABLE">>] = rows[<<l, s, "AVAILABLE">>]
    BY <1>1, <2>1
  <2>3. f = g
    BY <2>2
  <2>. HIDE DEF f, g
  <2>4. Total(g) = Total(f) + 0
    BY <1>5, <2>3
  <2>. QED
    BY <1>7, <2>4 DEF AvailableIn, f, g
<1>. QED
  BY <1>6, <1>7

\* A batch that gives has so much less.
LEMMA BatchHoldsLess ==
    ASSUME NEW held \in [BatchNo -> BatchRow], NEW b \in BatchNo, NEW q \in Int,
           NEW new \in [BatchNo -> BatchRow], \A x \in BatchNo : x # b => new[x] = held[x],
           new[b].sku = held[b].sku, new[b].remaining = held[b].remaining - q, NEW s \in Sku
    PROVE  HeldBy(new, s) = HeldBy(held, s) - (IF held[b].sku = s THEN q ELSE 0)
<1>. DEFINE f == [x \in BatchNo |-> IF held[x].sku = s THEN held[x].remaining ELSE 0]
            g == [x \in BatchNo |-> IF new[x].sku = s THEN new[x].remaining ELSE 0]
<1>3. f \in [BatchNo -> Int] /\ g \in [BatchNo -> Int]
  BY DEF BatchRow
<1>4. /\ g[b] = f[b] - (IF held[b].sku = s THEN q ELSE 0)
      /\ \A x \in BatchNo \ {b} : g[x] = f[x]
  BY DEF BatchRow
<1>5. IsFiniteSet(BatchNo)
  BY BackedAssumption
<1>. HIDE DEF f, g
<1>6. Total(g) = Total(f) + g[b] - f[b]
  BY <1>3, <1>4, <1>5, TotalChange
<1>7. Total(f) \in Int /\ f[b] \in Int
  BY <1>3, <1>5, TotalInt
<1>8. Total(g) = Total(f) - (IF held[b].sku = s THEN q ELSE 0)
  BY <1>4, <1>6, <1>7
<1>. QED
  BY <1>8 DEF HeldBy, f, g

\* One line more of a document.
LEMMA UntracedByOneMore ==
    ASSUME NEW d \in Doc, NEW s \in Sku, NEW n \in Nat, n + 1 <= Len(Input[d].lines)
    PROVE  /\ UntracedMoves(d, s, n) \in Int
           /\ UntracedMoves(d, s, n + 1)
                = UntracedMoves(d, s, n)
                  + (IF Untraced(Input[d].lines[n + 1], s) THEN Input[d].lines[n + 1].qty ELSE 0)
<1>. DEFINE moved(i) == IF Untraced(Input[d].lines[i], s) THEN Input[d].lines[i].qty ELSE 0
            f == [i \in 1..n |-> moved(i)]
            g == [i \in 1..(n + 1) |-> moved(i)]
<1>1. \A i \in 1..(n + 1) : moved(i) \in Int
  <2>1. \A i \in 1..(n + 1) : Input[d].lines[i] \in LineInput
    BY InputLines
  <2>. QED
    BY <2>1 DEF LineInput
<1>. HIDE DEF moved
<1>2. f \in [1..n -> Int] /\ g \in [1..(n + 1) -> Int] /\ g[n + 1] = moved(n + 1)
  BY <1>1
<1>3. f = Restrict(g, 1..n)
  BY DEF Restrict
<1>. HIDE DEF f, g
<1>4. Total(g) = Total(f) + g[n + 1] /\ Total(f) \in Int
  BY <1>2, <1>3, TotalAppended
<1>. QED
  BY <1>2, <1>4 DEF UntracedMoves, f, g, moved

LEMMA SumsOfInput ==
    ASSUME NEW d \in Doc, NEW s \in Sku
    PROVE  UntracedMoves(d, s, Len(Input[d].lines)) \in Int /\ Opened(d, s) \in Int
<1>. DEFINE f == [i \in 1..Len(Input[d].lines) |->
                    IF Untraced(Input[d].lines[i], s) THEN Input[d].lines[i].qty ELSE 0]
            g == [i \in 1..Len(Input[d].batches) |->
                    IF Input[d].batches[i].sku = s THEN Input[d].batches[i].qty ELSE 0]
<1>1. f \in [1..Len(Input[d].lines) -> Int]
  BY InputLines DEF LineInput
<1>2. g \in [1..Len(Input[d].batches) -> Int]
  <2>1. \A i \in 1..Len(Input[d].batches) : Input[d].batches[i] \in BatchInput
    BY InputLines
  <2>. QED
    BY <2>1 DEF BatchInput
<1>3. IsFiniteSet(1..Len(Input[d].lines)) /\ IsFiniteSet(1..Len(Input[d].batches))
  BY InputLines, FS_Interval
<1>. HIDE DEF f, g
<1>4. Total(f) \in Int /\ Total(g) \in Int
  BY <1>1, <1>2, <1>3, TotalInt
<1>. QED
  BY <1>4 DEF UntracedMoves, Opened, f, g

\* The batches of a document hold what they receive: their numbers were free.
LEMMA BatchesHoldMore ==
    ASSUME TypeInv, BatchInv, NEW r \in Request, Commit(r), NEW s \in Sku
    PROVE  HeldBy(batch', s) = HeldBy(tx.batch, s) + Opened(req[r].doc, s)
<1>. DEFINE d == req[r].doc
            news == Input[d].batches
            N == 1..Len(news)
            name == [i \in N |-> news[i].no]
            opened == [i \in N |-> IF news[i].sku = s THEN news[i].qty ELSE 0]
            which(b) == CHOOSE i \in N : name[i] = b
            f == [b \in BatchNo |-> IF tx.batch[b].sku = s THEN tx.batch[b].remaining ELSE 0]
            g == [b \in BatchNo |-> IF \E i \in N : name[i] = b THEN opened[which(b)] ELSE 0]
            h == [b \in BatchNo |-> IF batch'[b].sku = s THEN batch'[b].remaining ELSE 0]
<1>1. d \in Doc /\ tx.batch \in [BatchNo -> BatchRow]
  BY DEF Commit, InTx, TypeInv, TypeOK, RequestsBound, Transaction
<1>2. IsFiniteSet(BatchNo) /\ IsFiniteSet(N)
  BY BackedAssumption, FS_Interval, <1>1, InputLines
<1>3. \A i \in N : news[i] \in BatchInput
  BY <1>1, InputLines
<1>4. name \in [N -> BatchNo] /\ opened \in [N -> Int]
  BY <1>3 DEF BatchInput
<1>5. \A i \in N : \A j \in N : name[i] = name[j] => i = j
  BY DEF Commit, BatchNosFree, Distinct, NewBatches
<1>6. \A i \in N : which(name[i]) = i /\ g[name[i]] = opened[i]
  <2>1. ASSUME NEW i \in N PROVE which(name[i]) = i
    BY <1>5
  <2>2. \A i \in N : name[i] \in BatchNo
    BY <1>4
  <2>. HIDE DEF which, name, opened
  <2>. QED
    BY <2>1, <2>2
<1>7. \A b \in BatchNo : (\A i \in N : name[i] # b) => g[b] = 0
  OBVIOUS
<1>8. f \in [BatchNo -> Int]
  BY <1>1 DEF BatchRow
<1>9. g \in [BatchNo -> Int]
  <2>1. \A b \in BatchNo : (\E i \in N : name[i] = b) => which(b) \in N
    OBVIOUS
  <2>. HIDE DEF which, name, opened
  <2>. QED
    BY <1>4, <2>1
<1>10. ASSUME NEW b \in BatchNo PROVE h[b] = f[b] + g[b]
  <2>1. batch' = WithNewBatches(d) /\ BatchNosFree(d)
    BY DEF Commit
  <2>2. CASE \E i \in N : name[i] = b
    <3>1. PICK i \in N : name[i] = b
      BY <2>2
    <3>2. batch'[b] = [sku |-> news[i].sku, received |-> news[i].qty, remaining |-> news[i].qty,
                       at |-> Input[d].at, seq |-> Len(journal) + 1]
      <4>2. (CHOOSE j \in 1..Len(NewBatches(d)) : NewBatches(d)[j].no = b) = i
        BY <1>5, <3>1 DEF NewBatches
      <4>3. \E j \in 1..Len(NewBatches(d)) : NewBatches(d)[j].no = b
        BY <3>1 DEF NewBatches
      <4>. QED
        BY <2>1, <4>2, <4>3 DEF WithNewBatches, NewBatches
    <3>3. tx.batch[b].received = 0
      BY <2>1, <3>1 DEF BatchNosFree, NewBatches
    <3>4. f[b] = 0
      BY <1>1, <3>3 DEF BatchInv, BatchRow
    <3>5. g[b] = opened[i] /\ opened[i] \in Int
      BY <1>4, <1>6, <3>1
    <3>6. h[b] = opened[i]
      BY <3>2
    <3>. HIDE DEF f, g, h, opened
    <3>. QED
      BY <3>4, <3>5, <3>6
  <2>3. CASE ~ \E i \in N : name[i] = b
    <3>1. batch'[b] = tx.batch[b]
      BY <2>1, <2>3 DEF WithNewBatches, NewBatches
    <3>2. g[b] = 0 /\ h[b] = f[b]
      BY <2>3, <3>1
    <3>3. f[b] \in Int
      BY <1>8
    <3>. HIDE DEF f, g, h
    <3>. QED
      BY <3>2, <3>3
  <2>. QED
    BY <2>2, <2>3
<1>11. h \in [BatchNo -> Int]
  <2>1. \A b \in BatchNo : f[b] + g[b] \in Int
    <3>. HIDE DEF f, g
    <3>. QED
      BY <1>8, <1>9
  <2>2. \A b \in BatchNo : h[b] \in Int
    <3>. HIDE DEF f, g, h
    <3>. QED
      BY <1>10, <2>1
  <2>. QED
    BY <2>2
<1>. HIDE DEF f, g, h, name, opened, N
<1>12. Total(g) = Total(opened)
  BY <1>2, <1>4, <1>5, <1>6, <1>7, <1>9, TotalRenamed
<1>13. Total(h) = Total(f) + Total(g)
  BY <1>2, <1>8, <1>9, <1>10, <1>11, TotalPlus
<1>. QED
  BY <1>12, <1>13 DEF HeldBy, Opened, f, h, opened, N

\* What FIFO has still to take of a sku for the current line.
StillNeeded(s) == IF tx.need > 0 /\ CurrentInput.cell[2] = s THEN tx.need ELSE 0

\* So far an open transaction has taken from the batches what it took from available
\* stock, but for the untraced lines and what the current line still needs.
CoverInv ==
    /\ \A s \in Sku : AvailableIn(balance, s) <= HeldBy(batch, s)
    /\ \A r \in Request : InTx(r) => \A s \in Sku :
         HeldBy(tx.batch, s) - StillNeeded(s) - AvailableIn(tx.balance, s)
           = HeldBy(batch, s) - AvailableIn(balance, s)
             - UntracedMoves(req[r].doc, s, Len(tx.lines))

LEMMA CoverStep == TypeInv /\ BatchInv /\ LinesInv /\ CoverInv /\ [Next]_vars => CoverInv'
<1>. SUFFICES ASSUME TypeInv, BatchInv, LinesInv, CoverInv, [Next]_vars PROVE CoverInv'
  OBVIOUS
<1>0. /\ req \in [Request -> RequestRow] /\ tx \in Transaction
      /\ balance \in [Cell -> BalanceRow] /\ batch \in [BatchNo -> BatchRow]
      /\ tx.balance \in [Cell -> BalanceRow] /\ tx.batch \in [BatchNo -> BatchRow]
      /\ tx.lines \in Seq(LineRow) /\ tx.need \in Int
  BY DEF TypeInv, TypeOK, Transaction
<1>1. ASSUME UNCHANGED <<balance, batch>>
      PROVE  \A s \in Sku : AvailableIn(balance', s) <= HeldBy(batch', s)
  BY <1>1 DEF CoverInv
<1>2. ASSUME NEW r \in Request, Begin(r) PROVE CoverInv'
  <2>1. /\ tx'.batch = batch /\ tx'.balance = balance /\ tx'.lines = << >> /\ tx'.need = 0
        /\ UNCHANGED <<balance, batch>>
    BY <1>2 DEF Begin, NoTx, stored
  <2>2. \A s : StillNeeded(s)' = 0
    BY <2>1 DEF StillNeeded
  <2>3. \A d : \A s : UntracedMoves(d, s, Len(tx'.lines)) = 0
    BY <2>1, TotalEmpty DEF UntracedMoves
  <2>4. \A s \in Sku : AvailableIn(balance, s) \in Int /\ HeldBy(batch, s) \in Int
    BY <1>0, SumsOfStock
  <2>. QED
    BY <1>1, <2>1, <2>2, <2>3, <2>4 DEF CoverInv
<1>3. ASSUME NEW r \in Request, PostLine(r) PROVE CoverInv'
  <2>. DEFINE d == req[r].doc
              line == NextLine
              row  == tx.balance[line.cell]
              cost == LineCost(line, row, tx.outbound)
              n == Len(tx.lines)
  <2>1. /\ line \in LineInput /\ row \in BalanceRow /\ cost \in Int /\ tx.req = r /\ d \in Doc
        /\ n + 1 \in 1..Len(Input[d].lines) /\ line = Input[d].lines[n + 1] /\ n \in Nat
    BY <1>0, <1>3, LineAtHand
  <2>2. /\ Moved(row, line.qty, cost).qty = row.qty + line.qty
        /\ Moved(row, line.qty, cost) \in BalanceRow
    BY <1>3, <2>1, MovedRow DEF PostLine, LineInput
  <2>3. /\ tx'.balance = [tx.balance EXCEPT ![line.cell] = Moved(row, line.qty, cost)]
        /\ tx'.need = IF Allocates(line) THEN - line.qty ELSE 0
        /\ tx'.batch = tx.batch /\ tx'.req = tx.req /\ tx.need = 0
        /\ UNCHANGED <<balance, batch, req>>
    BY <1>0, <1>3 DEF PostLine, LinesLeft, Transaction, stored
  <2>4. Len(tx'.lines) = n + 1
    <3>1. PICK l : tx'.lines = Append(tx.lines, l)
      BY <1>0, <1>3 DEF PostLine, Transaction
    <3>. QED
      BY <1>0, <3>1
  <2>5. CurrentInput' = line /\ \A q \in Request : InTx(q)' => q = r
    BY <2>1, <2>3, <2>4 DEF CurrentInput, InTx
  <2>6. line.qty # 0 /\ line.qty \in Int /\ line.allocate \in BOOLEAN /\ line.cell \in Cell
    BY <2>1, InputAssumption DEF LineInput
  <2>7. InTx(r)
    BY <1>3 DEF PostLine
  <2>. HIDE DEF line, cost, row, n, d
  <2>8. ASSUME NEW s \in Sku
        PROVE  HeldBy(tx'.batch, s) - StillNeeded(s)' - AvailableIn(tx'.balance, s)
                 = HeldBy(batch, s) - AvailableIn(balance, s) - UntracedMoves(d, s, n + 1)
    <3>. DEFINE moved == IF line.cell[2] = s /\ line.cell[3] = "AVAILABLE"
                         THEN line.qty ELSE 0
                needed == IF Allocates(line) /\ line.cell[2] = s THEN - line.qty ELSE 0
                untraced == IF Untraced(line, s) THEN line.qty ELSE 0
    <3>1. AvailableIn(tx'.balance, s) = AvailableIn(tx.balance, s) + moved
      <4>1. row \in BalanceRow /\ row.qty \in Int /\ tx.balance[line.cell] = row
        BY <2>1 DEF BalanceRow, row
      <4>2. tx'.balance \in [Cell -> BalanceRow]
        BY <1>0, <2>2, <2>3
      <4>3. AvailableIn(tx'.balance, s)
              = AvailableIn(tx.balance, s)
                + (IF line.cell[2] = s /\ line.cell[3] = "AVAILABLE"
                   THEN tx'.balance[line.cell].qty - tx.balance[line.cell].qty ELSE 0)
        <5>1. \A x \in Cell : x # line.cell => tx'.balance[x] = tx.balance[x]
          BY <1>0, <2>3
        <5>. QED
          BY <1>0, <2>6, <4>2, <5>1, AvailableMoves
      <4>4. tx'.balance[line.cell].qty = row.qty + line.qty
        BY <1>0, <2>2, <2>3, <2>6
      <4>. QED
        BY <2>6, <4>1, <4>3, <4>4
    <3>2. StillNeeded(s)' = needed
      BY <2>3, <2>5, <2>6 DEF StillNeeded, Allocates
    <3>3. UntracedMoves(d, s, n + 1) = UntracedMoves(d, s, n) + untraced
          /\ UntracedMoves(d, s, n) \in Int
      BY <2>1, InputLines, UntracedByOneMore
    <3>4. moved = untraced - needed /\ moved \in Int /\ needed \in Int /\ untraced \in Int
      BY <2>6 DEF Untraced, Allocates
    <3>5. StillNeeded(s) = 0
      BY <2>3 DEF StillNeeded
    <3>6. HeldBy(tx.batch, s) - 0 - AvailableIn(tx.balance, s)
            = HeldBy(batch, s) - AvailableIn(balance, s) - UntracedMoves(d, s, n)
      BY <2>7, <3>5 DEF CoverInv, d, n
    <3>7. /\ HeldBy(tx.batch, s) \in Int /\ AvailableIn(tx.balance, s) \in Int
          /\ HeldBy(batch, s) \in Int /\ AvailableIn(balance, s) \in Int
      BY <1>0, SumsOfStock
    <3>. HIDE DEF moved, needed, untraced
    <3>. QED
      BY <2>3, <3>1, <3>2, <3>3, <3>4, <3>6, <3>7
  <2>. QED
    BY <1>1, <2>3, <2>4, <2>5, <2>8 DEF CoverInv, d
<1>4. ASSUME NEW r \in Request, AllocateBatch(r) PROVE CoverInv'
  <2>1. PICK b \in Oldest :
          LET taken == Smaller(tx.batch[b].remaining, tx.need)
          IN tx' = [tx EXCEPT
               !.batch[b].remaining = @ - taken,
               !.need = @ - taken,
               !.allocs = Append(@, [line |-> Len(tx.lines), batch |-> b,
                                     qty |-> taken])]
    BY <1>4 DEF AllocateBatch
  <2>. DEFINE taken == Smaller(tx.batch[b].remaining, tx.need)
  <2>2. /\ b \in BatchNo /\ tx.batch[b].sku = CurrentInput.cell[2] /\ tx.need > 0
        /\ tx.batch[b] \in BatchRow
    BY <1>0, <1>4 DEF Oldest, Candidates, AllocateBatch
  <2>3. taken \in Int /\ taken <= tx.need
    BY <1>0, <2>2 DEF Smaller, BatchRow
  <2>4. /\ tx'.batch = [tx.batch EXCEPT ![b].remaining = @ - taken]
        /\ tx'.need = tx.need - taken /\ tx'.balance = tx.balance
        /\ tx'.lines = tx.lines /\ tx'.req = tx.req /\ UNCHANGED <<balance, batch, req>>
    BY <1>0, <1>4, <2>1 DEF Transaction, AllocateBatch, stored
  <2>5. CurrentInput' = CurrentInput
    BY <2>4 DEF CurrentInput
  <2>6. InTx(r) /\ \A q \in Request : InTx(q)' => q = r
    BY <1>4, <2>4 DEF AllocateBatch, InTx
  <2>7. tx'.batch \in [BatchNo -> BatchRow]
    <3>1. TypeInv'
      BY TypeStep
    <3>. QED
      BY <3>1 DEF TypeInv, TypeOK, Transaction
  <2>. HIDE DEF taken
  <2>8. ASSUME NEW s \in Sku
        PROVE  HeldBy(tx'.batch, s) - StillNeeded(s)' = HeldBy(tx.batch, s) - StillNeeded(s)
    <3>1. HeldBy(tx'.batch, s)
            = HeldBy(tx.batch, s) - (IF tx.batch[b].sku = s THEN taken ELSE 0)
      <4>1. /\ \A x \in BatchNo : x # b => tx'.batch[x] = tx.batch[x]
            /\ tx'.batch[b].sku = tx.batch[b].sku
            /\ tx'.batch[b].remaining = tx.batch[b].remaining - taken
        BY <1>0, <2>2, <2>4 DEF BatchRow
      <4>. QED
        BY <1>0, <2>2, <2>3, <2>7, <4>1, BatchHoldsLess
    <3>2. HeldBy(tx.batch, s) \in Int
      BY <1>0, SumsOfStock
    <3>3. CASE CurrentInput.cell[2] = s
      <4>1. StillNeeded(s) = tx.need /\ StillNeeded(s)' = tx.need - taken
        BY <1>0, <2>2, <2>3, <2>4, <2>5, <3>3 DEF StillNeeded
      <4>. QED
        BY <1>0, <2>2, <2>3, <3>1, <3>2, <3>3, <4>1
    <3>4. CASE CurrentInput.cell[2] # s
      <4>1. StillNeeded(s) = 0 /\ StillNeeded(s)' = 0
        BY <2>5, <3>4 DEF StillNeeded
      <4>. QED
        BY <2>2, <3>1, <3>2, <3>4, <4>1
    <3>. QED
      BY <3>3, <3>4
  <2>. QED
    BY <1>1, <2>4, <2>6, <2>8 DEF CoverInv
<1>5. ASSUME NEW r \in Request, Commit(r) PROVE CoverInv'
  <2>. DEFINE d == req[r].doc
  <2>1. /\ tx' = NoTx /\ balance' = tx.balance /\ InTx(r) /\ tx.need = 0 /\ d \in Doc
        /\ Len(tx.lines) = Len(Input[d].lines)
    BY <1>5 DEF Commit, LinesDone, InTx, TypeInv, RequestsBound
  <2>2. \A q \in Request : ~ InTx(q)'
    BY <2>1, InputAssumption DEF InTx, NoTx
  <2>. HIDE DEF d
  <2>3. ASSUME NEW s \in Sku PROVE AvailableIn(balance', s) <= HeldBy(batch', s)
    <3>1. HeldBy(batch', s) = HeldBy(tx.batch, s) + Opened(d, s)
      BY <1>5, BatchesHoldMore DEF d
    <3>2. UntracedMoves(d, s, Len(tx.lines)) <= Opened(d, s)
      BY <2>1, BackedAssumption
    <3>3. HeldBy(tx.batch, s) - 0 - AvailableIn(tx.balance, s)
            = HeldBy(batch, s) - AvailableIn(balance, s) - UntracedMoves(d, s, Len(tx.lines))
      <4>1. StillNeeded(s) = 0
        BY <2>1 DEF StillNeeded
      <4>. QED
        BY <2>1, <4>1 DEF CoverInv, d
    <3>4. AvailableIn(balance, s) <= HeldBy(batch, s)
      BY DEF CoverInv
    <3>5. /\ HeldBy(tx.batch, s) \in Int /\ AvailableIn(tx.balance, s) \in Int
          /\ HeldBy(batch, s) \in Int /\ AvailableIn(balance, s) \in Int
      BY <1>0, SumsOfStock
    <3>6. UntracedMoves(d, s, Len(tx.lines)) \in Int /\ Opened(d, s) \in Int
      BY <2>1, SumsOfInput
    <3>. QED
      BY <2>1, <3>1, <3>2, <3>3, <3>4, <3>5, <3>6
  <2>. QED
    BY <2>2, <2>3 DEF CoverInv
<1>6. ASSUME tx' = NoTx, UNCHANGED <<balance, batch>> PROVE CoverInv'
  <2>1. \A q \in Request : ~ InTx(q)'
    BY <1>6, InputAssumption DEF InTx, NoTx
  <2>. QED
    BY <1>1, <1>6, <2>1 DEF CoverInv
<1>7. ASSUME UNCHANGED <<tx, balance, batch>>,
             \A q \in Request : req'[q].pc = "tx" => req'[q] = req[q]
      PROVE  CoverInv'
  <2>1. \A q \in Request : InTx(q)' => InTx(q) /\ req'[q] = req[q] /\ tx.req = q
    BY <1>7 DEF InTx
  <2>2. ASSUME NEW q \in Request, InTx(q)', NEW s \in Sku
        PROVE  HeldBy(tx'.batch, s) - StillNeeded(s)' - AvailableIn(tx'.balance, s)
                 = HeldBy(batch', s) - AvailableIn(balance', s)
                   - UntracedMoves(req'[q].doc, s, Len(tx'.lines))
    <3>1. InTx(q) /\ req'[q] = req[q] /\ tx.req = q
      BY <2>1, <2>2
    <3>2. StillNeeded(s)' = StillNeeded(s)
      BY <1>7, <3>1 DEF StillNeeded, CurrentInput
    <3>. QED
      BY <1>7, <3>1, <3>2 DEF CoverInv
  <2>. QED
    BY <1>1, <1>7, <2>2 DEF CoverInv
<1>8. ASSUME NEW d \in Doc, CreateDocument(d) PROVE CoverInv'
  BY <1>7, <1>8 DEF CreateDocument
<1>9. ASSUME NEW r \in Request, Replay(r) PROVE CoverInv'
  <2>1. \A q \in Request : req'[q].pc = "tx" => req'[q] = req[q]
    BY <1>0, <1>9 DEF Replay, RequestRow
  <2>. QED
    BY <1>7, <1>9, <2>1 DEF Replay, stored
<1>. QED
  BY <1>2, <1>3, <1>4, <1>5, <1>6, <1>7, <1>8, <1>9, StepKinds, RequestKinds

\* Available stock can be traced: the batches of a sku hold at least its available
\* stock, whatever is posted, transferred, returned and issued.
THEOREM BatchesCover == Spec => []BatchesCoverAvailable
<1>1. Init => CoverInv
  <2>. SUFFICES ASSUME Init PROVE CoverInv
    OBVIOUS
  <2>1. tx.req = None /\ balance = [c \in Cell |-> EmptyRow] /\ batch = [b \in BatchNo |-> NoBatch]
    BY DEF Init, NoTx
  <2>2. ASSUME NEW s \in Sku PROVE AvailableIn(balance, s) <= HeldBy(batch, s)
    <3>. DEFINE f == [l \in Location |-> balance[<<l, s, "AVAILABLE">>].qty]
                g == [b \in BatchNo |-> IF batch[b].sku = s THEN batch[b].remaining ELSE 0]
    <3>1. \A l \in Location : <<l, s, "AVAILABLE">> \in Cell
      BY InputAssumption DEF Cell
    <3>2. f \in [Location -> Int] /\ \A l \in Location : f[l] = 0
      BY <2>1, <3>1 DEF EmptyRow
    <3>3. g \in [BatchNo -> Int] /\ \A b \in BatchNo : g[b] = 0
      BY <2>1 DEF NoBatch
    <3>. HIDE DEF f, g
    <3>4. Total(f) = 0 /\ Total(g) = 0
      BY <3>2, <3>3, BackedAssumption, TotalZero
    <3>. QED
      BY <3>4 DEF AvailableIn, HeldBy, f, g
  <2>. QED
    BY <2>1, <2>2, InputAssumption DEF CoverInv, InTx
<1>2. TypeInv /\ CoverInv => BatchesCoverAvailable
  <2>. SUFFICES ASSUME TypeInv, CoverInv, NEW s \in Sku
                PROVE  Total([l \in Location |-> balance[<<l, s, "AVAILABLE">>].qty])
                       <= Total([b \in {b \in BatchNo : batch[b].sku = s} |-> batch[b].remaining])
    BY DEF BatchesCoverAvailable
  <2>. DEFINE T == {b \in BatchNo : batch[b].sku = s}
              g == [b \in BatchNo |-> IF batch[b].sku = s THEN batch[b].remaining ELSE 0]
  <2>1. Restrict(g, T) = [b \in T |-> batch[b].remaining]
    BY DEF Restrict
  <2>2. batch \in [BatchNo -> BatchRow]
    BY DEF TypeInv, TypeOK
  <2>3. g \in [BatchNo -> Int] /\ \A b \in BatchNo \ T : g[b] = 0
    BY <2>2 DEF BatchRow
  <2>4. T \in SUBSET BatchNo /\ IsFiniteSet(BatchNo)
    BY BackedAssumption
  <2>5. Total(g) = Total(Restrict(g, T))
    <3>. HIDE DEF g, T
    <3>. QED
      BY <2>3, <2>4, TotalOfPart
  <2>6. AvailableIn(balance, s) <= HeldBy(batch, s)
    BY DEF CoverInv
  <2>. QED
    BY <2>1, <2>5, <2>6 DEF AvailableIn, HeldBy
<1>. QED
  BY <1>1, <1>2, TypeInit, TypeStep, BatchInit, BatchStep, LinesInit, LinesStep, CoverStep,
     PTL DEF Spec

\* What the run states of rows, balances and batches.
THEOREM StockStaysWithinBounds == Spec => []StockWithinBounds
BY TypeCorrect, NoNegativeStock, BatchesWithinReceipt, PTL DEF StockWithinBounds

=============================================================================
