------------------------- MODULE FinanceWebProofs -------------------------
(***************************************************************************)
(* Proofs about two components that share no state: settling, for any      *)
(* accounts, debts, credits, documents and keys (a document may list any   *)
(* number of targets with any amounts), and the web client, for any tabs,  *)
(* calls, budgets and screens chosen.                                      *)
(***************************************************************************)
EXTENDS FinanceLedger, WebSafety, TotalProofs, SequenceTheorems

(***************************************************************************)
(* Settling.                                                               *)
(*                                                                         *)
(* A posting reads what is outstanding in the transaction that writes it,  *)
(* so each invariant is kept by each step; what has to be carried along is *)
(* the shape of the rows and that each line settles something. What debts  *)
(* and accounts hold are sums over the documents, to which a posting adds  *)
(* one.                                                                    *)
(***************************************************************************)

\* Each line of a document settles part of a debt.
LinesSettle ==
    \A d \in Document : \A o \in DOMAIN document[d].lines :
        Settles(document[d].lines[o]) > 0

\* Only payments and receipts have lines.
AdjustmentsSettleNothing == \A d \in Adjustment : document[d].lines = NoLines

\* What is paid out and what is received.
Owing == Payable \cup Refund
Owed == Receivable \cup Compensation

\* A payment settles what is owed to others, a receipt what others owe.
OnTheirSide(d, lines) == /\ d \in Payment => DOMAIN lines \subseteq Owing
                         /\ d \in Receipt => DOMAIN lines \subseteq Owed

SidesApart == \A d \in Document : OnTheirSide(d, document[d].lines)

\* What document d puts into the columns of debt o.
CashOn(d, o) ==
    IF o \in DOMAIN document[d].lines THEN document[d].lines[o].cash ELSE 0
CreditedOn(d, o) ==
    IF o \in DOMAIN document[d].lines THEN document[d].lines[o].credited ELSE 0

(***************************************************************************)
(* Lemmas about the rows.                                                  *)
(***************************************************************************)

\* What a line settles is a number.
LEMMA SettlesType ==
    ASSUME NEW line \in Line
    PROVE  /\ line.cash \in Nat /\ line.credited \in Nat
           /\ Settles(line) \in Nat
           /\ Settles(line) = line.cash + line.credited
BY FinanceAssumption DEF Line, Settles

\* A debt after a line that fits: a row, with the line moved from what is
\* outstanding to what is paid and credited.
LEMMA SettledRow ==
    ASSUME NEW old \in DebtRows, NEW line \in Line,
           Settles(line) <= old.outstanding
    PROVE  /\ Settled(old, line) \in DebtRows
           /\ Settled(old, line).outstanding = old.outstanding - Settles(line)
           /\ Settled(old, line).paid = old.paid + line.cash
           /\ Settled(old, line).credited = old.credited + line.credited
           /\ Settled(old, line).status = "SETTLED"
                <=> Settled(old, line).outstanding = 0
<1> DEFINE outstanding == old.outstanding - Settles(line)
           status == IF outstanding = 0 THEN "SETTLED" ELSE "PARTIAL"
<1>1. /\ old.paid \in Nat /\ old.credited \in Nat /\ old.outstanding \in Nat
  BY DEF DebtRows
<1>2. outstanding \in Nat
  BY <1>1, SettlesType
<1>3. old.paid + line.cash \in Nat /\ old.credited + line.credited \in Nat
  BY <1>1, SettlesType
<1>4. Settled(old, line) = [paid |-> old.paid + line.cash,
                            credited |-> old.credited + line.credited,
                            outstanding |-> outstanding, status |-> status]
  BY DEF Settled, DebtRow
<1>5. status \in DebtStatus /\ (status = "SETTLED" <=> outstanding = 0)
  BY DEF DebtStatus
<1> HIDE DEF outstanding, status
<1>6. Settled(old, line) \in DebtRows
  BY <1>2, <1>3, <1>4, <1>5 DEF DebtRows
<1>7. Settled(old, line).outstanding = outstanding
  BY <1>4
<1>. QED
  BY <1>4, <1>5, <1>6, <1>7 DEF outstanding

\* Lines that can be chosen are on the targets, well formed and not empty.
LEMMA ChosenLines ==
    ASSUME NEW targets, targets \subseteq Debt, NEW lines \in LinesOn(targets)
    PROVE  /\ DOMAIN lines \subseteq Debt
           /\ lines = [o \in DOMAIN lines |-> lines[o]]
           /\ \A o \in DOMAIN lines : lines[o] \in Line /\ Settles(lines[o]) > 0
BY DEF LinesOn, SomeLine

\* A document without lines is a row.
LEMMA EmptyLines == DOMAIN NoLines = {}
BY DEF NoLines

(***************************************************************************)
(* The steps, by what they change.                                         *)
(***************************************************************************)

\* A document is drafted.
Drafting(d, a, lines, cash) ==
    /\ cash \in Int
    /\ DOMAIN lines \subseteq Debt
    /\ \A o \in DOMAIN lines : lines[o] \in Line /\ Settles(lines[o]) > 0
    /\ d \in Adjustment => lines = NoLines
    /\ OnTheirSide(d, lines)
    /\ Draft(d, a, lines, cash)

\* A document is posted and its lines settle debts.
Settling(d, k) ==
    /\ d \notin Adjustment
    /\ Postable(d)
    /\ document[d].cash = Cash(document[d].lines)
    /\ AllOutstanding(document[d].lines)
    /\ Settlement(document[d].lines)
    /\ Commit(d, k)
    /\ \/ CreditsApplied(document[d].lines)
       \/ UNCHANGED credit

\* Every step is one of these.
LEMMA StepKinds ==
    ASSUME [Next]_vars
    PROVE  \/ UNCHANGED <<debt, credit, document, entries, idem>>
              /\ (active' = active \/ \E a \in Account, s \in BOOLEAN :
                                         active' = [active EXCEPT ![a] = s])
           \/ \E d \in Document, a \in Account : \E lines, cash :
                 Drafting(d, a, lines, cash)
           \/ \E d \in Document, k \in Key : Settling(d, k)
           \/ \E d \in Adjustment, k \in Key : PostAdjustment(d, k)
<1>1. CASE UNCHANGED vars
  BY <1>1 DEF vars
<1>2. ASSUME NEW a \in Account, NEW status \in BOOLEAN, UpdateAccount(a, status)
      PROVE  /\ UNCHANGED <<debt, credit, document, entries, idem>>
             /\ \E s \in BOOLEAN : active' = [active EXCEPT ![a] = s]
  BY <1>2 DEF UpdateAccount, settlements
<1>3. ASSUME NEW a \in Account, NEW d \in Payment, CreatePayment(d, a)
      PROVE  \E lines, cash : Drafting(d, a, lines, cash)
  <2>1. PICK lines \in LinesOn(Payable) \cup LinesOn(Refund), cash \in 1..MaxTotal :
           Draft(d, a, lines, cash)
    BY <1>3 DEF CreatePayment
  <2>2. /\ DOMAIN lines \subseteq Debt
        /\ \A o \in DOMAIN lines : lines[o] \in Line /\ Settles(lines[o]) > 0
    BY ChosenLines DEF Debt
  <2>3. d \notin Adjustment /\ OnTheirSide(d, lines)
    BY <2>1, FinanceAssumption DEF LinesOn, OnTheirSide, Owing, Owed
  <2>4. Drafting(d, a, lines, cash)
    BY <2>1, <2>2, <2>3, FinanceAssumption DEF Drafting
  <2>. QED
    BY <2>4
<1>4. ASSUME NEW a \in Account, NEW d \in Receipt, CreateReceipt(d, a)
      PROVE  \E lines, cash : Drafting(d, a, lines, cash)
  <2>1. PICK lines \in LinesOn(Receivable) \cup LinesOn(Compensation),
             cash \in 1..MaxTotal : Draft(d, a, lines, cash)
    BY <1>4 DEF CreateReceipt
  <2>2. /\ DOMAIN lines \subseteq Debt
        /\ \A o \in DOMAIN lines : lines[o] \in Line /\ Settles(lines[o]) > 0
    BY ChosenLines DEF Debt
  <2>3. d \notin Adjustment /\ OnTheirSide(d, lines)
    BY <2>1, FinanceAssumption DEF LinesOn, OnTheirSide, Owing, Owed
  <2>4. Drafting(d, a, lines, cash)
    BY <2>1, <2>2, <2>3, FinanceAssumption DEF Drafting
  <2>. QED
    BY <2>4
<1>5. ASSUME NEW a \in Account, NEW d \in Adjustment, CreateAdjustment(d, a)
      PROVE  \E lines, cash : Drafting(d, a, lines, cash)
  <2>1. PICK cash \in (-MaxCash)..MaxCash : Draft(d, a, NoLines, cash)
    BY <1>5 DEF CreateAdjustment
  <2>2. OnTheirSide(d, NoLines)
    BY EmptyLines DEF OnTheirSide
  <2>3. Drafting(d, a, NoLines, cash)
    BY <2>1, <2>2, EmptyLines, FinanceAssumption DEF Drafting
  <2>. QED
    BY <2>3
<1>6. ASSUME NEW k \in Key, NEW d \in Payment, PostPayment(d, k)
      PROVE  Settling(d, k)
  BY <1>6, FinanceAssumption DEF PostPayment, Settling
<1>7. ASSUME NEW k \in Key, NEW d \in Receipt, PostReceipt(d, k)
      PROVE  Settling(d, k)
  BY <1>7, FinanceAssumption DEF PostReceipt, Settling
<1>. QED
  BY <1>1, <1>2, <1>3, <1>4, <1>5, <1>6, <1>7 DEF Next, Document

(***************************************************************************)
(* Rows after a step.                                                      *)
(***************************************************************************)

\* What the rows of documents have to be for the rest.
FinInv == /\ TypeOK /\ DebtBalances /\ PostedOnce
          /\ LinesSettle /\ AdjustmentsSettleNothing /\ SidesApart

\* A drafted document: one row changes, and it is a row.
LEMMA DraftedRow ==
    ASSUME TypeOK, NEW d \in Document, NEW a \in Account, NEW lines, NEW cash,
           Drafting(d, a, lines, cash)
    PROVE  /\ DOMAIN document' = Document
           /\ document'[d] = Drafted(a, lines, cash)
           /\ IsDocumentRow(document'[d])
           /\ \A e \in Document \ {d} : document'[e] = document[e]
           /\ document[d].status = "ABSENT"
           /\ UNCHANGED <<active, debt, credit, entries, idem>>
<1>1. /\ document' = [document EXCEPT ![d] = Drafted(a, lines, cash)]
      /\ document[d].status = "ABSENT"
      /\ UNCHANGED <<active, debt, credit, entries, idem>>
  BY DEF Drafting, Draft, settlements
<1>2. DOMAIN document = Document
  BY DEF TypeOK
<1>3. document'[d] = Drafted(a, lines, cash)
  BY <1>1, <1>2
<1>4. IsDocumentRow(Drafted(a, lines, cash))
  BY DEF IsDocumentRow, Drafted, Drafting
<1>. QED
  BY <1>1, <1>2, <1>3, <1>4

\* A committed document: its row is POSTED and otherwise as it was, its
\* account has one more transaction, and its key is saved.
LEMMA CommittedRow ==
    ASSUME TypeOK, NEW d \in Document, NEW k \in Key, Postable(d), Commit(d, k)
    PROVE  /\ DOMAIN document' = Document
           /\ IsDocumentRow(document'[d])
           /\ document'[d].status = "POSTED"
           /\ document'[d].account = document[d].account
           /\ document'[d].lines = document[d].lines
           /\ document[d].account \in Account
           /\ \A e \in Document \ {d} : document'[e] = document[e]
<1>1. /\ DOMAIN document = Document
      /\ IsDocumentRow(document[d])
      /\ document[d].status = "DRAFT"
  BY DEF TypeOK, Postable
<1>2. /\ DOMAIN document' = Document
      /\ document'[d] = [document[d] EXCEPT !.status = "POSTED"]
      /\ \A e \in Document \ {d} : document'[e] = document[e]
  BY <1>1 DEF Commit
<1> DEFINE draft == document[d]
<1>3. /\ draft = [status |-> draft.status, account |-> draft.account,
                  cash |-> draft.cash, lines |-> draft.lines]
      /\ draft.account \in Account /\ draft.cash \in Int
      /\ DOMAIN draft.lines \subseteq Debt
      /\ \A o \in DOMAIN draft.lines : draft.lines[o] \in Line
  BY <1>1 DEF IsDocumentRow
<1> HIDE DEF draft
<1>4. document'[d] = [status |-> "POSTED", account |-> draft.account,
                      cash |-> draft.cash, lines |-> draft.lines]
  <2>1. document'[d] = [draft EXCEPT !.status = "POSTED"]
    BY <1>2 DEF draft
  <2>. QED
    BY <2>1, <1>3
<1>5. IsDocumentRow(document'[d])
  BY <1>3, <1>4 DEF IsDocumentRow
<1>. QED
  BY <1>2, <1>3, <1>4, <1>5 DEF draft

\* Debts after the lines of a document that fit: each line adds to what is paid
\* and credited.
LEMMA SettledDebts ==
    ASSUME TypeOK, DebtBalances, NEW d \in Document,
           AllOutstanding(document[d].lines), Settlement(document[d].lines)
    PROVE  /\ debt' \in [Debt -> DebtRows]
           /\ \A o \in Debt :
                /\ debt'[o].paid + debt'[o].credited + debt'[o].outstanding
                     = Original[o]
                /\ debt'[o].status = "SETTLED" <=> debt'[o].outstanding = 0
                /\ debt'[o].outstanding =
                     IF o \in DOMAIN document[d].lines
                     THEN debt[o].outstanding - Settles(document[d].lines[o])
                     ELSE debt[o].outstanding
                /\ debt'[o].paid = debt[o].paid + CashOn(d, o)
                /\ debt'[o].credited = debt[o].credited + CreditedOn(d, o)
<1> DEFINE lines == document[d].lines
<1>1. /\ debt \in [Debt -> DebtRows]
      /\ \A o \in DOMAIN lines : lines[o] \in Line
  BY DEF TypeOK, IsDocumentRow
<1>2. debt' = [o \in Debt |-> IF o \in DOMAIN lines
                              THEN Settled(debt[o], lines[o]) ELSE debt[o]]
  BY DEF Settlement
<1>3. \A o \in DOMAIN lines : Settles(lines[o]) <= debt[o].outstanding
  BY DEF AllOutstanding
<1> HIDE DEF lines
<1>. SUFFICES ASSUME NEW o \in Debt
              PROVE  /\ debt'[o] \in DebtRows
                     /\ debt'[o].paid + debt'[o].credited + debt'[o].outstanding
                          = Original[o]
                     /\ debt'[o].status = "SETTLED" <=> debt'[o].outstanding = 0
                     /\ debt'[o].outstanding =
                          IF o \in DOMAIN lines
                          THEN debt[o].outstanding - Settles(lines[o])
                          ELSE debt[o].outstanding
                     /\ debt'[o].paid = debt[o].paid
                          + IF o \in DOMAIN lines THEN lines[o].cash ELSE 0
                     /\ debt'[o].credited = debt[o].credited
                          + IF o \in DOMAIN lines THEN lines[o].credited ELSE 0
  BY <1>2 DEF lines, CashOn, CreditedOn
<1>4. /\ debt[o].paid \in Nat /\ debt[o].credited \in Nat
      /\ debt[o].outstanding \in Nat
      /\ debt[o].paid + debt[o].credited + debt[o].outstanding = Original[o]
  BY <1>1 DEF DebtRows, DebtBalances
<1>5. CASE o \in DOMAIN lines
  <2>1. debt'[o] = Settled(debt[o], lines[o])
    BY <1>2, <1>5
  <2>2. /\ lines[o].cash \in Nat /\ lines[o].credited \in Nat
        /\ Settles(lines[o]) = lines[o].cash + lines[o].credited
    BY <1>1, <1>5, SettlesType
  <2>3. /\ Settled(debt[o], lines[o]) \in DebtRows
        /\ Settled(debt[o], lines[o]).outstanding
             = debt[o].outstanding - Settles(lines[o])
        /\ Settled(debt[o], lines[o]).paid = debt[o].paid + lines[o].cash
        /\ Settled(debt[o], lines[o]).credited
             = debt[o].credited + lines[o].credited
        /\ Settled(debt[o], lines[o]).status = "SETTLED"
             <=> Settled(debt[o], lines[o]).outstanding = 0
    BY <1>1, <1>3, <1>5, SettledRow
  <2>. QED
    BY <1>4, <1>5, <2>1, <2>2, <2>3
<1>6. CASE o \notin DOMAIN lines
  BY <1>1, <1>2, <1>4, <1>6 DEF DebtBalances
<1>. QED
  BY <1>5, <1>6

\* Credits after the lines of a document: none is overdrawn.
LEMMA AppliedCredits ==
    ASSUME TypeOK, NEW d \in Document, CreditsApplied(document[d].lines)
    PROVE  \A c \in Credit : /\ credit'[c].applied \in 0..Original[c]
                             /\ credit'[c].status \in DebtStatus
<1> DEFINE lines == document[d].lines
           used  == UsedCredits(lines)
<1>1. \A o \in DOMAIN lines : lines[o] \in Line
  BY DEF TypeOK, IsDocumentRow
<1>2. \A c \in used : \A o \in Using(lines, c) :
         credit[c].applied + lines[o].credited <= Original[c]
  BY DEF CreditsApplied
<1>3. PICK last \in [used -> DOMAIN lines] :
         /\ \A c \in used : last[c] \in Using(lines, c)
         /\ credit' = [c \in Credit |-> IF c \in used
                                        THEN Applied(c, lines[last[c]].credited)
                                        ELSE credit[c]]
  BY DEF CreditsApplied
<1> HIDE DEF lines, used
<1>. SUFFICES ASSUME NEW c \in Credit
              PROVE  /\ credit'[c].applied \in 0..Original[c]
                     /\ credit'[c].status \in DebtStatus
  OBVIOUS
<1>4. /\ credit[c].applied \in 0..Original[c] /\ Original[c] \in Nat
      /\ credit[c].status \in DebtStatus
  BY FinanceAssumption DEF TypeOK
<1>5. CASE c \in used
  <2> DEFINE n == lines[last[c]].credited
  <2>1. n \in Nat /\ credit[c].applied + n <= Original[c]
    <3>1. last[c] \in Using(lines, c) /\ last[c] \in DOMAIN lines
      BY <1>3, <1>5
    <3>. QED
      BY <1>1, <1>2, <1>5, <3>1, SettlesType
  <2>2. credit'[c] = Applied(c, n)
    BY <1>3, <1>5
  <2> HIDE DEF n
  <2>3. /\ Applied(c, n).applied = credit[c].applied + n
        /\ Applied(c, n).status \in DebtStatus
    BY DEF Applied, CreditRow, DebtStatus
  <2>. QED
    BY <1>4, <2>1, <2>2, <2>3
<1>6. CASE c \notin used
  BY <1>3, <1>4, <1>6
<1>. QED
  BY <1>5, <1>6

(***************************************************************************)
(* The inductive invariant.                                                *)
(***************************************************************************)

\* It holds initially.
LEMMA FinInit == Init => FinInv
<1>. SUFFICES ASSUME Init PROVE FinInv
  OBVIOUS
<1>1. \A o \in Debt : Original[o] \in Nat \ {0}
  BY FinanceAssumption
<1>2. \A o \in Debt : debt[o] = [paid |-> 0, credited |-> 0,
                                 outstanding |-> Original[o], status |-> "OPEN"]
  BY DEF Init, DebtRow
<1>3. debt \in [Debt -> DebtRows]
  BY <1>1, <1>2 DEF Init, DebtRow, DebtRows, DebtStatus
<1>4. \A c \in Credit : /\ credit[c].applied \in 0..Original[c]
                        /\ credit[c].status \in DebtStatus
  BY FinanceAssumption DEF Init, CreditRow, DebtStatus
<1>5. \A d \in Document : /\ IsDocumentRow(document[d])
                          /\ document[d].status = "ABSENT"
                          /\ document[d].lines = NoLines
  BY EmptyLines DEF Init, NoDocument, IsDocumentRow
<1>6. TypeOK
  BY <1>3, <1>4, <1>5 DEF TypeOK, Init
<1>7. DebtBalances
  <2>1. \A o \in Debt : /\ debt[o].paid = 0 /\ debt[o].credited = 0
                        /\ debt[o].outstanding = Original[o]
                        /\ debt[o].status = "OPEN"
    <3>1. ASSUME NEW o \in Debt
          PROVE  /\ debt[o].paid = 0 /\ debt[o].credited = 0
                 /\ debt[o].outstanding = Original[o]
                 /\ debt[o].status = "OPEN"
      <4>1. debt[o] = [paid |-> 0, credited |-> 0,
                       outstanding |-> Original[o], status |-> "OPEN"]
        BY <1>2
      <4>. QED
        BY <4>1
    <3>. QED
      BY <3>1
  <2>2. \A o \in Debt : 0 + 0 + Original[o] = Original[o] /\ Original[o] # 0
    BY <1>1
  <2>. QED
    BY <2>1, <2>2 DEF DebtBalances
<1>8. PostedOnce
  <2>1. \A d \in Document : /\ document[d].status # "POSTED"
                            /\ entries[d] = <<>> /\ idem[d] = {}
    BY <1>5 DEF Init
  <2>. QED
    BY <2>1 DEF PostedOnce
<1>9. LinesSettle /\ AdjustmentsSettleNothing /\ SidesApart
  BY <1>5, EmptyLines
  DEF LinesSettle, AdjustmentsSettleNothing, SidesApart, OnTheirSide, Document
<1>. QED
  BY <1>6, <1>7, <1>8, <1>9 DEF FinInv

\* A posting leaves one transaction, under one key.
LEMMA CommitOnce ==
    ASSUME TypeOK, PostedOnce, NEW d \in Document, NEW k \in Key,
           Postable(d), Commit(d, k)
    PROVE  /\ PostedOnce'
           /\ entries' \in [Document -> Seq([account : Account, amount : Int])]
           /\ idem' \in [Document -> SUBSET Key]
<1> DEFINE entry == [account |-> document[d].account, amount |-> Moves(d)]
<1>1. /\ entries' = [entries EXCEPT ![d] = Append(entries[d], entry)]
      /\ idem' = [idem EXCEPT ![d] = idem[d] \cup {k}]
  BY DEF Commit
<1>2. /\ entries \in [Document -> Seq([account : Account, amount : Int])]
      /\ idem \in [Document -> SUBSET Key]
  BY DEF TypeOK
<1>3. document[d].account \in Account /\ document'[d].account = document[d].account
      /\ document'[d].status = "POSTED"
      /\ \A e \in Document \ {d} : document'[e] = document[e]
  BY CommittedRow
<1>4. entries[d] = <<>> /\ idem[d] = {}
  BY DEF PostedOnce, Postable
<1>5. entry \in [account : Account, amount : Int]
  <2>1. document[d].cash \in Int
    BY DEF TypeOK, IsDocumentRow
  <2>. QED
    BY <1>3, <2>1 DEF Moves
<1>6. entry.account = document[d].account
  OBVIOUS
<1> HIDE DEF entry
<1>7. /\ Append(entries[d], entry) = <<entry>>
      /\ Append(entries[d], entry) \in Seq([account : Account, amount : Int])
  BY <1>4, <1>5
<1>8. entries'[d] = <<entry>> /\ idem'[d] = {k}
  BY <1>1, <1>2, <1>4, <1>7
<1>9. Cardinality({k}) = 1
  BY FS_Singleton
<1>10. Len(entries'[d]) = 1 /\ entries'[d][1].account = document'[d].account
       /\ Cardinality(idem'[d]) = 1
  BY <1>3, <1>6, <1>8, <1>9
<1>11. \A e \in Document \ {d} : entries'[e] = entries[e] /\ idem'[e] = idem[e]
  BY <1>1, <1>2
<1>12. PostedOnce'
  BY <1>3, <1>10, <1>11 DEF PostedOnce
<1>13. idem' \in [Document -> SUBSET Key]
  BY <1>1, <1>2
<1>14. entries' \in [Document -> Seq([account : Account, amount : Int])]
  BY <1>1, <1>2, <1>7
<1>. QED
  BY <1>12, <1>13, <1>14

\* Each step keeps it.
LEMMA FinStep == FinInv /\ [Next]_vars => FinInv'
<1>. SUFFICES ASSUME FinInv, [Next]_vars PROVE FinInv'
  OBVIOUS
<1>. USE DEF FinInv
<1>1. ASSUME UNCHANGED <<debt, credit, document, entries, idem>>,
             active' = active \/ \E a \in Account, s \in BOOLEAN :
                                     active' = [active EXCEPT ![a] = s]
      PROVE  FinInv'
  <2>1. active' \in [Account -> BOOLEAN]
    BY <1>1 DEF TypeOK
  <2>2. TypeOK'
    BY <1>1, <2>1 DEF TypeOK
  <2>. QED
    BY <1>1, <2>2 DEF DebtBalances, PostedOnce, LinesSettle,
                      AdjustmentsSettleNothing, SidesApart
<1>2. ASSUME NEW d \in Document, NEW a \in Account, NEW lines, NEW cash,
             Drafting(d, a, lines, cash)
      PROVE  FinInv'
  <2>1. /\ DOMAIN document' = Document
        /\ document'[d] = Drafted(a, lines, cash)
        /\ IsDocumentRow(document'[d])
        /\ \A e \in Document \ {d} : document'[e] = document[e]
        /\ document[d].status = "ABSENT"
        /\ UNCHANGED <<active, debt, credit, entries, idem>>
    BY <1>2, DraftedRow
  <2>2. document'[d].lines = lines /\ document'[d].status = "DRAFT"
    BY <2>1 DEF Drafted
  <2>3. TypeOK'
    BY <2>1 DEF TypeOK
  <2>4. DebtBalances'
    BY <2>1 DEF DebtBalances
  <2>5. PostedOnce'
    BY <2>1, <2>2 DEF PostedOnce
  <2>6. LinesSettle'
    BY <1>2, <2>1, <2>2 DEF LinesSettle, Drafting
  <2>7. AdjustmentsSettleNothing'
    <3>1. \A e \in Adjustment : e # d => document'[e] = document[e]
      BY <2>1 DEF Document
    <3>. QED
      BY <1>2, <2>2, <3>1 DEF AdjustmentsSettleNothing, Drafting
  <2>8. SidesApart'
    BY <1>2, <2>1, <2>2 DEF SidesApart, Drafting
  <2>. QED
    BY <2>3, <2>4, <2>5, <2>6, <2>7, <2>8
<1>3. ASSUME NEW d \in Document, NEW k \in Key, Postable(d), Commit(d, k),
             DebtBalances', debt' \in [Debt -> DebtRows],
             \A c \in Credit : /\ credit'[c].applied \in 0..Original[c]
                               /\ credit'[c].status \in DebtStatus
      PROVE  FinInv'
  <2>1. /\ DOMAIN document' = Document
        /\ IsDocumentRow(document'[d])
        /\ document'[d].lines = document[d].lines
        /\ \A e \in Document \ {d} : document'[e] = document[e]
    BY <1>3, CommittedRow
  <2>2. \A e \in Document : document'[e].lines = document[e].lines
    BY <2>1
  <2>3. /\ PostedOnce'
        /\ entries' \in [Document -> Seq([account : Account, amount : Int])]
        /\ idem' \in [Document -> SUBSET Key]
    BY <1>3, CommitOnce
  <2>4. TypeOK'
    BY <1>3, <2>1, <2>3 DEF TypeOK, Commit
  <2>5. LinesSettle' /\ AdjustmentsSettleNothing' /\ SidesApart'
    BY <2>2 DEF LinesSettle, AdjustmentsSettleNothing, SidesApart, Document
  <2>. QED
    BY <1>3, <2>3, <2>4, <2>5
<1>4. ASSUME NEW d \in Document, NEW k \in Key, Settling(d, k)
      PROVE  FinInv'
  <2>1. /\ Postable(d) /\ Commit(d, k)
        /\ AllOutstanding(document[d].lines) /\ Settlement(document[d].lines)
        /\ CreditsApplied(document[d].lines) \/ UNCHANGED credit
    BY <1>4 DEF Settling
  <2>2. debt' \in [Debt -> DebtRows] /\ DebtBalances'
    BY <2>1, SettledDebts DEF DebtBalances
  <2>3. \A c \in Credit : /\ credit'[c].applied \in 0..Original[c]
                          /\ credit'[c].status \in DebtStatus
    BY <2>1, AppliedCredits DEF TypeOK
  <2>. QED
    BY <1>3, <2>1, <2>2, <2>3
<1>5. ASSUME NEW d \in Adjustment, NEW k \in Key, PostAdjustment(d, k)
      PROVE  FinInv'
  <2>1. /\ Postable(d) /\ Commit(d, k) /\ d \in Document
        /\ UNCHANGED <<debt, credit>>
    BY <1>5 DEF PostAdjustment, settlements, Document
  <2>2. debt' \in [Debt -> DebtRows] /\ DebtBalances'
    BY <2>1 DEF TypeOK, DebtBalances
  <2>3. \A c \in Credit : /\ credit'[c].applied \in 0..Original[c]
                          /\ credit'[c].status \in DebtStatus
    BY <2>1 DEF TypeOK
  <2>. QED
    BY <1>3, <2>1, <2>2, <2>3
<1>. QED
  BY <1>1, <1>2, <1>4, <1>5, StepKinds

\* The rows are well typed: nothing is settled below 0 and no credit is
\* applied beyond its amount.
THEOREM TypeCorrect == Spec => []TypeOK
<1>1. FinInv => TypeOK
  BY DEF FinInv
<1>. QED
  BY FinInit, FinStep, <1>1, PTL DEF Spec

\* original = paid + credited + outstanding, for every debt, whatever the
\* documents list and in whatever order they are posted.
THEOREM DebtsBalance == Spec => []DebtBalances
<1>1. FinInv => DebtBalances
  BY DEF FinInv
<1>. QED
  BY FinInit, FinStep, <1>1, PTL DEF Spec

\* A posted document has exactly one transaction, others have none, whatever
\* keys clients use.
THEOREM DocumentsPostedOnce == Spec => []PostedOnce
<1>1. FinInv => PostedOnce
  BY DEF FinInv
<1>. QED
  BY FinInit, FinStep, <1>1, PTL DEF Spec

\* What the run states of debts and documents.
THEOREM DebtsStaySound == Spec => []DebtsSound
<1>1. FinInv => DebtsSound
  BY DEF FinInv, DebtsSound
<1>. QED
  BY FinInit, FinStep, <1>1, PTL DEF Spec

(***************************************************************************)
(* What the posted documents come to.                                      *)
(***************************************************************************)

\* What a document puts into a debt is a number.
LEMMA PutsAreNumbers ==
    ASSUME TypeOK, NEW d \in Document, NEW o \in Debt
    PROVE  CashOn(d, o) \in Nat /\ CreditedOn(d, o) \in Nat
<1>1. \A p \in DOMAIN document[d].lines : document[d].lines[p] \in Line
  BY DEF TypeOK, IsDocumentRow
<1>. QED
  BY <1>1, SettlesType DEF CashOn, CreditedOn

\* One more document is posted, and no lines change: the sums over the posted
\* documents grow by its lines.
LEMMA PostedSumsGrow ==
    ASSUME TypeOK, NEW d \in Document, d \notin Posted, Posted' = Posted \cup {d},
           \A e \in Document : document'[e].lines = document[e].lines,
           NEW o \in Debt
    PROVE  /\ PostedOn(o, LAMBDA line : line.cash)'
                = PostedOn(o, LAMBDA line : line.cash) + CashOn(d, o)
           /\ PostedOn(o, LAMBDA line : line.credited)'
                = PostedOn(o, LAMBDA line : line.credited) + CreditedOn(d, o)
<1> DEFINE more == Posted \cup {d}
           cash == [e \in more |-> CashOn(e, o)]
           credited == [e \in more |-> CreditedOn(e, o)]
<1>1. Posted \subseteq Document /\ more \subseteq Document /\ Posted' = more
  BY DEF Posted
<1>2. IsFiniteSet(Posted)
  BY <1>1, FinanceIsFinite, FS_Subset
<1>3. cash \in [more -> Int] /\ credited \in [more -> Int]
  BY <1>1, PutsAreNumbers
<1>4. /\ PostedOn(o, LAMBDA line : line.cash) = Total(Restrict(cash, Posted))
      /\ PostedOn(o, LAMBDA line : line.credited) = Total(Restrict(credited, Posted))
  BY DEF PostedOn, CashOn, CreditedOn, Restrict
<1>5. PostedOn(o, LAMBDA line : line.cash)' = Total(cash)
  <2>1. \A e \in more : CashOn(e, o) = IF o \in DOMAIN document'[e].lines
                                       THEN document'[e].lines[o].cash ELSE 0
    BY <1>1 DEF CashOn
  <2>. QED
    BY <1>1, <2>1 DEF PostedOn
<1>6. PostedOn(o, LAMBDA line : line.credited)' = Total(credited)
  <2>1. \A e \in more : CreditedOn(e, o) = IF o \in DOMAIN document'[e].lines
                                           THEN document'[e].lines[o].credited ELSE 0
    BY <1>1 DEF CreditedOn
  <2>. QED
    BY <1>1, <2>1 DEF PostedOn
<1>7. cash[d] = CashOn(d, o) /\ credited[d] = CreditedOn(d, o)
  OBVIOUS
<1> HIDE DEF cash, credited
<1>8. Total(cash) = cash[d] + Total(Restrict(cash, Posted))
  BY <1>2, <1>3, TotalOneMore
<1>9. Total(credited) = credited[d] + Total(Restrict(credited, Posted))
  BY <1>2, <1>3, TotalOneMore
<1>10. Total(Restrict(cash, Posted)) \in Int /\ Total(Restrict(credited, Posted)) \in Int
  <2>1. Restrict(cash, Posted) \in [Posted -> Int] /\ Restrict(credited, Posted) \in [Posted -> Int]
    BY <1>3 DEF Restrict
  <2>. QED
    BY <1>2, <2>1, TotalInt
<1>11. cash[d] \in Int /\ credited[d] \in Int
  BY <1>3
<1>. QED
  BY <1>4, <1>5, <1>6, <1>7, <1>8, <1>9, <1>10, <1>11

\* Nothing else changes them.
LEMMA PostedSumsStay ==
    ASSUME Posted' = Posted, \A d \in Posted : document'[d] = document[d], NEW o
    PROVE  /\ PostedOn(o, LAMBDA line : line.cash)'
                = PostedOn(o, LAMBDA line : line.cash)
           /\ PostedOn(o, LAMBDA line : line.credited)'
                = PostedOn(o, LAMBDA line : line.credited)
BY DEF PostedOn

\* Each step keeps what is settled and what is posted together.
LEMMA SettledStep == FinInv /\ SettledByPosted /\ [Next]_vars => SettledByPosted'
<1>. SUFFICES ASSUME FinInv, SettledByPosted, [Next]_vars PROVE SettledByPosted'
  OBVIOUS
<1>0. TypeOK /\ DebtBalances
  BY DEF FinInv
<1>1. ASSUME UNCHANGED <<debt, document>>
      PROVE  SettledByPosted'
  <2>1. Posted' = Posted /\ \A d \in Posted : document'[d] = document[d]
    BY <1>1 DEF Posted
  <2>. QED
    BY <1>1, <2>1, PostedSumsStay DEF SettledByPosted
<1>2. ASSUME NEW d \in Document, NEW a \in Account, NEW lines, NEW cash,
             Drafting(d, a, lines, cash)
      PROVE  SettledByPosted'
  <2>0. /\ document'[d] = Drafted(a, lines, cash) /\ document[d].status = "ABSENT"
        /\ \A e \in Document \ {d} : document'[e] = document[e]
        /\ UNCHANGED debt
    BY <1>0, <1>2, DraftedRow
  <2>1. document'[d].status = "DRAFT"
    BY <2>0 DEF Drafted
  <2>2. Posted' = Posted /\ \A e \in Posted : document'[e] = document[e]
    BY <2>0, <2>1 DEF Posted
  <2>. QED
    BY <2>0, <2>2, PostedSumsStay DEF SettledByPosted
<1>3. ASSUME NEW d \in Document, NEW k \in Key, Postable(d), Commit(d, k),
             \A o \in Debt : /\ debt'[o].paid = debt[o].paid + CashOn(d, o)
                             /\ debt'[o].credited = debt[o].credited + CreditedOn(d, o)
      PROVE  SettledByPosted'
  <2>1. /\ document'[d].status = "POSTED" /\ document[d].status = "DRAFT"
        /\ \A e \in Document \ {d} : document'[e] = document[e]
        /\ document'[d].lines = document[d].lines
    BY <1>0, <1>3, CommittedRow DEF Postable
  <2>2. /\ d \notin Posted /\ Posted' = Posted \cup {d}
        /\ \A e \in Document : document'[e].lines = document[e].lines
    BY <2>1 DEF Posted
  <2>. SUFFICES ASSUME NEW o \in Debt
                PROVE  /\ debt'[o].paid = PostedOn(o, LAMBDA line : line.cash)'
                       /\ debt'[o].credited = PostedOn(o, LAMBDA line : line.credited)'
    BY DEF SettledByPosted
  <2>3. /\ PostedOn(o, LAMBDA line : line.cash)'
             = PostedOn(o, LAMBDA line : line.cash) + CashOn(d, o)
        /\ PostedOn(o, LAMBDA line : line.credited)'
             = PostedOn(o, LAMBDA line : line.credited) + CreditedOn(d, o)
    BY <1>0, <2>2, PostedSumsGrow
  <2>4. /\ debt[o].paid = PostedOn(o, LAMBDA line : line.cash)
        /\ debt[o].credited = PostedOn(o, LAMBDA line : line.credited)
    BY DEF SettledByPosted
  <2>. QED
    BY <1>3, <2>3, <2>4
<1>4. ASSUME NEW d \in Document, NEW k \in Key, Settling(d, k)
      PROVE  SettledByPosted'
  <2>1. /\ Postable(d) /\ Commit(d, k)
        /\ AllOutstanding(document[d].lines) /\ Settlement(document[d].lines)
    BY <1>4 DEF Settling
  <2>2. \A o \in Debt : /\ debt'[o].paid = debt[o].paid + CashOn(d, o)
                        /\ debt'[o].credited = debt[o].credited + CreditedOn(d, o)
    BY <1>0, <2>1, SettledDebts
  <2>. QED
    BY <1>3, <2>1, <2>2
<1>5. ASSUME NEW d \in Adjustment, NEW k \in Key, PostAdjustment(d, k)
      PROVE  SettledByPosted'
  <2>1. /\ Postable(d) /\ Commit(d, k) /\ d \in Document /\ UNCHANGED debt
    BY <1>5 DEF PostAdjustment, settlements, Document
  <2>2. document[d].lines = NoLines
    BY DEF FinInv, AdjustmentsSettleNothing
  <2>3. \A o \in Debt : /\ CashOn(d, o) = 0 /\ CreditedOn(d, o) = 0
                        /\ debt[o].paid \in Nat /\ debt[o].credited \in Nat
    BY <1>0, <2>2, EmptyLines DEF CashOn, CreditedOn, TypeOK, DebtRows
  <2>. QED
    BY <1>3, <2>1, <2>3
<1>. QED
  BY <1>1, <1>2, <1>4, <1>5, StepKinds

\* What is paid and credited on a debt is what the posted documents allocate to it,
\* each of them once, for any documents posted in any order under any keys.
THEOREM SettledIsPosted == Spec => []SettledByPosted
<1>1. Init => SettledByPosted
  <2>. SUFFICES ASSUME Init, NEW o \in Debt
                PROVE  /\ debt[o].paid = PostedOn(o, LAMBDA line : line.cash)
                       /\ debt[o].credited = PostedOn(o, LAMBDA line : line.credited)
    BY DEF SettledByPosted
  <2>1. Posted = {}
    BY DEF Init, NoDocument, Posted
  <2>2. /\ PostedOn(o, LAMBDA line : line.cash) = 0
        /\ PostedOn(o, LAMBDA line : line.credited) = 0
    BY <2>1, TotalEmpty DEF PostedOn
  <2>. QED
    BY <2>2 DEF Init, DebtRow
<1>. QED
  BY <1>1, FinInit, FinStep, SettledStep, PTL DEF Spec

(***************************************************************************)
(* What the accounts hold.                                                 *)
(***************************************************************************)

\* The transactions of a document are what it moved, or none.
LEMMA EntriesAre ==
    ASSUME TypeOK, NEW d \in Document
    PROVE  /\ EntriesOf(d) \in Int
           /\ entries[d] = <<>> => EntriesOf(d) = 0
<1> DEFINE amounts == [i \in 1..Len(entries[d]) |-> entries[d][i].amount]
<1>1. entries[d] \in Seq([account : Account, amount : Int])
  BY DEF TypeOK
<1>2. amounts \in [1..Len(entries[d]) -> Int] /\ Len(entries[d]) \in Nat
  <2>1. Len(entries[d]) \in Nat
    BY <1>1
  <2>2. ASSUME NEW i \in 1..Len(entries[d]) PROVE entries[d][i].amount \in Int
    <3>1. entries[d][i] \in [account : Account, amount : Int]
      <4>. DEFINE rows == [account : Account, amount : Int]
                  flows == entries[d]
      <4>1. flows \in Seq(rows) /\ i \in 1..Len(flows)
        BY <1>1
      <4>. HIDE DEF rows, flows
      <4>2. flows[i] \in rows
        BY <4>1
      <4>. QED
        BY <4>2 DEF rows, flows
    <3>. QED
      BY <3>1
  <2>. QED
    BY <2>1, <2>2
<1>3. IsFiniteSet(1..Len(entries[d]))
  BY <1>2, FS_Interval
<1>4. EntriesOf(d) = Total(amounts)
  BY DEF EntriesOf
<1>5. entries[d] = <<>> => DOMAIN amounts = {}
  OBVIOUS
<1> HIDE DEF amounts
<1>6. Total(amounts) \in Int
  BY <1>2, <1>3, TotalInt
<1>7. entries[d] = <<>> => Total(amounts) = 0
  BY <1>5, TotalEmpty
<1>. QED
  BY <1>4, <1>6, <1>7

\* A posting adds what the document moves to its account.
LEMMA CommittedEntries ==
    ASSUME TypeOK, PostedOnce, NEW d \in Document, NEW k \in Key,
           Postable(d), Commit(d, k)
    PROVE  /\ EntriesOf(d) = 0 /\ EntriesOf(d)' = Moves(d)
           /\ \A e \in Document \ {d} : entries'[e] = entries[e]
<1> DEFINE entry == [account |-> document[d].account, amount |-> Moves(d)]
           amounts == [i \in 1..1 |-> entry.amount]
<1>1. entries[d] = <<>>
  BY DEF PostedOnce, Postable
<1>2. entries' = [entries EXCEPT ![d] = Append(entries[d], entry)]
  BY DEF Commit
<1>3. DOMAIN entries = Document
  BY DEF TypeOK
<1>4. Moves(d) \in Int
  <2>1. document[d].cash \in Int
    BY DEF TypeOK, IsDocumentRow
  <2>. QED
    BY <2>1 DEF Moves
<1>5. entries'[d] = <<entry>> /\ \A e \in Document \ {d} : entries'[e] = entries[e]
  BY <1>1, <1>2, <1>3
<1>6. EntriesOf(d)' = Total(amounts)
  <2>1. Len(entries'[d]) = 1 /\ \A i \in 1..1 : entries'[d][i].amount = entry.amount
    BY <1>5
  <2>. HIDE DEF entry
  <2>. QED
    BY <2>1 DEF EntriesOf
<1>7. amounts \in [{1} -> Int] /\ amounts[1] = Moves(d)
  <2>1. 1..1 = {1}
    OBVIOUS
  <2>. QED
    BY <1>4, <2>1
<1> HIDE DEF amounts
<1>8. Total(amounts) = Moves(d)
  BY <1>7, TotalOne
<1>. QED
  BY <1>1, <1>5, <1>6, <1>8, EntriesAre

\* What is paid on a set of debts grows by the cash of the lines on them.
LEMMA PaidGrows ==
    ASSUME TypeOK, NEW d \in Document, NEW S \in SUBSET Debt,
           \A o \in Debt : debt'[o].paid = debt[o].paid + CashOn(d, o)
    PROVE  /\ PaidOn(S) \in Int
           /\ DOMAIN document[d].lines \subseteq S
                => PaidOn(S)' = PaidOn(S) + Cash(document[d].lines)
           /\ DOMAIN document[d].lines \cap S = {} => PaidOn(S)' = PaidOn(S)
<1> DEFINE lines == document[d].lines
           before == [o \in S |-> debt[o].paid]
           added == [o \in S |-> CashOn(d, o)]
           after == [o \in S |-> before[o] + added[o]]
           cash == [o \in DOMAIN lines |-> lines[o].cash]
<1>1. IsFiniteSet(S)
  BY FinanceIsFinite, FS_Subset
<1>2. \A o \in S : debt[o].paid \in Int /\ CashOn(d, o) \in Int
  <2>1. \A o \in Debt : debt[o].paid \in Nat
    BY DEF TypeOK, DebtRows
  <2>2. \A o \in Debt : CashOn(d, o) \in Nat
    BY PutsAreNumbers
  <2>. HIDE DEF lines, before, added, after, cash
  <2>. QED
    BY <2>1, <2>2
<1>3. /\ before \in [S -> Int] /\ added \in [S -> Int] /\ after \in [S -> Int]
      /\ \A o \in S : after[o] = before[o] + added[o]
  BY <1>2
<1>4. PaidOn(S) = Total(before) /\ PaidOn(S)' = Total(after)
  BY DEF PaidOn
<1>5. ASSUME DOMAIN lines \subseteq S
      PROVE  /\ cash \in [DOMAIN lines -> Int]
             /\ \A o \in DOMAIN lines : added[o] = cash[o]
             /\ \A o \in S \ DOMAIN lines : added[o] = 0
  BY <1>2, <1>5 DEF CashOn
<1>6. ASSUME DOMAIN lines \cap S = {}
      PROVE  \A o \in S : added[o] = 0
  BY <1>6 DEF CashOn
<1>7. Cash(lines) = Total(cash)
  BY DEF Cash
<1> HIDE DEF before, added, after, cash, lines
<1>8. Total(after) = Total(before) + Total(added)
  BY <1>1, <1>3, TotalPlus
<1>9. Total(before) \in Int
  BY <1>1, <1>3, TotalInt
<1>10. ASSUME DOMAIN lines \subseteq S
       PROVE  Total(added) = Total(cash)
  <2>1. /\ cash \in [DOMAIN lines -> Int]
        /\ \A o \in DOMAIN lines : added[o] = cash[o]
        /\ \A o \in S \ DOMAIN lines : added[o] = 0
    BY <1>5, <1>10
  <2>2. Restrict(added, DOMAIN lines) = cash
    BY <2>1 DEF Restrict
  <2>. QED
    BY <1>1, <1>3, <1>10, <2>1, <2>2, TotalOfPart
<1>11. DOMAIN lines \cap S = {} => Total(added) = 0
  BY <1>1, <1>3, <1>6, TotalZero
<1>. QED
  BY <1>4, <1>7, <1>8, <1>9, <1>10, <1>11 DEF lines

\* The documents with lines, and what their transactions come to.
Moving == Document \ Adjustment
Flow == [d \in Moving |-> EntriesOf(d)]

LEMMA FlowType == TypeOK => IsFiniteSet(Moving) /\ Flow \in [Moving -> Int]
BY FinanceIsFinite, FS_Subset, EntriesAre DEF Moving, Flow

\* Posting a document with lines moves its cash to its side of the books.
LEMMA SettlingMoves ==
    ASSUME FinInv, AccountsHoldTheCash, NEW d \in Document, NEW k \in Key, Settling(d, k)
    PROVE  AccountsHoldTheCash'
<1>. DEFINE lines == document[d].lines
<1>1. TypeOK /\ DebtBalances /\ PostedOnce
  BY DEF FinInv
<1>2. /\ d \in Moving /\ (d \in Payment \/ d \in Receipt)
      /\ Postable(d) /\ Commit(d, k) /\ document[d].cash = Cash(lines)
      /\ AllOutstanding(lines) /\ Settlement(lines)
  BY DEF Settling, Moving, Document
<1>3. \A o \in Debt : debt'[o].paid = debt[o].paid + CashOn(d, o)
  BY <1>1, <1>2, SettledDebts
<1>4. EntriesOf(d) = 0 /\ EntriesOf(d)' = Moves(d)
      /\ \A e \in Document \ {d} : entries'[e] = entries[e]
  BY <1>1, <1>2, CommittedEntries
<1>5. Flow' = [Flow EXCEPT ![d] = Moves(d)] /\ Flow[d] = 0
  <2>1. \A e \in Moving \ {d} : EntriesOf(e)' = EntriesOf(e)
    BY <1>4 DEF EntriesOf, Moving
  <2>. QED
    BY <1>2, <1>4, <2>1 DEF Flow
<1>6. document[d].cash \in Int /\ Moves(d) \in Int
  BY <1>1 DEF TypeOK, IsDocumentRow, Moves
<1>7. Total(Flow') = Total(Flow) + Moves(d)
  <2>1. IsFiniteSet(Moving) /\ Flow \in [Moving -> Int]
    BY <1>1, FlowType
  <2>2. Total([Flow EXCEPT ![d] = Moves(d)]) = Total(Flow) + Moves(d) - Flow[d]
    BY <1>2, <1>6, <2>1, TotalExcept
  <2>3. Total(Flow) \in Int
    BY <2>1, TotalInt
  <2>. QED
    BY <1>5, <1>6, <2>2, <2>3
<1>8. Owing \subseteq Debt /\ Owed \subseteq Debt /\ Owing \cap Owed = {}
  BY FinanceAssumption DEF Owing, Owed, Debt
<1>9. Total(Flow) = PaidOn(Owed) - PaidOn(Owing)
  BY DEF AccountsHoldTheCash, Flow, Moving, Owed, Owing
<1>10. AccountsHoldTheCash' <=> Total(Flow') = PaidOn(Owed)' - PaidOn(Owing)'
  BY DEF AccountsHoldTheCash, Flow, Moving, Owed, Owing
<1>11. PaidOn(Owing) \in Int /\ PaidOn(Owed) \in Int
  BY <1>1, <1>3, <1>8, PaidGrows
<1>12. CASE d \in Payment
  <2>1. DOMAIN lines \subseteq Owing /\ DOMAIN lines \cap Owed = {}
    BY <1>8, <1>12 DEF FinInv, SidesApart, OnTheirSide
  <2>2. PaidOn(Owing)' = PaidOn(Owing) + Cash(lines)
    BY <1>1, <1>3, <1>8, <2>1, PaidGrows
  <2>3. PaidOn(Owed)' = PaidOn(Owed)
    BY <1>1, <1>3, <1>8, <2>1, PaidGrows
  <2>4. Moves(d) = - document[d].cash
    BY <1>12 DEF Moves
  <2>. HIDE DEF lines
  <2>. QED
    BY <1>2, <1>6, <1>7, <1>9, <1>10, <1>11, <2>2, <2>3, <2>4
<1>13. CASE d \in Receipt
  <2>1. DOMAIN lines \subseteq Owed /\ DOMAIN lines \cap Owing = {}
    BY <1>8, <1>13 DEF FinInv, SidesApart, OnTheirSide
  <2>2. PaidOn(Owed)' = PaidOn(Owed) + Cash(lines)
    BY <1>1, <1>3, <1>8, <2>1, PaidGrows
  <2>3. PaidOn(Owing)' = PaidOn(Owing)
    BY <1>1, <1>3, <1>8, <2>1, PaidGrows
  <2>4. Moves(d) = document[d].cash
    BY <1>13, FinanceAssumption DEF Moves
  <2>. HIDE DEF lines
  <2>. QED
    BY <1>2, <1>6, <1>7, <1>9, <1>10, <1>11, <2>2, <2>3, <2>4
<1>. QED
  BY <1>2, <1>12, <1>13

\* Each step keeps accounts and debts together.
LEMMA AccountsStep ==
    FinInv /\ AccountsHoldTheCash /\ [Next]_vars => AccountsHoldTheCash'
<1>. SUFFICES ASSUME FinInv, AccountsHoldTheCash, [Next]_vars
              PROVE  AccountsHoldTheCash'
  OBVIOUS
<1>1. ASSUME UNCHANGED debt, \A d \in Moving : entries'[d] = entries[d]
      PROVE  AccountsHoldTheCash'
  BY <1>1 DEF AccountsHoldTheCash, EntriesOf, PaidOn, Moving
<1>2. ASSUME NEW d \in Document, NEW a \in Account, NEW lines, NEW cash,
             Drafting(d, a, lines, cash)
      PROVE  AccountsHoldTheCash'
  <2>1. UNCHANGED <<debt, entries>>
    BY <1>2 DEF Drafting, Draft, settlements
  <2>. QED
    BY <1>1, <2>1
<1>3. ASSUME NEW d \in Adjustment, NEW k \in Key, PostAdjustment(d, k)
      PROVE  AccountsHoldTheCash'
  <2>1. Postable(d) /\ Commit(d, k) /\ d \in Document /\ UNCHANGED debt
    BY <1>3 DEF PostAdjustment, settlements, Document
  <2>2. \A e \in Document \ {d} : entries'[e] = entries[e]
    BY <2>1, CommittedEntries DEF FinInv
  <2>. QED
    BY <1>1, <2>1, <2>2 DEF Moving
<1>. QED
  BY <1>1, <1>2, <1>3, SettlingMoves, StepKinds

\* Accounts hold what was received less what was paid, and adjustments: for any
\* documents, targets and amounts, every cent of a payment or a receipt is on a debt.
THEOREM AccountsStayTrue == Spec => []AccountsHoldTheCash
<1>1. Init => AccountsHoldTheCash
  <2>. SUFFICES ASSUME Init PROVE AccountsHoldTheCash
    OBVIOUS
  <2>1. TypeOK /\ \A d \in Document : entries[d] = <<>>
    BY FinInit DEF Init, FinInv
  <2>2. \A d \in Moving : Flow[d] = 0
    BY <2>1, EntriesAre DEF Flow, Moving
  <2>3. Total(Flow) = 0
    BY <2>1, <2>2, FlowType, TotalZero
  <2>4. ASSUME NEW S \in SUBSET Debt PROVE PaidOn(S) = 0
    <3>. DEFINE paid == [o \in S |-> debt[o].paid]
    <3>1. paid \in [S -> Int] /\ \A o \in S : paid[o] = 0
      BY DEF Init, DebtRow
    <3>2. IsFiniteSet(S)
      BY FinanceIsFinite, FS_Subset
    <3>. HIDE DEF paid
    <3>3. Total(paid) = 0
      BY <3>1, <3>2, TotalZero
    <3>. QED
      BY <3>3 DEF PaidOn, paid
  <2>5. PaidOn(Owing) = 0 /\ PaidOn(Owed) = 0
    BY <2>4 DEF Owing, Owed, Debt
  <2>. QED
    BY <2>3, <2>5 DEF AccountsHoldTheCash, Flow, Moving, Owed, Owing
<1>. QED
  BY <1>1, FinInit, FinStep, AccountsStep, PTL DEF Spec

(***************************************************************************)
(* The refinement.                                                         *)
(***************************************************************************)

\* Amounts of no lines are no amounts.
LEMMA NoAmounts == Amounts(NoLines) = NoLines
<1>1. DOMAIN Amounts(NoLines) = {} /\ DOMAIN NoLines = {}
  BY DEF Amounts, NoLines
<1>. QED
  BY <1>1 DEF Amounts, NoLines

\* A posting settles, as the abstract ledger does, the amounts of its lines.
LEMMA SettlingRefines ==
    ASSUME FinInv, NEW d \in Document, NEW k \in Key, Settling(d, k)
    PROVE  Abstract!Settle(d)
<1> DEFINE lines == document[d].lines
<1>1. /\ Postable(d) /\ Commit(d, k)
      /\ AllOutstanding(lines) /\ Settlement(lines)
  BY DEF Settling
<1>2. /\ DOMAIN lines \subseteq Debt
      /\ \A o \in DOMAIN lines : /\ lines[o] \in Line
                                 /\ Settles(lines[o]) > 0
  BY DEF FinInv, TypeOK, IsDocumentRow, LinesSettle
<1>3. /\ document'[d].status = "POSTED" /\ document'[d].lines = lines
      /\ \A e \in Document \ {d} : document'[e] = document[e]
  BY <1>1, CommittedRow DEF FinInv
<1>4. \A o \in Debt : debt'[o].outstanding =
                         IF o \in DOMAIN lines
                         THEN debt[o].outstanding - Settles(lines[o])
                         ELSE debt[o].outstanding
  BY <1>1, SettledDebts DEF FinInv
<1>5. \A o \in DOMAIN lines : Settles(lines[o]) <= debt[o].outstanding
  BY <1>1 DEF AllOutstanding
<1>6. document[d].status = "DRAFT"
  BY <1>1 DEF Postable
<1> HIDE DEF lines
<1>7. SettledBy[d] = NoLines /\ SettledBy'[d] = Amounts(lines)
  BY <1>3, <1>6 DEF SettledBy, lines
<1>8. SettledBy' = [SettledBy EXCEPT ![d] = Amounts(lines)]
  BY <1>3, <1>7 DEF SettledBy
<1>9. /\ DOMAIN Amounts(lines) = DOMAIN lines
      /\ \A o \in DOMAIN lines : Amounts(lines)[o] = Settles(lines[o])
  BY DEF Amounts
<1>10. \A o \in DOMAIN lines : Amounts(lines)[o] \in 1..Due[o]
  <2>1. ASSUME NEW o \in DOMAIN lines PROVE Settles(lines[o]) \in 1..Due[o]
    <3>1. Settles(lines[o]) \in Nat /\ Settles(lines[o]) > 0
      BY <1>2, SettlesType
    <3>2. debt[o].outstanding \in Nat /\ o \in Debt
      BY <1>2 DEF FinInv, TypeOK, DebtRows
    <3>3. Settles(lines[o]) <= Due[o] /\ Due[o] \in Nat
      BY <1>5, <3>2 DEF Due
    <3>. QED
      BY <3>1, <3>3
  <2>. QED
    BY <1>9, <2>1
<1>11. Due' = [o \in Debt |-> IF o \in DOMAIN Amounts(lines)
                              THEN Due[o] - Amounts(lines)[o] ELSE Due[o]]
  BY <1>4, <1>9 DEF Due
<1>12. Abstract!Unsettled = NoLines
  BY DEF Abstract!Unsettled, NoLines
<1>. QED
  BY <1>2, <1>7, <1>8, <1>9, <1>10, <1>11, <1>12 DEF Abstract!Settle

\* Steps that post nothing, or an adjustment, leave the abstract ledger alone.
LEMMA OtherStepsStutter ==
    ASSUME FinInv, UNCHANGED debt,
           \A d \in Document : \/ document'[d] = document[d]
                               \/ /\ document[d].status # "POSTED"
                                  /\ \/ document'[d].status # "POSTED"
                                     \/ document'[d].lines = NoLines
    PROVE  UNCHANGED <<Due, SettledBy>>
<1>1. Due' = Due
  BY DEF Due
<1>2. SettledBy' = SettledBy
  BY NoAmounts DEF SettledBy
<1>. QED
  BY <1>1, <1>2

\* Settling debts implements the abstract ledger: a document settles debts at
\* most once, all its lines together, none beyond what is due.
THEOREM FinanceImplementsDebtLedger == Spec => ImplementsDebtLedger
<1>1. Init => Abstract!Init
  <2>. SUFFICES ASSUME Init PROVE Abstract!Init
    OBVIOUS
  <2>1. \A o \in Debt : debt[o].outstanding = Original[o]
    BY DEF Init, DebtRow
  <2>2. \A d \in Document : document[d].status # "POSTED"
    BY DEF Init, NoDocument
  <2>3. Due = [o \in Debt |-> Original[o]]
    BY <2>1 DEF Due
  <2>4. SettledBy = [d \in Document |-> NoLines]
    BY <2>2 DEF SettledBy
  <2>. QED
    BY <2>3, <2>4 DEF Abstract!Init, Abstract!Unsettled, NoLines
<1>2. FinInv /\ [Next]_vars => [Abstract!Next]_<<Due, SettledBy>>
  <2>. SUFFICES ASSUME FinInv, [Next]_vars
                PROVE  Abstract!Next \/ UNCHANGED <<Due, SettledBy>>
    OBVIOUS
  <2>1. ASSUME UNCHANGED <<debt, credit, document, entries, idem>>
        PROVE  UNCHANGED <<Due, SettledBy>>
    BY <2>1, OtherStepsStutter
  <2>2. ASSUME NEW d \in Document, NEW a \in Account, NEW lines, NEW cash,
               Drafting(d, a, lines, cash)
        PROVE  UNCHANGED <<Due, SettledBy>>
    <3>1. /\ document'[d] = Drafted(a, lines, cash)
          /\ \A e \in Document \ {d} : document'[e] = document[e]
          /\ document[d].status = "ABSENT"
          /\ UNCHANGED debt
      BY <2>2, DraftedRow DEF FinInv
    <3>2. document'[d].status = "DRAFT"
      BY <3>1 DEF Drafted
    <3>. QED
      BY <3>1, <3>2, OtherStepsStutter
  <2>3. ASSUME NEW d \in Document, NEW k \in Key, Settling(d, k)
        PROVE  Abstract!Next
    BY <2>3, SettlingRefines DEF Abstract!Next
  <2>4. ASSUME NEW d \in Adjustment, NEW k \in Key, PostAdjustment(d, k)
        PROVE  UNCHANGED <<Due, SettledBy>>
    <3>1. /\ Postable(d) /\ Commit(d, k) /\ UNCHANGED debt /\ d \in Document
      BY <2>4 DEF PostAdjustment, settlements, Document
    <3>2. /\ document'[d].lines = document[d].lines
          /\ \A e \in Document \ {d} : document'[e] = document[e]
          /\ document[d].status # "POSTED"
      BY <3>1, CommittedRow DEF FinInv, Postable
    <3>3. document'[d].lines = NoLines
      BY <3>2 DEF FinInv, AdjustmentsSettleNothing
    <3>. QED
      BY <3>1, <3>2, <3>3, OtherStepsStutter
  <2>. QED
    BY <2>1, <2>2, <2>3, <2>4, StepKinds
<1>. QED
  BY FinInit, FinStep, <1>1, <1>2, PTL DEF Spec, ImplementsDebtLedger, Abstract!Spec

(***************************************************************************)
(* The web client.                                                         *)
(*                                                                         *)
(* Four inductive invariants over the same shape of sessions, requests and *)
(* calls: why a renewal is refused, what an ended session has ended, how   *)
(* often an opening submits, and what a page knows of the row it asks for. *)
(* A renewal revokes its session in one step and gives a new one in the    *)
(* next: the first two carry along the renewals between the two.           *)
(***************************************************************************)

\* The types of the rows.
Fates == {"logout", "password", "lost"}
SessionRows == [revoked : BOOLEAN, parent : Nat, fates : SUBSET Fates, met : BOOLEAN]
RequestStages == {"idle", "sent", "found", "revoked", "refused", "failed", "answered"}
CallStages == {"idle", "sent", "waiting", "accepted", "rejected", "failed"}
AccessTokens == {"none", "fresh", "expired"}
CallRows == [tab : Tabs \cup {NoCall}, at : CallStages, bearer : AccessTokens,
             retried : BOOLEAN, awaits : Calls \cup {NoCall}, heard : BOOLEAN]
RequestRows == [kind : {"none", "refresh", "login", "logout"}, at : RequestStages,
                token : Nat, fresh : Nat, met : BOOLEAN, heard : BOOLEAN]

SessionTypes ==
  /\ sessions \in Seq(SessionRows)
  /\ cookie \in 0..Len(sessions)
  /\ access \in [Tabs -> AccessTokens]
  /\ refreshing \in [Tabs -> Calls \cup {NoCall}]
  /\ request \in [Requesters -> RequestRows]
  /\ call \in [Calls -> CallRows]

\* What the fields of a request say of each other, and of the sessions.
RequestForm(r) ==
  LET q == request[r] IN
  /\ q.token <= Len(sessions) /\ q.fresh <= Len(sessions)
  /\ q.at = "idle" => q.fresh = 0
  /\ q.fresh # 0 <=> q.at = "answered" /\ q.kind # "logout"
  /\ q.at = "found" => q.kind \in {"refresh", "login"}
  /\ q.at = "found" /\ q.kind = "refresh" => q.token # 0
  /\ q.at = "revoked" =>
       q.kind = "refresh" /\ q.token # 0 /\ sessions[q.token].revoked
  /\ q.at = "refused" => q.token = 0 \/ sessions[q.token].revoked
  /\ r \in Calls /\ q.at # "idle" => q.kind = "refresh"

\* A call that a request renews for waits, and is the one its tab refreshes with.
CallForm(c) ==
  /\ call[c].at # "idle" => call[c].tab \in Tabs
  /\ call[c].at = "waiting" => call[c].heard
  /\ request[c].at # "idle" /\ request[c].heard =>
       /\ call[c].at = "waiting" /\ call[c].awaits = c
       /\ refreshing[call[c].tab] = c

\* Two requests with the same token have met.
Asks(r) == request[r].at # "idle" /\ request[r].kind # "login"

PairsMet == \A r, o \in Requesters :
  r # o /\ Asks(r) /\ Asks(o) /\ request[r].token = request[o].token => request[r].met

\* The session that was given but not yet received is known to nobody else.
FreshIsNew(r) ==
  LET f == request[r].fresh IN
  f # 0 =>
    /\ f # cookie
    /\ \A o \in Requesters : request[o].token # f /\ (o # r => request[o].fresh # f)
    /\ \A x \in DOMAIN sessions : sessions[x].parent # f
    /\ sessions[f].revoked => sessions[f].fates # {}

\* Revoked sessions: ended, lost, or renewed by a request whose answer comes.
Renewing(r, s) == request[r].kind = "refresh" /\ request[r].token = s
                  /\ request[r].at \in {"revoked", "answered"}

CookieExplained ==
  cookie # 0 /\ sessions[cookie].revoked =>
    sessions[cookie].fates # {} \/ \E r \in Requesters : Renewing(r, cookie)

RenewalExplained(r) ==
  LET s == request[r].token IN
  Asks(r) /\ request[r].kind = "refresh" /\ s # 0 /\ sessions[s].revoked =>
    request[r].met \/ sessions[s].fates # {} \/ Renewing(r, s)

SessionShape ==
  /\ SessionTypes
  /\ \A r \in Requesters : RequestForm(r)
  /\ \A c \in Calls : CallForm(c)
  /\ PairsMet
  /\ \A r \in Requesters : FreshIsNew(r)
  /\ \A s \in DOMAIN sessions : sessions[s].parent < s

RefusalInvariant ==
  /\ SessionShape
  /\ CookieExplained
  /\ \A r \in Requesters : RenewalExplained(r)

\* Between session x and its parent p there was a race, or an answer was lost.
Broken(x, p) == sessions[x].met \/ "lost" \in sessions[p].fates

ParentForm(x) == sessions[x].parent # 0 => sessions[sessions[x].parent].revoked

CookieChild(x) ==
  sessions[x].parent = cookie /\ cookie # 0 =>
    Broken(x, cookie) \/ \E r \in Requesters :
       request[r].token = cookie /\ request[r].fresh = x

LogoutChild(o, x) ==
  LET p == request[o].token IN
  request[o].kind = "logout" /\ request[o].at = "sent" /\ p # 0 /\ sessions[x].parent = p =>
    Broken(x, p)

\* X holds the sessions the user ended and all that were renewed from them ...
EndedSet(X) ==
  /\ \A s \in DOMAIN sessions : sessions[s].fates \cap {"logout", "password"} # {} => s \in X
  /\ \A s \in DOMAIN sessions : LET p == sessions[s].parent IN
       p # 0 /\ p \in X /\ ~Broken(s, p) => s \in X

\* ... and none of them lives, or will be renewed without a race.
Spared(X) ==
  /\ \A s \in X : sessions[s].revoked
  /\ \A r \in Requesters :
       request[r].kind = "refresh" /\ request[r].at \in {"found", "revoked"} /\ request[r].token \in X
         => request[r].met

EndingInvariant ==
  /\ SessionShape
  /\ \A x \in DOMAIN sessions : ParentForm(x) /\ CookieChild(x)
  /\ \A o \in Requesters, x \in DOMAIN sessions : LogoutChild(o, x)
  /\ \E X \in SUBSET DOMAIN sessions : EndedSet(X) /\ Spared(X)

(***************************************************************************)
(* The pages: types, the submissions of a dialog, and what a page knows of *)
(* the row when it offers something.                                       *)
(***************************************************************************)
\* Rows and submissions are records of these fields.
IsRow(r) ==
  /\ r = [status |-> r.status, version |-> r.version, own |-> r.own, told |-> r.told]
  /\ r.version \in Nat /\ r.told \in [Pages -> Nat]

IsJob(j) ==
  /\ j = [on |-> j.on, opening |-> j.opening, step |-> j.step, known |-> j.known,
          told |-> j.told, moved |-> j.moved, since |-> j.since, against |-> j.against]
  /\ j.on \in BOOLEAN /\ j.opening \in Nat /\ j.step \in Nat /\ j.known \in Nat
  /\ j.told \in Nat /\ j.moved \in Nat /\ j.since \in Nat /\ IsRow(j.against)

PageTypes ==
  /\ shown \in [Tabs -> BOOLEAN]
  /\ screen \in DOMAIN Screens
  /\ IsRow(row)
  /\ view = [t \in Pages |-> view[t]] /\ \A t \in Pages : view[t].version \in Nat
  /\ form \in [Pages -> [open : Nat, known : Nat, told : Nat, saved : BOOLEAN]]
  /\ docs \in Seq([done : Nat, lost : Nat])
  /\ job = [c \in Calls |-> job[c]] /\ \A c \in Calls : IsJob(job[c])

\* A submission has a dialog that was opened, and a call of its page.
JobForm(c) ==
  /\ job[c].opening <= Len(docs)
  /\ job[c].on => call[c].at # "idle" /\ call[c].tab \in Pages

PageShape ==
  /\ SessionShape
  /\ PageTypes
  /\ \A c \in Calls : JobForm(c)

\* A dialog is open in one page, and its submissions belong to that page.
FormForm(t) ==
  /\ form[t].open <= Len(docs)
  /\ form[t].open # 0 =>
       /\ \A u \in Pages : form[u].open = form[t].open => u = t
       /\ \A c \in Calls : job[c].on /\ job[c].opening = form[t].open => call[c].tab = t

\* The submission may yet make a document: the call goes on, or is followed by one.
Pends(c) ==
  IF call[c].heard
  THEN call[c].at \in {"sent", "waiting"} \/ (call[c].at = "accepted" /\ ~LastOf(c))
  ELSE call[c].at = "sent"

\* The submissions of one opening.
Serves(c, o) == job[c].on /\ job[c].opening = o
PendingOf(o) == {c \in Calls : Serves(c, o) /\ Pends(c)}
Shown(o) == \E t \in Pages : form[t].open = o

\* The page waits for no answer of the opening but those that say it failed.
Answered(o) == \A c \in Calls :
  Serves(c, o) /\ call[c].heard => call[c].at \in {"rejected", "failed"}

\* What is done and what may yet be done; the user may submit again when
\* everything was answered.
OpeningForm(o) ==
  /\ docs[o].done + Cardinality(PendingOf(o)) <= docs[o].lost + 1
  /\ Shown(o) /\ Answered(o) => docs[o].done + Cardinality(PendingOf(o)) <= docs[o].lost

OpeningInvariant ==
  /\ PageShape
  /\ \A t \in Pages : FormForm(t)
  /\ \A o \in DOMAIN docs : OpeningForm(o)

\* The dialog asks for no row.
Untargets == Asked.offered = NoTarget

\* What a page knows of the row when it offered something.
KnowsRow(known, told) ==
  /\ known <= row.version
  /\ ~Untargets => told <= known /\ (known = row.version => Seen(row.status) \in Asked.offered)

\* What a page has fetched, been told and offered.
ViewForm(t) ==
  /\ view[t].version <= row.version /\ row.told[t] <= row.version
  /\ view[t].version # 0 => row.told[t] <= view[t].version
  /\ view[t].version = row.version => view[t].status = Seen(row.status)
  /\ view[t].version = 0 => view[t].status = "UNKNOWN"
  /\ form[t].open # 0 => Asked.dialog /\ KnowsRow(form[t].known, form[t].told)
  /\ form[t].saved => Asked.remembers

\* A submission knows what its page did when it was made.
JobKnows(c) ==
  job[c].on =>
    /\ job[c].step \in 1..Len(Asked.calls)
    /\ KnowsRow(job[c].known, job[c].told)
    /\ job[c].since <= row.version
    /\ job[c].since >= job[c].known \/ ~Asked.dialog
    /\ Untargets => job[c].since = row.version

\* It is rejected by a row that moved since.
RejectedHasCause(c) ==
  LET met == job[c].against IN
  job[c].on /\ call[c].at = "rejected" =>
    \/ met.version > job[c].known /\ met.version > job[c].told
    \/ met.status = "CONFIRMED WITH DRAFT RECEIPT"

OfferInvariant ==
  /\ PageShape
  /\ row.version # 0
  /\ Untargets => row.status = "NONE"
  /\ \A t \in Pages : ViewForm(t)
  /\ \A c \in Calls : JobKnows(c) /\ RejectedHasCause(c)

-----------------------------------------------------------------------------
LEMMA FunctionIsSeq ==
    ASSUME NEW S, NEW n \in Nat, NEW f \in [1..n -> S]
    PROVE  f \in Seq(S) /\ Len(f) = n /\ DOMAIN f = 1..n
OBVIOUS

LEMMA SessionFacts ==
    ASSUME SessionTypes
    PROVE  /\ Len(sessions) \in Nat /\ DOMAIN sessions = 1..Len(sessions)
           /\ \A s \in DOMAIN sessions :
                /\ sessions[s] \in SessionRows
                /\ sessions[s].revoked \in BOOLEAN /\ sessions[s].parent \in Nat
                /\ sessions[s].fates \subseteq Fates /\ sessions[s].met \in BOOLEAN
           /\ \A r \in Requesters :
                /\ request[r] \in RequestRows
                /\ request[r].token \in Nat /\ request[r].fresh \in Nat
                /\ request[r].met \in BOOLEAN /\ request[r].heard \in BOOLEAN
           /\ \A c \in Calls : call[c] \in CallRows /\ call[c].heard \in BOOLEAN
           /\ Calls \subseteq Requesters /\ Tabs \subseteq Requesters
           /\ cookie \in 0..Len(sessions)
<1>1. DOMAIN sessions = 1..Len(sessions) /\ Len(sessions) \in Nat
  BY DEF SessionTypes
<1>2. \A s \in DOMAIN sessions : sessions[s] \in SessionRows
  BY <1>1, ElementOfSeq DEF SessionTypes
<1>3. \A r \in Requesters : request[r] \in RequestRows
  BY DEF SessionTypes
<1>4. \A c \in Calls : call[c] \in CallRows
  BY DEF SessionTypes
<1>. QED
  BY <1>1, <1>2, <1>3, <1>4 DEF SessionTypes, SessionRows, RequestRows, CallRows, Requesters

\* Nothing of a session is taken back.
SessionsGrow ==
  /\ sessions' \in Seq(SessionRows) /\ Len(sessions') = Len(sessions)
  /\ \A s \in DOMAIN sessions :
       /\ sessions'[s].parent = sessions[s].parent
       /\ sessions[s].revoked => sessions'[s].revoked
       /\ sessions[s].fates \subseteq sessions'[s].fates
       /\ sessions[s].met => sessions'[s].met

\* The sessions are replaced by rows that say more.
LEMMA RowsReplaced ==
    ASSUME SessionTypes, NEW f \in [DOMAIN sessions -> SessionRows], sessions' = f,
           \A s \in DOMAIN sessions :
             /\ f[s].parent = sessions[s].parent
             /\ sessions[s].revoked => f[s].revoked
             /\ sessions[s].fates \subseteq f[s].fates
             /\ sessions[s].met => f[s].met
    PROVE  SessionsGrow
<1>1. DOMAIN sessions = 1..Len(sessions) /\ Len(sessions) \in Nat
  BY SessionFacts
<1>2. f \in Seq(SessionRows) /\ Len(f) = Len(sessions)
  BY <1>1, FunctionIsSeq
<1>. QED
  BY <1>2 DEF SessionsGrow

LEMMA MetEffect ==
    ASSUME SessionTypes, NEW r \in Requesters, sessions' = Met(r)
    PROVE  /\ SessionsGrow
           /\ \A s \in DOMAIN sessions :
                /\ sessions'[s].revoked = sessions[s].revoked
                /\ sessions'[s].fates = sessions[s].fates
                /\ (\E o \in Requesters : Meets(r, o) /\ request[o].fresh = s) => sessions'[s].met
<1> DEFINE meets(s) == \E o \in Requesters : Meets(r, o) /\ request[o].fresh = s
           f == [s \in DOMAIN sessions |-> [sessions[s] EXCEPT !.met = @ \/ meets(s)]]
<1>1. sessions' = f
  BY DEF Met
<1>2. ASSUME NEW s \in DOMAIN sessions
      PROVE  /\ f[s] \in SessionRows
             /\ f[s].parent = sessions[s].parent
             /\ f[s].revoked = sessions[s].revoked /\ f[s].fates = sessions[s].fates
             /\ (sessions[s].met \/ meets(s)) => f[s].met
  <2>1. f[s] = [sessions[s] EXCEPT !.met = @ \/ meets(s)]
    OBVIOUS
  <2>2. PICK b \in BOOLEAN : b = meets(s)
    OBVIOUS
  <2>3. f[s] = [sessions[s] EXCEPT !.met = @ \/ b]
    BY <2>1, <2>2
  <2> HIDE DEF f, meets
  <2>4. sessions[s] \in SessionRows
    BY SessionFacts
  <2>. QED
    BY <2>2, <2>3, <2>4 DEF SessionRows
<1>3. f \in [DOMAIN sessions -> SessionRows]
  <2>1. f = [s \in DOMAIN sessions |-> f[s]]
    OBVIOUS
  <2> HIDE DEF f
  <2>. QED
    BY <1>2, <2>1
<1> HIDE DEF f
<1>4. SessionsGrow
  BY <1>1, <1>2, <1>3, RowsReplaced
<1>. QED
  BY <1>1, <1>2, <1>4

LEMMA RevokeEffect ==
    ASSUME SessionTypes, NEW k \in DOMAIN sessions,
           sessions' = [sessions EXCEPT ![k].revoked = TRUE]
    PROVE  /\ SessionsGrow
           /\ \A s \in DOMAIN sessions :
                /\ sessions'[s].revoked <=> (s = k \/ sessions[s].revoked)
                /\ sessions'[s].fates = sessions[s].fates
                /\ sessions'[s].met = sessions[s].met
<1>1. PICK row0 \in SessionRows : row0 = [sessions[k] EXCEPT !.revoked = TRUE]
  BY SessionFacts DEF SessionRows
<1>2. row0.revoked /\ row0.parent = sessions[k].parent /\ row0.fates = sessions[k].fates
        /\ row0.met = sessions[k].met
  BY <1>1, SessionFacts DEF SessionRows
<1>3. sessions' = [sessions EXCEPT ![k] = row0]
  BY <1>1
<1>4. sessions \in Seq(SessionRows) /\ k \in 1..Len(sessions) /\ DOMAIN sessions = 1..Len(sessions)
  BY SessionFacts DEF SessionTypes
<1>5. sessions' \in Seq(SessionRows) /\ Len(sessions') = Len(sessions)
      /\ \A j \in 1..Len(sessions) : sessions'[j] = IF j = k THEN row0 ELSE sessions[j]
  <2> DEFINE f == sessions
  <2>1. f \in Seq(SessionRows) /\ k \in 1..Len(f)
    BY <1>4
  <2> HIDE DEF f
  <2>2. /\ [f EXCEPT ![k] = row0] \in Seq(SessionRows)
        /\ Len([f EXCEPT ![k] = row0]) = Len(f)
        /\ \A j \in 1..Len(f) : [f EXCEPT ![k] = row0][j] = IF j = k THEN row0 ELSE f[j]
    BY <2>1, ExceptSeq
  <2>3. f = sessions
    BY DEF f
  <2>. QED
    BY <1>3, <2>2, <2>3
<1>. QED
  BY <1>2, <1>4, <1>5, SessionFacts DEF SessionsGrow

\* The same for the other ways in which rows are replaced.
LEMMA LostEffect ==
    ASSUME SessionTypes, NEW k, sessions' = Lost(k)
    PROVE  /\ SessionsGrow
           /\ \A s \in DOMAIN sessions :
                /\ sessions'[s].revoked = sessions[s].revoked
                /\ sessions'[s].met = sessions[s].met
                /\ s = k => "lost" \in sessions'[s].fates
                /\ \A x \in {"logout", "password"} :
                     x \in sessions'[s].fates => x \in sessions[s].fates
<1> DEFINE f == [x \in DOMAIN sessions |->
                   IF x = k THEN [sessions[x] EXCEPT !.fates = @ \cup {"lost"}] ELSE sessions[x]]
<1>1. sessions' = f
  BY DEF Lost
<1>2. ASSUME NEW s \in DOMAIN sessions
      PROVE  /\ f[s] \in SessionRows
             /\ f[s].parent = sessions[s].parent /\ f[s].revoked = sessions[s].revoked
             /\ f[s].met = sessions[s].met
             /\ f[s].fates = IF s = k THEN sessions[s].fates \cup {"lost"} ELSE sessions[s].fates
  <2>1. sessions[s] \in SessionRows
    BY SessionFacts
  <2>. QED
    BY <2>1 DEF SessionRows, Fates
<1>3. f \in [DOMAIN sessions -> SessionRows]
  <2>1. f = [s \in DOMAIN sessions |-> f[s]]
    OBVIOUS
  <2> HIDE DEF f
  <2>. QED
    BY <1>2, <2>1
<1> HIDE DEF f
<1>4. SessionsGrow
  BY <1>1, <1>2, <1>3, RowsReplaced
<1>. QED
  BY <1>1, <1>2, <1>4

LEMMA LogoutEffect ==
    ASSUME SessionTypes, NEW r \in Requesters,
           sessions' = [s \in DOMAIN sessions |->
             [sessions[s] EXCEPT !.revoked = @ \/ Ends(r, s),
                !.fates = IF s = request[r].token THEN @ \cup {"logout"} ELSE @]]
    PROVE  /\ SessionsGrow
           /\ \A s \in DOMAIN sessions :
                /\ sessions'[s].revoked <=> (s = request[r].token \/ sessions[s].revoked)
                /\ sessions'[s].fates = IF s = request[r].token
                                        THEN sessions[s].fates \cup {"logout"} ELSE sessions[s].fates
                /\ sessions'[s].met = sessions[s].met
<1> DEFINE f == [s \in DOMAIN sessions |->
             [sessions[s] EXCEPT !.revoked = @ \/ Ends(r, s),
                !.fates = IF s = request[r].token THEN @ \cup {"logout"} ELSE @]]
<1>2. ASSUME NEW s \in DOMAIN sessions
      PROVE  /\ f[s] \in SessionRows
             /\ f[s].parent = sessions[s].parent /\ f[s].met = sessions[s].met
             /\ f[s].revoked <=> (s = request[r].token \/ sessions[s].revoked)
             /\ f[s].fates = IF s = request[r].token
                             THEN sessions[s].fates \cup {"logout"} ELSE sessions[s].fates
  <2>1. sessions[s] \in SessionRows
    BY SessionFacts
  <2>2. PICK b \in BOOLEAN : b = (s = request[r].token \/ sessions[s].revoked)
    OBVIOUS
  <2>3. PICK fs \in SUBSET Fates : fs = IF s = request[r].token THEN sessions[s].fates \cup {"logout"}
                                        ELSE sessions[s].fates
    BY <2>1 DEF SessionRows, Fates
  <2>4. f[s] = [sessions[s] EXCEPT !.revoked = b, !.fates = fs]
    <3>1. (sessions[s].revoked \/ Ends(r, s)) = b
      BY <2>1, <2>2 DEF Ends, SessionRows
    <3>. QED
      BY <2>3, <3>1
  <2> HIDE DEF f
  <2>5. PICK r1 \in SessionRows : r1 = [sessions[s] EXCEPT !.revoked = b]
    BY <2>1 DEF SessionRows
  <2>6. f[s] = [r1 EXCEPT !.fates = fs]
    BY <2>4, <2>5
  <2>7. r1.parent = sessions[s].parent /\ r1.met = sessions[s].met /\ r1.revoked = b
    BY <2>1, <2>5 DEF SessionRows
  <2>. QED
    BY <2>2, <2>3, <2>6, <2>7 DEF SessionRows
<1>3. f \in [DOMAIN sessions -> SessionRows]
  <2>1. f = [s \in DOMAIN sessions |-> f[s]]
    OBVIOUS
  <2> HIDE DEF f
  <2>. QED
    BY <1>2, <2>1
<1>1. sessions' = f
  OBVIOUS
<1> HIDE DEF f
<1>4. SessionsGrow
  BY <1>1, <1>2, <1>3, RowsReplaced
<1>. QED
  BY <1>1, <1>2, <1>4

LEMMA PasswordEffect ==
    ASSUME SessionTypes,
           sessions' = [s \in DOMAIN sessions |->
             IF Live(s) THEN [sessions[s] EXCEPT !.revoked = TRUE, !.fates = @ \cup {"password"}]
             ELSE sessions[s]]
    PROVE  /\ SessionsGrow
           /\ \A s \in DOMAIN sessions :
                /\ sessions'[s].revoked
                /\ sessions'[s].fates = IF sessions[s].revoked THEN sessions[s].fates
                                        ELSE sessions[s].fates \cup {"password"}
                /\ sessions'[s].met = sessions[s].met
<1> DEFINE f == [s \in DOMAIN sessions |->
             IF Live(s) THEN [sessions[s] EXCEPT !.revoked = TRUE, !.fates = @ \cup {"password"}]
             ELSE sessions[s]]
<1>2. ASSUME NEW s \in DOMAIN sessions
      PROVE  /\ f[s] \in SessionRows
             /\ f[s].parent = sessions[s].parent /\ f[s].met = sessions[s].met
             /\ f[s].revoked
             /\ f[s].fates = IF sessions[s].revoked THEN sessions[s].fates
                             ELSE sessions[s].fates \cup {"password"}
  <2>1. sessions[s] \in SessionRows
    BY SessionFacts
  <2>2. CASE sessions[s].revoked
    <3>1. f[s] = sessions[s]
      BY <2>2 DEF Live
    <3>. QED
      BY <2>1, <2>2, <3>1 DEF SessionRows
  <2>3. CASE ~sessions[s].revoked
    <3>1. f[s] = [sessions[s] EXCEPT !.revoked = TRUE, !.fates = @ \cup {"password"}]
      BY <2>3 DEF Live
    <3> HIDE DEF f
    <3>2. PICK fs \in SUBSET Fates : fs = sessions[s].fates \cup {"password"}
      BY <2>1 DEF SessionRows, Fates
    <3>3. PICK r1 \in SessionRows : r1 = [sessions[s] EXCEPT !.revoked = TRUE]
      BY <2>1 DEF SessionRows
    <3>4. f[s] = [r1 EXCEPT !.fates = fs]
      BY <3>1, <3>2, <3>3
    <3>5. r1.parent = sessions[s].parent /\ r1.met = sessions[s].met /\ r1.revoked
      BY <2>1, <3>3 DEF SessionRows
    <3>. QED
      BY <2>3, <3>2, <3>4, <3>5 DEF SessionRows
  <2>. QED
    BY <2>2, <2>3
<1>3. f \in [DOMAIN sessions -> SessionRows]
  <2>1. f = [s \in DOMAIN sessions |-> f[s]]
    OBVIOUS
  <2> HIDE DEF f
  <2>. QED
    BY <1>2, <2>1
<1>1. sessions' = f
  OBVIOUS
<1> HIDE DEF f
<1>4. SessionsGrow
  BY <1>1, <1>2, <1>3, RowsReplaced
<1>. QED
  BY <1>1, <1>2, <1>4

LEMMA AppendEffect ==
    ASSUME SessionTypes, NEW p \in Nat, NEW m \in BOOLEAN,
           sessions' = Append(sessions, NewSession(p, m))
    PROVE  /\ sessions' \in Seq(SessionRows) /\ Len(sessions') = Len(sessions) + 1
           /\ DOMAIN sessions' = DOMAIN sessions \cup {Len(sessions) + 1}
           /\ \A s \in DOMAIN sessions : sessions'[s] = sessions[s]
           /\ sessions'[Len(sessions) + 1].parent = p /\ sessions'[Len(sessions) + 1].met = m
           /\ ~sessions'[Len(sessions) + 1].revoked /\ sessions'[Len(sessions) + 1].fates = {}
<1>1. NewSession(p, m) \in SessionRows
  BY DEF NewSession, SessionRows, Fates
<1>2. sessions \in Seq(SessionRows) /\ DOMAIN sessions = 1..Len(sessions) /\ Len(sessions) \in Nat
  BY SessionFacts DEF SessionTypes
<1>3. /\ sessions' \in Seq(SessionRows) /\ Len(sessions') = Len(sessions) + 1
      /\ \A i \in 1..Len(sessions) : sessions'[i] = sessions[i]
      /\ sessions'[Len(sessions) + 1] = NewSession(p, m)
  BY <1>1, <1>2, AppendProperties
<1>4. DOMAIN sessions' = 1..Len(sessions')
  BY <1>3
<1>5. DOMAIN sessions' = DOMAIN sessions \cup {Len(sessions) + 1}
  BY <1>2, <1>3, <1>4
<1>6. /\ NewSession(p, m).parent = p /\ NewSession(p, m).met = m
      /\ NewSession(p, m).revoked = FALSE /\ NewSession(p, m).fates = {}
  BY DEF NewSession
<1>. QED
  BY <1>2, <1>3, <1>5, <1>6

-----------------------------------------------------------------------------
\* Nobody asks anew: a request is over, or goes on with what it has.
RequestsCalm ==
  /\ request' \in [Requesters -> RequestRows]
  /\ \A o \in Requesters :
       \/ request'[o] = Idle
       \/ /\ request[o].at # "idle" <=> request'[o].at # "idle"
          /\ request'[o].kind = request[o].kind /\ request'[o].token = request[o].token
          /\ request'[o].fresh = request[o].fresh
          /\ request[o].met => request'[o].met
          /\ request'[o].heard => request[o].heard

LEMMA IdleFacts ==
    /\ Idle \in RequestRows
    /\ Idle.kind = "none" /\ Idle.at = "idle" /\ Idle.token = 0 /\ Idle.fresh = 0
    /\ Idle.met = FALSE /\ Idle.heard = TRUE
BY DEF Idle, RequestRows, RequestStages

LEMMA RequestsSame == ASSUME SessionTypes, request' = request PROVE RequestsCalm
BY DEF RequestsCalm, SessionTypes

LEMMA StepEffect ==
    ASSUME SessionTypes, NEW r \in Requesters, NEW at \in RequestStages, at # "idle",
           request[r].at # "idle", request' = [request EXCEPT ![r].at = at]
    PROVE  /\ RequestsCalm
           /\ \A o \in Requesters :
                /\ request'[o].kind = request[o].kind /\ request'[o].token = request[o].token
                /\ request'[o].fresh = request[o].fresh /\ request'[o].met = request[o].met
                /\ request'[o].heard = request[o].heard
                /\ request'[o].at = IF o = r THEN at ELSE request[o].at
<1>1. PICK q \in RequestRows : q = [request[r] EXCEPT !.at = at]
  BY SessionFacts DEF RequestRows
<1>2. /\ q.kind = request[r].kind /\ q.token = request[r].token /\ q.fresh = request[r].fresh
      /\ q.met = request[r].met /\ q.heard = request[r].heard /\ q.at = at
  BY <1>1, SessionFacts DEF RequestRows
<1>3. request' = [request EXCEPT ![r] = q]
  BY <1>1
<1>4. \A o \in Requesters : request'[o] = IF o = r THEN q ELSE request[o]
  BY <1>3 DEF SessionTypes
<1>5. request' \in [Requesters -> RequestRows]
  BY <1>3 DEF SessionTypes
<1>. QED
  BY <1>2, <1>4, <1>5 DEF RequestsCalm

LEMMA OverEffect ==
    ASSUME SessionTypes, NEW r \in Requesters, request' = [request EXCEPT ![r] = Idle]
    PROVE  /\ RequestsCalm
           /\ \A o \in Requesters : request'[o] = IF o = r THEN Idle ELSE request[o]
<1>1. request' \in [Requesters -> RequestRows]
  BY IdleFacts DEF SessionTypes
<1>2. \A o \in Requesters : request'[o] = IF o = r THEN Idle ELSE request[o]
  BY DEF SessionTypes
<1>. QED
  BY <1>1, <1>2 DEF RequestsCalm

LEMMA CreateEffect ==
    ASSUME SessionTypes, NEW r \in Requesters, NEW f \in Nat,
           request' = [request EXCEPT ![r].at = "answered", ![r].fresh = f]
    PROVE  /\ request' \in [Requesters -> RequestRows]
           /\ \A o \in Requesters :
                /\ request'[o].kind = request[o].kind /\ request'[o].token = request[o].token
                /\ request'[o].met = request[o].met /\ request'[o].heard = request[o].heard
                /\ request'[o].at = IF o = r THEN "answered" ELSE request[o].at
                /\ request'[o].fresh = IF o = r THEN f ELSE request[o].fresh
<1>1. PICK q \in RequestRows : q = [request[r] EXCEPT !.at = "answered"]
  BY SessionFacts DEF RequestRows, RequestStages
<1>2. /\ q.kind = request[r].kind /\ q.token = request[r].token
      /\ q.met = request[r].met /\ q.heard = request[r].heard /\ q.at = "answered"
  BY <1>1, SessionFacts DEF RequestRows
<1>3. PICK p \in RequestRows : p = [q EXCEPT !.fresh = f]
  BY <1>1 DEF RequestRows
<1>4. /\ p.kind = request[r].kind /\ p.token = request[r].token
      /\ p.met = request[r].met /\ p.heard = request[r].heard /\ p.at = "answered"
      /\ p.fresh = f
  BY <1>2, <1>3 DEF RequestRows
<1>5. request' = [request EXCEPT ![r] = p]
  BY <1>1, <1>3 DEF SessionTypes
<1>6. \A o \in Requesters : request'[o] = IF o = r THEN p ELSE request[o]
  BY <1>5 DEF SessionTypes
<1>7. request' \in [Requesters -> RequestRows]
  BY <1>5 DEF SessionTypes
<1>. QED
  BY <1>4, <1>6, <1>7

LEMMA SentEffect ==
    ASSUME SessionTypes, NEW r \in Requesters, NEW kind \in {"refresh", "login", "logout"},
           request' = Sent(r, kind)
    PROVE  /\ request' \in [Requesters -> RequestRows]
           /\ \A o \in Requesters \ {r} :
                /\ request'[o].kind = request[o].kind /\ request'[o].token = request[o].token
                /\ request'[o].fresh = request[o].fresh /\ request'[o].heard = request[o].heard
                /\ request'[o].at = request[o].at
                /\ request'[o].met <=> request[o].met \/ (kind # "login" /\ Meets(r, o))
           /\ request'[r].kind = kind /\ request'[r].at = "sent" /\ request'[r].token = cookie
           /\ request'[r].fresh = 0 /\ request'[r].heard = TRUE
           /\ request'[r].met <=> \E x \in Requesters : Meets(r, x)
<1>1. ASSUME NEW o \in Requesters, o # r
      PROVE  /\ request'[o] \in RequestRows
             /\ request'[o].kind = request[o].kind /\ request'[o].token = request[o].token
             /\ request'[o].fresh = request[o].fresh /\ request'[o].heard = request[o].heard
             /\ request'[o].at = request[o].at
             /\ request'[o].met <=> request[o].met \/ (kind # "login" /\ Meets(r, o))
  <2>1. request[o] \in RequestRows
    BY SessionFacts
  <2>2. request'[o] = IF kind # "login" /\ Meets(r, o) THEN [request[o] EXCEPT !.met = TRUE]
                      ELSE request[o]
    BY <1>1 DEF Sent
  <2>3. CASE kind # "login" /\ Meets(r, o)
    <3>1. request'[o] = [request[o] EXCEPT !.met = TRUE]
      BY <2>2, <2>3
    <3>. QED
      BY <2>1, <2>3, <3>1 DEF RequestRows
  <2>4. CASE ~(kind # "login" /\ Meets(r, o))
    <3>1. request'[o] = request[o]
      BY <2>2, <2>4
    <3>. QED
      BY <2>1, <2>4, <3>1
  <2>. QED
    BY <2>3, <2>4
<1>2. PICK m \in BOOLEAN : m = \E x \in Requesters : Meets(r, x)
  OBVIOUS
<1>3. request'[r] = [Idle EXCEPT !.kind = kind, !.at = "sent", !.token = cookie, !.met = m]
  BY <1>2 DEF Sent
<1>4. request'[r] = [kind |-> kind, at |-> "sent", token |-> cookie, fresh |-> 0, met |-> m,
                     heard |-> TRUE]
  BY <1>3 DEF Idle
<1>5. cookie \in Nat
  BY SessionFacts
<1>6. request'[r] \in RequestRows
  BY <1>4, <1>5 DEF RequestRows, RequestStages
<1>7. request' \in [Requesters -> RequestRows]
  <2>1. request' = [o \in Requesters |-> request'[o]]
    BY DEF Sent
  <2>. QED
    BY <1>1, <1>6, <2>1
<1>8. /\ request'[r].kind = kind /\ request'[r].at = "sent" /\ request'[r].token = cookie
      /\ request'[r].fresh = 0 /\ request'[r].heard = TRUE /\ request'[r].met = m
  BY <1>4
<1>. QED
  BY <1>1, <1>2, <1>7, <1>8

-----------------------------------------------------------------------------
\* The calls that wait for the renewal of r are given another stage.
LEMMA WaitingEffect ==
    ASSUME SessionTypes, NEW r, NEW at \in CallStages, call' = [c \in Calls |-> call'[c]],
           \A c \in Calls :
             IF c \in Waiting(r)
             THEN \E b \in AccessTokens : call'[c] = [call[c] EXCEPT !.at = at, !.bearer = b]
             ELSE call'[c] = call[c]
    PROVE  /\ call' \in [Calls -> CallRows]
           /\ \A c \in Calls :
                /\ call'[c].tab = call[c].tab /\ call'[c].awaits = call[c].awaits
                /\ call'[c].heard = call[c].heard
                /\ call'[c].at = IF c \in Waiting(r) THEN at ELSE call[c].at
<1>1. ASSUME NEW c \in Calls
      PROVE  /\ call'[c] \in CallRows
             /\ call'[c].tab = call[c].tab /\ call'[c].awaits = call[c].awaits
             /\ call'[c].heard = call[c].heard
             /\ call'[c].at = IF c \in Waiting(r) THEN at ELSE call[c].at
  <2>1. call[c] \in CallRows
    BY SessionFacts
  <2>2. CASE c \in Waiting(r)
    <3>1. PICK b \in AccessTokens : call'[c] = [call[c] EXCEPT !.at = at, !.bearer = b]
      BY <2>2
    <3>3. PICK q \in CallRows : q = [call[c] EXCEPT !.at = at]
      BY <2>1 DEF CallRows
    <3>4. call'[c] = [q EXCEPT !.bearer = b]
      BY <3>1, <3>3
    <3>5. /\ q.tab = call[c].tab /\ q.awaits = call[c].awaits /\ q.heard = call[c].heard
          /\ q.at = at
      BY <2>1, <3>3 DEF CallRows
    <3>. QED
      BY <2>2, <3>4, <3>5 DEF CallRows
  <2>3. CASE c \notin Waiting(r)
    BY <2>1, <2>3
  <2>. QED
    BY <2>2, <2>3
<1>. QED
  BY <1>1

LEMMA WaitingFailEffect ==
    ASSUME SessionTypes, NEW r, WaitingFail(r)
    PROVE  /\ call' \in [Calls -> CallRows]
           /\ \A c \in Calls :
                /\ call'[c].tab = call[c].tab /\ call'[c].awaits = call[c].awaits
                /\ call'[c].heard = call[c].heard
                /\ call'[c].at = IF c \in Waiting(r) THEN "failed" ELSE call[c].at
<1>1. ASSUME NEW c \in Calls, c \in Waiting(r)
      PROVE  \E b \in AccessTokens : call'[c] = [call[c] EXCEPT !.at = "failed", !.bearer = b]
  <2>1. call[c] \in CallRows
    BY SessionFacts
  <2>2. PICK b \in AccessTokens : b = call[c].bearer
    BY <2>1 DEF CallRows
  <2>3. call'[c] = [call[c] EXCEPT !.at = "failed"]
    BY <1>1 DEF WaitingFail
  <2>4. [call[c] EXCEPT !.at = "failed"] = [call[c] EXCEPT !.at = "failed", !.bearer = b]
    BY <2>1, <2>2 DEF CallRows
  <2>. QED
    BY <2>3, <2>4
<1>2. call' = [c \in Calls |-> call'[c]] /\ \A c \in Calls : c \notin Waiting(r) => call'[c] = call[c]
  BY DEF WaitingFail
<1>3. "failed" \in CallStages
  BY DEF CallStages
<1>. QED
  BY <1>1, <1>2, <1>3, WaitingEffect

LEMMA ForgottenEffect ==
    ASSUME SessionTypes, NEW t \in Tabs, Forgotten(t)
    PROVE  /\ RequestsCalm
           /\ \A o \in Requesters :
                /\ request'[o].kind = request[o].kind /\ request'[o].token = request[o].token
                /\ request'[o].fresh = request[o].fresh /\ request'[o].at = request[o].at
                /\ request'[o].met = request[o].met
                /\ TabOf(o) = t /\ request'[o].at # "idle" => ~request'[o].heard
           /\ call' \in [Calls -> CallRows]
           /\ \A c \in Calls :
                /\ call'[c].tab = call[c].tab /\ call'[c].awaits = call[c].awaits
                /\ call[c].tab # t => call'[c] = call[c]
                /\ call[c].tab = t =>
                     /\ call'[c].heard = FALSE
                     /\ call'[c].at = IF call[c].at = "waiting" THEN "failed" ELSE call[c].at
           /\ refreshing' \in [Tabs -> Calls \cup {NoCall}]
           /\ \A u \in Tabs : refreshing'[u] = IF u = t THEN NoCall ELSE refreshing[u]
           /\ access' \in [Tabs -> AccessTokens]
<1>1. ASSUME NEW o \in Requesters
      PROVE  /\ request'[o] \in RequestRows
             /\ request'[o].kind = request[o].kind /\ request'[o].token = request[o].token
             /\ request'[o].fresh = request[o].fresh /\ request'[o].at = request[o].at
             /\ request'[o].met = request[o].met
             /\ TabOf(o) = t /\ request'[o].at # "idle" => ~request'[o].heard
             /\ request'[o].heard => request[o].heard
  <2>1. request[o] \in RequestRows
    BY SessionFacts
  <2>2. request'[o] = IF TabOf(o) = t /\ o \in InFlight THEN [request[o] EXCEPT !.heard = FALSE]
                      ELSE request[o]
    BY DEF Forgotten
  <2>3. CASE TabOf(o) = t /\ o \in InFlight
    BY <2>1, <2>2, <2>3 DEF RequestRows
  <2>4. CASE ~(TabOf(o) = t /\ o \in InFlight)
    BY <2>1, <2>2, <2>4 DEF InFlight
  <2>. QED
    BY <2>3, <2>4
<1>2. request' \in [Requesters -> RequestRows]
  <2>1. request' = [o \in Requesters |-> request'[o]]
    BY DEF Forgotten
  <2>. QED
    BY <1>1, <2>1
<1>3. RequestsCalm
  BY <1>1, <1>2 DEF RequestsCalm
<1>4. ASSUME NEW c \in Calls
      PROVE  /\ call'[c] \in CallRows
             /\ call'[c].tab = call[c].tab /\ call'[c].awaits = call[c].awaits
             /\ call[c].tab # t => call'[c] = call[c]
             /\ call[c].tab = t =>
                  /\ call'[c].heard = FALSE
                  /\ call'[c].at = IF call[c].at = "waiting" THEN "failed" ELSE call[c].at
  <2>1. call[c] \in CallRows
    BY SessionFacts
  <2>2. CASE call[c].tab # t
    BY <2>1, <2>2 DEF Forgotten
  <2>3. CASE call[c].tab = t
    <3>1. PICK a \in CallStages : a = IF call[c].at = "waiting" THEN "failed" ELSE call[c].at
      BY <2>1 DEF CallRows, CallStages
    <3>2. call'[c] = [call[c] EXCEPT !.heard = FALSE, !.at = a]
      BY <2>3, <3>1 DEF Forgotten
    <3>3. PICK q \in CallRows : q = [call[c] EXCEPT !.heard = FALSE]
      BY <2>1 DEF CallRows
    <3>4. call'[c] = [q EXCEPT !.at = a]
      BY <3>2, <3>3
    <3>5. q.tab = call[c].tab /\ q.awaits = call[c].awaits /\ q.heard = FALSE
      BY <2>1, <3>3 DEF CallRows
    <3>. QED
      BY <2>3, <3>1, <3>4, <3>5 DEF CallRows
  <2>. QED
    BY <2>2, <2>3
<1>5. call' \in [Calls -> CallRows]
  <2>1. call' = [c \in Calls |-> call'[c]]
    BY DEF Forgotten
  <2>. QED
    BY <1>4, <2>1
<1>6. /\ refreshing' \in [Tabs -> Calls \cup {NoCall}]
      /\ \A u \in Tabs : refreshing'[u] = IF u = t THEN NoCall ELSE refreshing[u]
  BY DEF Forgotten, SessionTypes
<1>7. access' \in [Tabs -> AccessTokens]
  BY DEF Forgotten, SessionTypes, AccessTokens
<1>. QED
  BY <1>1, <1>3, <1>4, <1>5, <1>6, <1>7

\* One call is replaced.
LEMMA CallEffect ==
    ASSUME SessionTypes, NEW c \in Calls, NEW q \in CallRows, call' = [call EXCEPT ![c] = q]
    PROVE  /\ call' \in [Calls -> CallRows]
           /\ \A d \in Calls : call'[d] = IF d = c THEN q ELSE call[d]
BY DEF SessionTypes

LEMMA OverRefreshing ==
    ASSUME SessionTypes, NEW r, refreshing' = RefreshOver(r)
    PROVE  /\ refreshing' \in [Tabs -> Calls \cup {NoCall}]
           /\ \A t \in Tabs : refreshing'[t] = IF refreshing[t] = r THEN NoCall ELSE refreshing[t]
BY DEF SessionTypes, RefreshOver

-----------------------------------------------------------------------------
(* What the session actions keep, whatever they do else.                   *)

LEMMA PairsKept ==
    ASSUME SessionTypes, PairsMet, RequestsCalm
    PROVE  PairsMet'
<1> SUFFICES ASSUME NEW r \in Requesters, NEW o \in Requesters, r # o,
                    request'[r].at # "idle", request'[r].kind # "login",
                    request'[o].at # "idle", request'[o].kind # "login",
                    request'[r].token = request'[o].token
             PROVE  request'[r].met
  BY DEF PairsMet, Asks
<1>1. Asks(r) /\ Asks(o) /\ request[r].token = request[o].token
  BY IdleFacts DEF RequestsCalm, Asks
<1>2. request[r].met
  BY <1>1 DEF PairsMet
<1>. QED
  BY <1>2, IdleFacts DEF RequestsCalm

LEMMA FormKept ==
    ASSUME SessionTypes, SessionsGrow, NEW o \in Requesters, RequestForm(o),
           \/ request'[o] = Idle
           \/ /\ request'[o].kind = request[o].kind /\ request'[o].token = request[o].token
              /\ request'[o].fresh = request[o].fresh /\ request'[o].at = request[o].at
    PROVE  RequestForm(o)'
<1>1. CASE request'[o] = Idle
  BY <1>1, IdleFacts, SessionFacts DEF RequestForm, SessionsGrow
<1>2. CASE /\ request'[o].kind = request[o].kind /\ request'[o].token = request[o].token
           /\ request'[o].fresh = request[o].fresh /\ request'[o].at = request[o].at
  <2>1. request[o].token # 0 => request[o].token \in DOMAIN sessions
    BY SessionFacts DEF RequestForm
  <2>2. request[o].token # 0 /\ sessions[request[o].token].revoked
          => sessions'[request'[o].token].revoked
    BY <1>2, <2>1 DEF SessionsGrow
  <2>. QED
    BY <1>2, <2>2 DEF RequestForm, SessionsGrow
<1>. QED
  BY <1>1, <1>2

LEMMA FreshKept ==
    ASSUME SessionTypes, \A r \in Requesters : RequestForm(r),
           \A r \in Requesters : FreshIsNew(r),
           RequestsCalm, SessionsGrow,
           \A r \in Requesters : request'[r].fresh # 0 => cookie' # request'[r].fresh,
           \A s \in DOMAIN sessions : sessions'[s].revoked =>
             \/ sessions[s].revoked \/ sessions'[s].fates # {}
             \/ \E o \in Requesters : request[o].token = s
    PROVE  \A r \in Requesters : FreshIsNew(r)'
<1> SUFFICES ASSUME NEW r \in Requesters, request'[r].fresh # 0
             PROVE  FreshIsNew(r)'
  BY DEF FreshIsNew
<1>1. PICK f \in Nat : f = request'[r].fresh /\ f = request[r].fresh /\ f \in DOMAIN sessions
  <2>1. request'[r].fresh = request[r].fresh
    BY IdleFacts DEF RequestsCalm
  <2>. QED
    BY <2>1, SessionFacts DEF RequestForm
<1>2. /\ \A o \in Requesters : request[o].token # f /\ (o # r => request[o].fresh # f)
      /\ \A x \in DOMAIN sessions : sessions[x].parent # f
      /\ sessions[f].revoked => sessions[f].fates # {}
  BY <1>1 DEF FreshIsNew
<1>3. \A o \in Requesters : request'[o].token # f /\ (o # r => request'[o].fresh # f)
  BY <1>1, <1>2, IdleFacts DEF RequestsCalm
<1>4. DOMAIN sessions' = DOMAIN sessions
  BY SessionFacts DEF SessionsGrow
<1>5. \A x \in DOMAIN sessions' : sessions'[x].parent # f
  BY <1>2, <1>4 DEF SessionsGrow
<1>6. sessions'[f].revoked => sessions'[f].fates # {}
  <2>1. sessions[f].fates \subseteq sessions'[f].fates
    BY <1>1 DEF SessionsGrow
  <2>. QED
    BY <1>1, <1>2, <2>1
<1>. QED
  BY <1>1, <1>3, <1>5, <1>6 DEF FreshIsNew

LEMMA ParentsKept ==
    ASSUME SessionShape, SessionsGrow
    PROVE  \A s \in DOMAIN sessions' : sessions'[s].parent < s
<1>1. DOMAIN sessions' = DOMAIN sessions
  BY SessionFacts DEF SessionsGrow, SessionShape
<1>. QED
  BY <1>1 DEF SessionsGrow, SessionShape

\* A call keeps its form while its requests go on and nobody waits differently.
LEMMA CallKept ==
    ASSUME SessionTypes, NEW c \in Calls, CallForm(c), RequestsCalm,
           call'[c] = call[c], refreshing' = refreshing
    PROVE  CallForm(c)'
<1>1. c \in Requesters
  BY DEF Requesters
<1>2. request'[c].at # "idle" /\ request'[c].heard => request[c].at # "idle" /\ request[c].heard
  BY <1>1, IdleFacts DEF RequestsCalm
<1>. QED
  BY <1>2 DEF CallForm

\* An action of the server alone, which goes one step with the request of r.
LEMMA ServerStep ==
    ASSUME SessionShape, SessionsGrow, NEW r \in Requesters, RequestsCalm,
           cookie' = cookie, access' = access, refreshing' = refreshing, call' = call,
           \A o \in Requesters \ {r} : \/ request'[o] = Idle
                                       \/ /\ request'[o].kind = request[o].kind
                                          /\ request'[o].token = request[o].token
                                          /\ request'[o].fresh = request[o].fresh
                                          /\ request'[o].at = request[o].at,
           RequestForm(r)',
           \A s \in DOMAIN sessions : sessions'[s].revoked =>
             \/ sessions[s].revoked \/ sessions'[s].fates # {}
             \/ \E o \in Requesters : request[o].token = s
    PROVE  SessionShape'
<1> USE DEF SessionShape
<1>1. \A o \in Requesters : RequestForm(o)'
  BY FormKept
<1>2. \A c \in Calls : CallForm(c)'
  BY CallKept
<1>3. PairsMet'
  BY PairsKept
<1>4. \A o \in Requesters : FreshIsNew(o)'
  <2>1. \A o \in Requesters : request'[o].fresh # 0 => cookie' # request'[o].fresh
    BY IdleFacts DEF RequestsCalm, FreshIsNew
  <2>. QED
    BY <2>1, FreshKept
<1>5. SessionTypes'
  BY DEF SessionTypes, SessionsGrow, RequestsCalm
<1>20. \A s \in DOMAIN sessions' : sessions'[s].parent < s
  BY ParentsKept
<1>. QED
  BY <1>1, <1>2, <1>3, <1>4, <1>5, <1>20

-----------------------------------------------------------------------------
(* The shape of sessions, requests and calls, action by action.            *)

LEMMA SessionsSame == ASSUME SessionTypes, sessions' = sessions PROVE SessionsGrow
BY SessionFacts DEF SessionsGrow, SessionTypes

LEMMA FindShape == ASSUME SessionShape, NEW r \in Requesters, Find(r) PROVE SessionShape'
<1>1. SessionTypes /\ RequestForm(r)
  BY DEF SessionShape
<1>2. PICK at \in {"found", "refused"} :
        at = IF request[r].kind = "login" \/ Live(request[r].token) THEN "found" ELSE "refused"
  OBVIOUS
<1>3. request' = [request EXCEPT ![r].at = at] /\ sessions' = sessions /\ ServerOnly
      /\ request[r].at = "sent" /\ request[r].kind \in {"refresh", "login"}
  BY <1>2 DEF Find, Step
<1>4. SessionsGrow
  BY <1>1, <1>3, SessionsSame
<1>5. at \in RequestStages /\ at # "idle" /\ request[r].at # "idle"
  BY <1>3 DEF RequestStages
<1>6. /\ RequestsCalm
      /\ \A o \in Requesters :
           /\ request'[o].kind = request[o].kind /\ request'[o].token = request[o].token
           /\ request'[o].fresh = request[o].fresh
           /\ request'[o].at = IF o = r THEN at ELSE request[o].at
  BY <1>1, <1>3, <1>5, StepEffect
<1>7. RequestForm(r)'
  <2>1. request[r].token # 0 => request[r].token \in DOMAIN sessions
    BY <1>1, SessionFacts DEF RequestForm
  <2>2. at = "found" /\ request[r].kind = "refresh" => Live(request[r].token)
    BY <1>2
  <2>3. at = "refused" => request[r].token = 0 \/ sessions[request[r].token].revoked
    BY <1>2, <2>1 DEF Live
  <2>4. 0 \notin DOMAIN sessions
    BY <1>1, SessionFacts
  <2>. QED
    BY <1>1, <1>2, <1>3, <1>6, <2>2, <2>3, <2>4 DEF RequestForm, Live
<1>. QED
  BY <1>3, <1>4, <1>6, <1>7, ServerStep DEF ServerOnly

LEMMA RevokeShape == ASSUME SessionShape, NEW r \in Requesters, Revoke(r) PROVE SessionShape'
<1>1. SessionTypes /\ RequestForm(r)
  BY DEF SessionShape
<1>2. request[r].at = "found" /\ request[r].kind = "refresh" /\ ServerOnly
  BY DEF Revoke
<1>3. request[r].token \in DOMAIN sessions /\ request[r].token # 0
  BY <1>1, <1>2, SessionFacts DEF RequestForm
<1>4. /\ SessionsGrow
      /\ \A s \in DOMAIN sessions :
           sessions'[s].revoked <=> (s = request[r].token \/ sessions[s].revoked)
  BY <1>1, <1>3, RevokeEffect DEF Revoke
<1>5. request' = [request EXCEPT ![r].at = "revoked"]
  BY DEF Revoke, Step
<1>6. /\ RequestsCalm
      /\ \A o \in Requesters :
           /\ request'[o].kind = request[o].kind /\ request'[o].token = request[o].token
           /\ request'[o].fresh = request[o].fresh
           /\ request'[o].at = IF o = r THEN "revoked" ELSE request[o].at
  <2>1. "revoked" \in RequestStages /\ "revoked" # "idle" /\ request[r].at # "idle"
    BY <1>2 DEF RequestStages
  <2>. QED
    BY <1>1, <1>5, <2>1, StepEffect
<1>7. RequestForm(r)'
  BY <1>1, <1>2, <1>3, <1>4, <1>6 DEF RequestForm, SessionsGrow
<1>. QED
  BY <1>2, <1>4, <1>6, <1>7, ServerStep DEF ServerOnly

LEMMA HandleLogoutShape ==
    ASSUME SessionShape, NEW r \in Tabs, HandleLogout(r)
    PROVE  SessionShape'
<1>1. SessionTypes /\ r \in Requesters /\ RequestForm(r)
  BY DEF SessionShape, Requesters
<1>2. request[r].at = "sent" /\ request[r].kind = "logout"
      /\ UNCHANGED <<cookie, access, refreshing, call>>
  BY DEF HandleLogout
<1>4. /\ SessionsGrow
      /\ \A s \in DOMAIN sessions :
           sessions'[s].revoked <=> (s = request[r].token \/ sessions[s].revoked)
  BY <1>1, LogoutEffect DEF HandleLogout
<1>5. PICK at \in {"answered", "failed"} : request' = [request EXCEPT ![r].at = at]
  BY DEF HandleLogout, Step
<1>6. /\ RequestsCalm
      /\ \A o \in Requesters :
           /\ request'[o].kind = request[o].kind /\ request'[o].token = request[o].token
           /\ request'[o].fresh = request[o].fresh
           /\ request'[o].at = IF o = r THEN at ELSE request[o].at
  <2>1. at \in RequestStages /\ at # "idle" /\ request[r].at # "idle"
    BY <1>2, <1>5 DEF RequestStages
  <2>. QED
    BY <1>1, <1>5, <2>1, StepEffect
<1>7. RequestForm(r)'
  <2>1. r \notin Calls
    BY SessionBounds
  <2>. QED
    BY <1>1, <1>2, <1>4, <1>6, <2>1 DEF RequestForm, SessionsGrow
<1>. QED
  BY <1>1, <1>2, <1>4, <1>6, <1>7, ServerStep

\* Everybody in flight has met the change of the password.
LEMMA PasswordRequests ==
    ASSUME SessionTypes,
           request' = [r \in Requesters |-> [request[r] EXCEPT !.met = @ \/ r \in InFlight]]
    PROVE  /\ RequestsCalm
           /\ \A o \in Requesters :
                /\ request'[o].kind = request[o].kind /\ request'[o].token = request[o].token
                /\ request'[o].fresh = request[o].fresh /\ request'[o].at = request[o].at
                /\ request'[o].heard = request[o].heard
                /\ request'[o].met <=> request[o].met \/ o \in InFlight
<1>1. ASSUME NEW o \in Requesters
      PROVE  /\ request'[o] \in RequestRows
             /\ request'[o].kind = request[o].kind /\ request'[o].token = request[o].token
             /\ request'[o].fresh = request[o].fresh /\ request'[o].at = request[o].at
             /\ request'[o].heard = request[o].heard
             /\ request'[o].met <=> request[o].met \/ o \in InFlight
  <2>1. request[o] \in RequestRows
    BY SessionFacts
  <2>2. PICK m \in BOOLEAN : m = (request[o].met \/ o \in InFlight)
    OBVIOUS
  <2>3. request'[o] = [request[o] EXCEPT !.met = m]
    BY <2>2
  <2>. QED
    BY <2>1, <2>2, <2>3 DEF RequestRows
<1>2. request' \in [Requesters -> RequestRows]
  <2>1. request' = [o \in Requesters |-> request'[o]]
    OBVIOUS
  <2>. QED
    BY <1>1, <2>1
<1>. QED
  BY <1>1, <1>2 DEF RequestsCalm

LEMMA ChangePasswordShape ==
    ASSUME SessionShape, NEW t \in Tabs, ChangePassword(t)
    PROVE  SessionShape'
<1>1. SessionTypes /\ t \in Requesters /\ RequestForm(t)
  BY DEF SessionShape, Requesters
<1>2. ServerOnly
  BY DEF ChangePassword
<1>4. /\ SessionsGrow
      /\ \A s \in DOMAIN sessions :
           sessions'[s].fates = IF sessions[s].revoked THEN sessions[s].fates
                                ELSE sessions[s].fates \cup {"password"}
  BY <1>1, PasswordEffect DEF ChangePassword
<1>6. /\ RequestsCalm
      /\ \A o \in Requesters :
           /\ request'[o].kind = request[o].kind /\ request'[o].token = request[o].token
           /\ request'[o].fresh = request[o].fresh
           /\ request'[o].at = request[o].at
  BY <1>1, PasswordRequests DEF ChangePassword
<1>7. RequestForm(t)'
  BY <1>1, <1>4, <1>6, FormKept
<1>8. \A s \in DOMAIN sessions : sessions'[s].revoked =>
        sessions[s].revoked \/ sessions'[s].fates # {}
  BY <1>4
<1>. QED
  BY <1>1, <1>2, <1>4, <1>6, <1>7, <1>8, ServerStep DEF ServerOnly

LEMMA FailShape == ASSUME SessionShape, NEW r \in Requesters, Fail(r) PROVE SessionShape'
<1>1. SessionTypes /\ RequestForm(r)
  BY DEF SessionShape
<1>2. request[r].at \in {"sent", "found", "revoked"}
      /\ UNCHANGED <<cookie, access, shown, refreshing, call>>
  BY DEF Fail
<1>4. /\ SessionsGrow
      /\ \A s \in DOMAIN sessions : sessions'[s].revoked = sessions[s].revoked
  <2>1. CASE request[r].at = "revoked"
    BY <1>1, <2>1, LostEffect DEF Fail
  <2>2. CASE request[r].at # "revoked"
    BY <1>1, <2>2, SessionsSame DEF Fail
  <2>. QED
    BY <2>1, <2>2
<1>5. request' = [request EXCEPT ![r].at = "failed"]
  BY DEF Fail, Step
<1>6. /\ RequestsCalm
      /\ \A o \in Requesters :
           /\ request'[o].kind = request[o].kind /\ request'[o].token = request[o].token
           /\ request'[o].fresh = request[o].fresh
           /\ request'[o].at = IF o = r THEN "failed" ELSE request[o].at
  BY <1>1, <1>2, <1>5, StepEffect DEF RequestStages
<1>7. RequestForm(r)'
  BY <1>1, <1>2, <1>4, <1>6 DEF RequestForm, SessionsGrow
<1>. QED
  BY <1>2, <1>4, <1>6, <1>7, ServerStep DEF ServerOnly

\* The request of r is over, or not listened to any more: nobody waits for it.
LEMMA SettledShape ==
    ASSUME SessionShape, NEW r \in Requesters, RequestsCalm, SessionsGrow,
           \A s \in DOMAIN sessions : sessions'[s].revoked = sessions[s].revoked,
           \A o \in Requesters :
             \/ request'[o] = Idle
             \/ /\ request'[o].kind = request[o].kind /\ request'[o].token = request[o].token
                /\ request'[o].fresh = request[o].fresh /\ request'[o].at = request[o].at,
           request'[r] = Idle \/ ~request'[r].heard,
           access' \in [Tabs -> AccessTokens],
           cookie' \in 0..Len(sessions),
           \A o \in Requesters : request'[o].fresh # 0 => cookie' # request'[o].fresh,
           refreshing' = RefreshOver(r),
           call' \in [Calls -> CallRows],
           NEW at \in {"failed", "sent"},
           \A c \in Calls :
             /\ call'[c].tab = call[c].tab /\ call'[c].awaits = call[c].awaits
             /\ call'[c].heard = call[c].heard
             /\ call'[c].at = IF c \in Waiting(r) THEN at ELSE call[c].at
    PROVE  SessionShape'
<1> USE DEF SessionShape
<1>1. \A o \in Requesters : RequestForm(o)'
  BY FormKept
<1>2. ASSUME NEW c \in Calls PROVE CallForm(c)'
  <2>1. c \in Requesters /\ CallForm(c)
    BY DEF Requesters
  <2>2. CASE request'[c].at # "idle" /\ request'[c].heard
    <3>1. request[c].at # "idle" /\ request[c].heard /\ c # r
      BY <2>1, <2>2, IdleFacts DEF RequestsCalm
    <3>2. /\ call[c].at = "waiting" /\ call[c].awaits = c /\ call[c].tab \in Tabs
          /\ refreshing[call[c].tab] = c
      BY <2>1, <3>1 DEF CallForm
    <3>3. c \notin Waiting(r) /\ refreshing'[call[c].tab] = c
      BY <3>1, <3>2, OverRefreshing DEF Waiting
    <3>. QED
      BY <2>1, <3>2, <3>3 DEF CallForm
  <2>3. CASE ~(request'[c].at # "idle" /\ request'[c].heard)
    BY <2>1, <2>3 DEF CallForm, Waiting
  <2>. QED
    BY <2>2, <2>3
<1>3. PairsMet'
  BY PairsKept
<1>4. \A o \in Requesters : FreshIsNew(o)'
  BY FreshKept
<1>5. SessionTypes'
  BY OverRefreshing DEF SessionTypes, SessionsGrow, RequestsCalm
<1>20. \A s \in DOMAIN sessions' : sessions'[s].parent < s
  BY ParentsKept
<1>. QED
  BY <1>1, <1>2, <1>3, <1>4, <1>5, <1>20

LEMMA RefusedShape == ASSUME SessionShape, NEW r \in Requesters, Refused(r) PROVE SessionShape'
<1>1. SessionTypes
  BY DEF SessionShape
<1>2. SessionsGrow /\ sessions' = sessions /\ cookie' = cookie /\ access' = access
  BY <1>1, SessionsSame DEF Refused
<1>3. RequestsCalm /\ \A o \in Requesters : request'[o] = IF o = r THEN Idle ELSE request[o]
  BY <1>1, OverEffect DEF Refused
<1>4. /\ call' \in [Calls -> CallRows]
      /\ \A c \in Calls :
           /\ call'[c].tab = call[c].tab /\ call'[c].awaits = call[c].awaits
           /\ call'[c].heard = call[c].heard
           /\ call'[c].at = IF c \in Waiting(r) THEN "failed" ELSE call[c].at
  BY <1>1, WaitingFailEffect DEF Refused
<1>5. access' \in [Tabs -> AccessTokens] /\ cookie' \in 0..Len(sessions)
  BY <1>1, <1>2 DEF SessionTypes
<1>6. refreshing' = RefreshOver(r)
  BY DEF Refused
<1>7. \A o \in Requesters : request'[o].fresh # 0 => cookie' # request'[o].fresh
  BY <1>2, <1>3, IdleFacts DEF SessionShape, FreshIsNew
<1>8. \A s \in DOMAIN sessions : sessions'[s].revoked = sessions[s].revoked
  BY <1>2
<1>. QED
  BY <1>2, <1>3, <1>4, <1>5, <1>6, <1>7, <1>8, SettledShape

\* One request loses its listener.
LEMMA DeafEffect ==
    ASSUME SessionTypes, NEW r \in Requesters, request' = [request EXCEPT ![r].heard = FALSE]
    PROVE  /\ RequestsCalm
           /\ \A o \in Requesters :
                /\ request'[o].kind = request[o].kind /\ request'[o].token = request[o].token
                /\ request'[o].fresh = request[o].fresh /\ request'[o].at = request[o].at
                /\ request'[o].met = request[o].met
           /\ ~request'[r].heard
<1>1. PICK q \in RequestRows : q = [request[r] EXCEPT !.heard = FALSE]
  BY SessionFacts DEF RequestRows
<1>2. /\ q.kind = request[r].kind /\ q.token = request[r].token /\ q.fresh = request[r].fresh
      /\ q.met = request[r].met /\ q.heard = FALSE /\ q.at = request[r].at
  BY <1>1, SessionFacts DEF RequestRows
<1>3. request' = [request EXCEPT ![r] = q]
  BY <1>1
<1>4. \A o \in Requesters : request'[o] = IF o = r THEN q ELSE request[o]
  BY <1>3 DEF SessionTypes
<1>5. request' \in [Requesters -> RequestRows]
  BY <1>3 DEF SessionTypes
<1>. QED
  BY <1>2, <1>4, <1>5 DEF RequestsCalm

LEMMA TimesOutShape == ASSUME SessionShape, NEW r \in Requesters, TimesOut(r) PROVE SessionShape'
<1>1. SessionTypes
  BY DEF SessionShape
<1>2. SessionsGrow /\ sessions' = sessions /\ cookie' = cookie /\ access' = access
  BY <1>1, SessionsSame DEF TimesOut
<1>3. /\ RequestsCalm /\ ~request'[r].heard
      /\ \A o \in Requesters :
           /\ request'[o].kind = request[o].kind /\ request'[o].token = request[o].token
           /\ request'[o].fresh = request[o].fresh /\ request'[o].at = request[o].at
  BY <1>1, DeafEffect DEF TimesOut
<1>4. /\ call' \in [Calls -> CallRows]
      /\ \A c \in Calls :
           /\ call'[c].tab = call[c].tab /\ call'[c].awaits = call[c].awaits
           /\ call'[c].heard = call[c].heard
           /\ call'[c].at = IF c \in Waiting(r) THEN "failed" ELSE call[c].at
  BY <1>1, WaitingFailEffect DEF TimesOut
<1>5. access' \in [Tabs -> AccessTokens] /\ cookie' \in 0..Len(sessions)
  BY <1>1, <1>2 DEF SessionTypes
<1>6. refreshing' = RefreshOver(r)
  BY DEF TimesOut
<1>7. \A o \in Requesters : request'[o].fresh # 0 => cookie' # request'[o].fresh
  BY <1>2, <1>3 DEF SessionShape, FreshIsNew
<1>8. \A s \in DOMAIN sessions : sessions'[s].revoked = sessions[s].revoked
  BY <1>2
<1>. QED
  BY <1>2, <1>3, <1>4, <1>5, <1>6, <1>7, <1>8, SettledShape

LEMMA AcceptedCalls ==
    ASSUME SessionTypes, NEW r \in Requesters, Accepted(r)
    PROVE  /\ call' \in [Calls -> CallRows]
           /\ \A c \in Calls :
                /\ call'[c].tab = call[c].tab /\ call'[c].awaits = call[c].awaits
                /\ call'[c].heard = call[c].heard
                /\ call'[c].at = IF c \in Waiting(r) THEN "sent" ELSE call[c].at
<1>1. /\ call' = [c \in Calls |-> call'[c]]
      /\ \A c \in Calls : IF c \in Waiting(r)
           THEN call'[c] = [call[c] EXCEPT !.at = "sent", !.bearer = "fresh"]
           ELSE call'[c] = call[c]
  BY DEF Accepted
<1>2. "sent" \in CallStages /\ "fresh" \in AccessTokens
  BY DEF CallStages, AccessTokens
<1>. QED
  BY <1>1, <1>2, WaitingEffect

LEMMA AcceptedShape == ASSUME SessionShape, NEW r \in Requesters, Accepted(r) PROVE SessionShape'
<1>1. SessionTypes /\ RequestForm(r) /\ FreshIsNew(r)
  BY DEF SessionShape
<1>2. SessionsGrow /\ sessions' = sessions /\ cookie' = request[r].fresh
  BY <1>1, SessionsSame DEF Accepted
<1>3. RequestsCalm /\ \A o \in Requesters : request'[o] = IF o = r THEN Idle ELSE request[o]
  BY <1>1, OverEffect DEF Accepted
<1>4. /\ call' \in [Calls -> CallRows]
      /\ \A c \in Calls :
           /\ call'[c].tab = call[c].tab /\ call'[c].awaits = call[c].awaits
           /\ call'[c].heard = call[c].heard
           /\ call'[c].at = IF c \in Waiting(r) THEN "sent" ELSE call[c].at
  BY <1>1, AcceptedCalls
<1>5. access' \in [Tabs -> AccessTokens] /\ cookie' \in 0..Len(sessions)
  <2>1. access' = [access EXCEPT ![TabOf(r)] = "fresh"]
    BY DEF Accepted
  <2>2. access' \in [Tabs -> AccessTokens]
    BY <1>1, <2>1 DEF SessionTypes, AccessTokens
  <2>3. cookie' \in 0..Len(sessions)
    BY <1>1, <1>2, SessionFacts DEF RequestForm
  <2>. QED
    BY <2>2, <2>3
<1>6. refreshing' = RefreshOver(r)
  BY DEF Accepted
<1>7. \A o \in Requesters : request'[o].fresh # 0 => cookie' # request'[o].fresh
  BY <1>1, <1>2, <1>3, IdleFacts DEF FreshIsNew, SessionShape
<1>8. \A s \in DOMAIN sessions : sessions'[s].revoked = sessions[s].revoked
  BY <1>2
<1>. QED
  BY <1>2, <1>3, <1>4, <1>5, <1>6, <1>7, <1>8, SettledShape

\* Somebody is gone whose answer nobody waited for.
LEMMA GoneShape ==
    ASSUME SessionShape, NEW r \in Requesters, request' = [request EXCEPT ![r] = Idle],
           SessionsGrow, \A s \in DOMAIN sessions : sessions'[s].revoked = sessions[s].revoked,
           access' \in [Tabs -> AccessTokens], refreshing' = refreshing, call' = call,
           cookie' \in {0, cookie}
    PROVE  SessionShape'
<1> USE DEF SessionShape
<1>1. RequestsCalm /\ \A o \in Requesters : request'[o] = IF o = r THEN Idle ELSE request[o]
  BY OverEffect
<1>2. \A o \in Requesters : RequestForm(o)'
  BY <1>1, FormKept
<1>3. \A c \in Calls : CallForm(c)'
  BY <1>1, CallKept
<1>4. PairsMet'
  BY <1>1, PairsKept
<1>5. \A o \in Requesters : FreshIsNew(o)'
  <2>1. \A o \in Requesters : request'[o].fresh # 0 => cookie' # request'[o].fresh
    BY <1>1, IdleFacts DEF FreshIsNew
  <2>. QED
    BY <1>1, <2>1, FreshKept
<1>6. cookie' \in 0..Len(sessions)
  BY SessionFacts
<1>7. SessionTypes'
  BY <1>1, <1>6 DEF SessionTypes, SessionsGrow, RequestsCalm
<1>20. \A s \in DOMAIN sessions' : sessions'[s].parent < s
  BY ParentsKept
<1>. QED
  BY <1>2, <1>3, <1>4, <1>5, <1>7, <1>20

LEMMA LoggedOutShape == ASSUME SessionShape, NEW t \in Tabs, LoggedOut(t) PROVE SessionShape'
<1>1. SessionTypes /\ t \in Requesters
  BY DEF SessionShape, Requesters
<1>2. SessionsGrow /\ sessions' = sessions
  BY <1>1, SessionsSame DEF LoggedOut
<1>3. access' \in [Tabs -> AccessTokens]
  BY <1>1 DEF SessionTypes, AccessTokens, LoggedOut
<1>. QED
  BY <1>1, <1>2, <1>3, GoneShape DEF LoggedOut

LEMMA UnheardShape == ASSUME SessionShape, NEW r \in Requesters, Unheard(r) PROVE SessionShape'
<1>1. SessionTypes
  BY DEF SessionShape
<1>2. SessionsGrow /\ \A s \in DOMAIN sessions : sessions'[s].revoked = sessions[s].revoked
  <2>1. CASE request[r].fresh # 0
    BY <1>1, <2>1, LostEffect DEF Unheard
  <2>2. CASE request[r].fresh = 0
    BY <1>1, <2>2, SessionsSame DEF Unheard
  <2>. QED
    BY <2>1, <2>2
<1>3. access' \in [Tabs -> AccessTokens]
  BY <1>1 DEF SessionTypes, Unheard
<1>. QED
  BY <1>2, <1>3, GoneShape DEF Unheard

LEMMA ReloadShape ==
    ASSUME SessionShape, NEW t \in Tabs, Reload(t)
    PROVE  SessionShape'
<1> USE DEF SessionShape
<1>1. Forgotten(t) /\ sessions' = sessions /\ cookie' = cookie
  BY DEF Reload
<1>2. SessionsGrow
  BY <1>1, SessionsSame
<1>3. \A o \in Requesters : RequestForm(o)'
  BY <1>1, <1>2, ForgottenEffect, FormKept
<1>4. ASSUME NEW c \in Calls PROVE CallForm(c)'
  <2>1. c \in Requesters /\ CallForm(c) /\ c \notin Tabs
    BY SessionBounds DEF Requesters
  <2>2. CASE request'[c].at # "idle" /\ request'[c].heard
    <3>1. request[c].at # "idle" /\ request[c].heard /\ call[c].tab # t
      BY <1>1, <2>1, <2>2, ForgottenEffect, IdleFacts DEF RequestsCalm, TabOf
    <3>2. /\ call[c].at = "waiting" /\ call[c].awaits = c /\ call[c].tab \in Tabs
          /\ refreshing[call[c].tab] = c
      BY <2>1, <3>1 DEF CallForm
    <3>3. call'[c] = call[c] /\ refreshing'[call[c].tab] = c
      BY <1>1, <3>1, <3>2, ForgottenEffect
    <3>. QED
      BY <2>1, <3>2, <3>3 DEF CallForm
  <2>3. CASE ~(request'[c].at # "idle" /\ request'[c].heard)
    <3>1. CASE call[c].tab = t
      <4>1. call'[c].tab = call[c].tab
            /\ call'[c].at = IF call[c].at = "waiting" THEN "failed" ELSE call[c].at
        BY <1>1, <3>1, ForgottenEffect
      <4>2. call'[c].at # "waiting"
        BY <4>1
      <4>. QED
        BY <2>3, <3>1, <4>1, <4>2 DEF CallForm
    <3>2. CASE call[c].tab # t
      <4>1. call'[c] = call[c]
        BY <1>1, <3>2, ForgottenEffect
      <4>. QED
        BY <2>1, <2>3, <4>1 DEF CallForm
    <3>. QED
      BY <3>1, <3>2
  <2>. QED
    BY <2>2, <2>3
<1>5. PairsMet'
  BY <1>1, ForgottenEffect, PairsKept
<1>6. \A o \in Requesters : FreshIsNew(o)'
  <2>1. \A o \in Requesters : request'[o].fresh # 0 => cookie' # request'[o].fresh
    BY <1>1, ForgottenEffect DEF FreshIsNew
  <2>2. RequestsCalm
    BY <1>1, ForgottenEffect
  <2>. QED
    BY <1>1, <1>2, <2>1, <2>2, FreshKept
<1>7. SessionTypes'
  BY <1>1, <1>2, ForgottenEffect DEF SessionTypes, SessionsGrow, RequestsCalm
<1>20. \A s \in DOMAIN sessions' : sessions'[s].parent < s
  BY <1>2, ParentsKept
<1>. QED
  BY <1>3, <1>4, <1>5, <1>6, <1>7, <1>20

LEMMA ExpireShape == ASSUME SessionShape, NEW t \in Tabs, Expire(t) PROVE SessionShape'
<1> USE DEF SessionShape
<1>1. access' \in [Tabs -> AccessTokens]
  BY DEF SessionTypes, AccessTokens, Expire
<1>2. UNCHANGED <<sessions, cookie, shown, refreshing, request, call>>
  BY DEF Expire
<1>3. SessionTypes'
  BY <1>1, <1>2 DEF SessionTypes
<1>4. \A o \in Requesters : RequestForm(o)'
  BY <1>2 DEF RequestForm
<1>5. \A c \in Calls : CallForm(c)'
  BY <1>2 DEF CallForm
<1>6. PairsMet'
  BY <1>2 DEF PairsMet, Asks
<1>7. \A o \in Requesters : FreshIsNew(o)'
  BY <1>2 DEF FreshIsNew
<1>20. \A s \in DOMAIN sessions' : sessions'[s].parent < s
  BY <1>2
<1>. QED
  BY <1>3, <1>4, <1>5, <1>6, <1>7, <1>20

\* The stage at which a session is made, and the request that gets it.
LEMMA CreateFacts ==
    ASSUME SessionShape, NEW r \in Requesters, CreateSession(r)
    PROVE  /\ \/ request[r].at = "revoked" /\ request[r].kind = "refresh"
              \/ request[r].at = "found" /\ request[r].kind = "login"
           /\ LET n == Len(sessions) + 1 IN
              /\ n \in Nat /\ n \notin DOMAIN sessions
              /\ sessions' \in Seq(SessionRows) /\ Len(sessions') = n
              /\ DOMAIN sessions' = DOMAIN sessions \cup {n}
              /\ \A s \in DOMAIN sessions : sessions'[s] = sessions[s]
              /\ sessions'[n].parent = IF request[r].kind = "login" THEN 0 ELSE request[r].token
              /\ sessions'[n].met = request[r].met
              /\ ~sessions'[n].revoked /\ sessions'[n].fates = {}
              /\ request' \in [Requesters -> RequestRows]
              /\ \A o \in Requesters :
                   /\ request'[o].kind = request[o].kind /\ request'[o].token = request[o].token
                   /\ request'[o].met = request[o].met /\ request'[o].heard = request[o].heard
                   /\ request'[o].at = IF o = r THEN "answered" ELSE request[o].at
                   /\ request'[o].fresh = IF o = r THEN n ELSE request[o].fresh
<1>1. SessionTypes /\ RequestForm(r)
  BY DEF SessionShape
<1>2. \/ request[r].at = "revoked" /\ request[r].kind = "refresh"
      \/ request[r].at = "found" /\ request[r].kind = "login"
  BY <1>1 DEF CreateSession, RequestForm
<1>3. PICK p \in Nat : p = IF request[r].kind = "login" THEN 0 ELSE request[r].token
  BY <1>1, SessionFacts
<1>4. request[r].met \in BOOLEAN
  BY <1>1, SessionFacts
<1>5. sessions' = Append(sessions, NewSession(p, request[r].met))
  BY <1>3 DEF CreateSession
<1>6. PICK n \in Nat : n = Len(sessions) + 1 /\ n \notin DOMAIN sessions
  BY <1>1, SessionFacts
<1>7. request' = [request EXCEPT ![r].at = "answered", ![r].fresh = n]
  BY <1>6 DEF CreateSession
<1>8. /\ request' \in [Requesters -> RequestRows]
      /\ \A o \in Requesters :
           /\ request'[o].kind = request[o].kind /\ request'[o].token = request[o].token
           /\ request'[o].met = request[o].met /\ request'[o].heard = request[o].heard
           /\ request'[o].at = IF o = r THEN "answered" ELSE request[o].at
           /\ request'[o].fresh = IF o = r THEN n ELSE request[o].fresh
  BY <1>1, <1>7, CreateEffect
<1>9. /\ sessions' \in Seq(SessionRows) /\ Len(sessions') = Len(sessions) + 1
      /\ DOMAIN sessions' = DOMAIN sessions \cup {Len(sessions) + 1}
      /\ \A s \in DOMAIN sessions : sessions'[s] = sessions[s]
      /\ sessions'[Len(sessions) + 1].parent = p
      /\ sessions'[Len(sessions) + 1].met = request[r].met
      /\ ~sessions'[Len(sessions) + 1].revoked /\ sessions'[Len(sessions) + 1].fates = {}
  BY <1>1, <1>4, <1>5, AppendEffect
<1>. QED
  BY <1>2, <1>3, <1>6, <1>8, <1>9

LEMMA CreateSessionShape ==
    ASSUME SessionShape, NEW r \in Requesters, CreateSession(r)
    PROVE  SessionShape'
<1>1. SessionTypes
  BY DEF SessionShape
<1>2. PICK n : n = Len(sessions) + 1
  OBVIOUS
<1>3. /\ n \in Nat /\ n \notin DOMAIN sessions
      /\ sessions' \in Seq(SessionRows) /\ Len(sessions') = n
      /\ DOMAIN sessions' = DOMAIN sessions \cup {n}
      /\ \A s \in DOMAIN sessions : sessions'[s] = sessions[s]
      /\ sessions'[n].parent = IF request[r].kind = "login" THEN 0 ELSE request[r].token
      /\ request' \in [Requesters -> RequestRows]
      /\ \A o \in Requesters :
           /\ request'[o].kind = request[o].kind /\ request'[o].token = request[o].token
           /\ request'[o].met = request[o].met /\ request'[o].heard = request[o].heard
           /\ request'[o].at = IF o = r THEN "answered" ELSE request[o].at
           /\ request'[o].fresh = IF o = r THEN n ELSE request[o].fresh
  BY <1>2, CreateFacts
<1>4. \/ request[r].at = "revoked" /\ request[r].kind = "refresh"
      \/ request[r].at = "found" /\ request[r].kind = "login"
  BY CreateFacts
<1>5. DOMAIN sessions = 1..Len(sessions) /\ Len(sessions) \in Nat
  BY <1>1, SessionFacts
<1>6. \A o \in Requesters :
        /\ request[o].token \in 0..Len(sessions) /\ request[o].fresh \in 0..Len(sessions)
  BY <1>1, SessionFacts DEF SessionShape, RequestForm
<1>7. UNCHANGED <<cookie, access, shown, refreshing, call, left>>
  BY DEF CreateSession, ServerOnly
<1>8. SessionTypes'
  <2>1. cookie \in 0..n
    BY <1>1, <1>2, SessionFacts
  <2>. QED
    BY <1>1, <1>3, <1>7, <2>1 DEF SessionTypes
<1>9. ASSUME NEW o \in Requesters PROVE RequestForm(o)'
  <2>1. RequestForm(o)
    BY DEF SessionShape
  <2>2. request[o].token # 0 => request[o].token \in DOMAIN sessions
    BY <1>5, <1>6
  <2>3. request[o].token # 0 => sessions'[request[o].token] = sessions[request[o].token]
    BY <1>3, <2>2
  <2>4. request[o].token <= n /\ request'[o].fresh <= n /\ n # 0
    BY <1>2, <1>3, <1>5, <1>6
  <2>5. CASE o = r
    BY <1>3, <1>4, <2>1, <2>4, <2>5 DEF RequestForm
  <2>6. CASE o # r
    BY <1>3, <2>1, <2>3, <2>4, <2>6 DEF RequestForm
  <2>. QED
    BY <2>5, <2>6
<1>10. ASSUME NEW c \in Calls PROVE CallForm(c)'
  <2>1. c \in Requesters /\ CallForm(c)
    BY DEF SessionShape, Requesters
  <2>2. request'[c].at # "idle" => request[c].at # "idle"
    BY <1>3, <1>4, <2>1
  <2>. QED
    BY <1>3, <1>7, <2>1, <2>2 DEF CallForm
<1>11. PairsMet'
  <2>1. \A o \in Requesters : Asks(o)' => Asks(o)
    BY <1>3, <1>4 DEF Asks
  <2>2. PairsMet
    BY DEF SessionShape
  <2>. QED
    BY <1>3, <2>1, <2>2 DEF PairsMet
<1>12. ASSUME NEW o \in Requesters PROVE FreshIsNew(o)'
  <2>1. \A s \in DOMAIN sessions : sessions[s].parent < s
    BY DEF SessionShape
  <2>2. CASE o = r
    <3>1. request'[o].fresh = n /\ ~sessions'[n].revoked
      BY <1>2, <1>3, <2>2, CreateFacts
    <3>2. n # cookie'
      BY <1>1, <1>2, <1>7, SessionFacts
    <3>3. \A x \in Requesters : request'[x].token # n /\ (x # o => request'[x].fresh # n)
      BY <1>2, <1>3, <1>5, <1>6, <2>2
    <3>4. ASSUME NEW x \in DOMAIN sessions' PROVE sessions'[x].parent # n
      <4>1. CASE x = n
        <5>1. sessions'[n].parent \in 0..Len(sessions)
          BY <1>3, <1>5, <1>6
        <5>. QED
          BY <1>2, <1>5, <4>1, <5>1
      <4>2. CASE x # n
        <5>1. x \in 1..Len(sessions) /\ sessions'[x] = sessions[x] /\ sessions[x].parent \in Nat
          BY <1>1, <1>3, <1>5, <4>2, SessionFacts
        <5>2. sessions[x].parent < x
          BY <2>1, <5>1, <1>5
        <5>. QED
          BY <1>2, <1>5, <5>1, <5>2
      <4>. QED
        BY <4>1, <4>2
    <3>. QED
      BY <3>1, <3>2, <3>3, <3>4 DEF FreshIsNew
  <2>3. CASE o # r
    <3>1. PICK f : f = request[o].fresh
      OBVIOUS
    <3>2. f = request'[o].fresh /\ f # n
      BY <1>2, <1>3, <1>5, <1>6, <2>3, <3>1
    <3>3. SUFFICES ASSUME f # 0 PROVE FreshIsNew(o)'
      BY <3>2 DEF FreshIsNew
    <3>4. /\ f # cookie
          /\ \A x \in Requesters : request[x].token # f /\ (x # o => request[x].fresh # f)
          /\ \A x \in DOMAIN sessions : sessions[x].parent # f
          /\ sessions[f].revoked => sessions[f].fates # {}
      BY <3>1, <3>3 DEF SessionShape, FreshIsNew
    <3>5. f \in DOMAIN sessions
      BY <1>5, <1>6, <3>1, <3>3
    <3>6. \A x \in Requesters : request'[x].token # f /\ (x # o => request'[x].fresh # f)
      BY <1>3, <3>2, <3>4
    <3>7. sessions'[n].parent # f
      BY <1>3, <3>3, <3>4
    <3>8. \A x \in DOMAIN sessions' : sessions'[x].parent # f
      BY <1>3, <3>4, <3>7
    <3>9. sessions'[f].revoked => sessions'[f].fates # {}
      BY <1>3, <3>4, <3>5
    <3>. QED
      BY <1>7, <3>2, <3>4, <3>6, <3>8, <3>9 DEF FreshIsNew
  <2>. QED
    BY <2>2, <2>3
<1>13. ASSUME NEW s \in DOMAIN sessions' PROVE sessions'[s].parent < s
  <2>1. CASE s = n
    <3>1. sessions'[n].parent \in 0..Len(sessions)
      BY <1>3, <1>5, <1>6
    <3>. QED
      BY <1>2, <1>5, <2>1, <3>1
  <2>2. CASE s # n
    BY <1>3, <2>2 DEF SessionShape
  <2>. QED
    BY <2>1, <2>2
<1>. QED
  BY <1>8, <1>9, <1>10, <1>11, <1>12, <1>13 DEF SessionShape

\* A new request meets everybody who is under way with its token.
MeetsAll(r) ==
  \A o \in Requesters : request[o].at # "idle" /\ request[o].token = cookie => Meets(r, o)

LEMMA TabMeetsAll == ASSUME NEW t \in Tabs PROVE MeetsAll(t)
BY SessionBounds DEF MeetsAll, Meets, InFlight

\* A call that starts a renewal is the first of its tab.
LEMMA CallMeetsAll ==
    ASSUME SessionShape, NEW c \in Calls, call[c].at = "sent", StartsRefresh(call[c].tab)
    PROVE  MeetsAll(c)
<1> SUFFICES ASSUME NEW o \in Requesters, request[o].at # "idle", request[o].token = cookie,
                    o \in Calls, TabOf(c) = TabOf(o), request[o].heard
             PROVE  FALSE
  BY DEF MeetsAll, Meets, InFlight
<1>1. call[o].at = "waiting" /\ refreshing[call[o].tab] = o
  BY DEF SessionShape, CallForm
<1>2. call[o].tab = call[c].tab
  BY SessionBounds DEF TabOf
<1>. QED
  BY <1>1, <1>2, SessionBounds DEF StartsRefresh

LEMMA SentShape ==
    ASSUME SessionShape, NEW r \in Requesters, NEW kind \in {"refresh", "login", "logout"},
           r \in Calls => kind = "refresh",
           request[r].at = "idle", MeetsAll(r), request' = Sent(r, kind),
           sessions' = IF kind = "login" THEN sessions ELSE Met(r), cookie' = cookie
    PROVE  /\ SessionsGrow /\ request' \in [Requesters -> RequestRows]
           /\ \A s \in DOMAIN sessions : /\ sessions'[s].revoked = sessions[s].revoked
                                         /\ sessions'[s].fates = sessions[s].fates
           /\ \A o \in Requesters : RequestForm(o)'
           /\ PairsMet'
           /\ \A o \in Requesters : FreshIsNew(o)'
           /\ \A s \in DOMAIN sessions' : sessions'[s].parent < s
<1>1. SessionTypes
  BY DEF SessionShape
<1>2. SessionsGrow /\ \A s \in DOMAIN sessions : /\ sessions'[s].revoked = sessions[s].revoked
                                                 /\ sessions'[s].fates = sessions[s].fates
  <2>1. CASE kind = "login"
    BY <1>1, <2>1, SessionsSame
  <2>2. CASE kind # "login"
    BY <1>1, <2>2, MetEffect
  <2>. QED
    BY <2>1, <2>2
<1>3. request' \in [Requesters -> RequestRows]
  BY <1>1, SentEffect
<1>4. \A o \in Requesters \ {r} :
        /\ request'[o].kind = request[o].kind /\ request'[o].token = request[o].token
        /\ request'[o].fresh = request[o].fresh /\ request'[o].heard = request[o].heard
        /\ request'[o].at = request[o].at
        /\ request'[o].met <=> request[o].met \/ (kind # "login" /\ Meets(r, o))
  BY <1>1, SentEffect
<1>5. /\ request'[r].kind = kind /\ request'[r].at = "sent" /\ request'[r].token = cookie
      /\ request'[r].fresh = 0 /\ request'[r].heard = TRUE
      /\ request'[r].met <=> \E x \in Requesters : Meets(r, x)
  BY <1>1, SentEffect
<1>6. ASSUME NEW o \in Requesters PROVE RequestForm(o)'
  <2>1. CASE o = r
    BY <1>1, <1>2, <1>5, <2>1, SessionFacts DEF RequestForm, SessionsGrow
  <2>2. CASE o # r
    BY <1>1, <1>2, <1>4, <2>2, FormKept DEF SessionShape
  <2>. QED
    BY <2>1, <2>2
<1>7. PairsMet'
  <2> SUFFICES ASSUME NEW x \in Requesters, NEW y \in Requesters, x # y,
                      request'[x].at # "idle", request'[x].kind # "login",
                      request'[y].at # "idle", request'[y].kind # "login",
                      request'[x].token = request'[y].token
               PROVE  request'[x].met
    BY DEF PairsMet, Asks
  <2>1. CASE x = r
    <3>1. Meets(r, y)
      BY <1>4, <1>5, <2>1 DEF MeetsAll
    <3>. QED
      BY <1>5, <2>1, <3>1
  <2>2. CASE y = r
    <3>1. Meets(r, x) /\ kind # "login"
      BY <1>4, <1>5, <2>2 DEF MeetsAll
    <3>. QED
      BY <1>4, <2>2, <3>1
  <2>3. CASE x # r /\ y # r
    <3>1. request[x].met
      BY <1>4, <2>3 DEF SessionShape, PairsMet, Asks
    <3>. QED
      BY <1>4, <2>3, <3>1
  <2>. QED
    BY <2>1, <2>2, <2>3
<1>8. ASSUME NEW o \in Requesters PROVE FreshIsNew(o)'
  <2>1. SUFFICES ASSUME request'[o].fresh # 0 PROVE FreshIsNew(o)'
    BY DEF FreshIsNew
  <2>2. PICK f : f = request[o].fresh /\ f = request'[o].fresh /\ o # r
    BY <1>4, <1>5, <2>1
  <2>3. /\ f # cookie
        /\ \A x \in Requesters : request[x].token # f /\ (x # o => request[x].fresh # f)
        /\ \A x \in DOMAIN sessions : sessions[x].parent # f
        /\ sessions[f].revoked => sessions[f].fates # {}
    BY <2>1, <2>2 DEF SessionShape, FreshIsNew
  <2>4. f \in DOMAIN sessions
    <3>1. RequestForm(o)
      BY DEF SessionShape
    <3>2. f <= Len(sessions) /\ f \in Nat /\ f # 0
      BY <1>1, <2>1, <2>2, <3>1, SessionFacts DEF RequestForm
    <3>. QED
      BY <1>1, <3>2, SessionFacts
  <2>5. \A x \in Requesters : request'[x].token # f /\ (x # o => request'[x].fresh # f)
    BY <1>4, <1>5, <2>1, <2>2, <2>3
  <2>6. \A x \in DOMAIN sessions' : sessions'[x].parent # f
    BY <1>1, <1>2, <2>3, SessionFacts DEF SessionsGrow
  <2>7. sessions'[f].revoked => sessions'[f].fates # {}
    BY <1>2, <2>3, <2>4
  <2>. QED
    BY <2>2, <2>3, <2>5, <2>6, <2>7 DEF FreshIsNew
<1>. QED
  BY <1>2, <1>3, <1>6, <1>7, <1>8, ParentsKept

LEMMA AskShape ==
    ASSUME SessionShape, NEW t \in Tabs, NEW kind \in {"refresh", "login", "logout"}, Ask(t, kind)
    PROVE  SessionShape'
<1>1. SessionTypes /\ t \in Requesters /\ t \notin Calls
  BY SessionBounds DEF SessionShape, Requesters
<1>2. /\ request[t].at = "idle" /\ request' = Sent(t, kind)
      /\ sessions' = IF kind = "login" THEN sessions ELSE Met(t)
      /\ UNCHANGED <<cookie, access, shown, refreshing, call>>
  BY DEF Ask
<1>3. /\ SessionsGrow /\ request' \in [Requesters -> RequestRows]
      /\ \A o \in Requesters : RequestForm(o)'
      /\ PairsMet'
      /\ \A o \in Requesters : FreshIsNew(o)'
      /\ \A s \in DOMAIN sessions' : sessions'[s].parent < s
  BY <1>1, <1>2, TabMeetsAll, SentShape
<1>4. SessionTypes'
  BY <1>1, <1>2, <1>3 DEF SessionTypes, SessionsGrow
<1>5. ASSUME NEW c \in Calls PROVE CallForm(c)'
  <2>1. c \in Requesters \ {t} /\ CallForm(c)
    BY <1>1 DEF Requesters, SessionShape
  <2>2. request'[c].at = request[c].at /\ request'[c].heard = request[c].heard
    BY <1>1, <1>2, <2>1, SentEffect
  <2>. QED
    BY <1>2, <2>1, <2>2 DEF CallForm
<1>. QED
  BY <1>3, <1>4, <1>5 DEF SessionShape

\* The call that was refused waits or fails; its tab and its listener stay.
LEMMA RefusedCall ==
    ASSUME SessionTypes, NEW c \in Calls, call[c].tab \in Tabs, NEW awaits,
           awaits \in Calls \cup {NoCall},
           call' = [call EXCEPT ![c] =
             IF @.retried \/ ~@.heard THEN [@ EXCEPT !.at = "failed"]
             ELSE [@ EXCEPT !.at = "waiting", !.retried = TRUE, !.awaits = awaits]]
    PROVE  /\ call' \in [Calls -> CallRows]
           /\ \A d \in Calls \ {c} : call'[d] = call[d]
           /\ call'[c].tab = call[c].tab /\ call'[c].heard = call[c].heard
           /\ IF call[c].retried \/ ~call[c].heard THEN call'[c].at = "failed"
              ELSE call'[c].at = "waiting" /\ call'[c].awaits = awaits
<1>1. call[c] \in CallRows
  BY SessionFacts
<1>2. CASE call[c].retried \/ ~call[c].heard
  <2>1. PICK q \in CallRows : q = [call[c] EXCEPT !.at = "failed"]
    BY <1>1 DEF CallRows, CallStages
  <2>2. q.tab = call[c].tab /\ q.heard = call[c].heard /\ q.at = "failed"
    BY <1>1, <2>1 DEF CallRows
  <2>3. call' = [call EXCEPT ![c] = q]
    BY <1>2, <2>1
  <2>. QED
    BY <1>2, <2>2, <2>3, CallEffect
<1>3. CASE ~(call[c].retried \/ ~call[c].heard)
  <2>1. PICK q1 \in CallRows : q1 = [call[c] EXCEPT !.at = "waiting"]
    BY <1>1 DEF CallRows, CallStages
  <2>2. PICK q2 \in CallRows : q2 = [q1 EXCEPT !.retried = TRUE]
    BY <2>1 DEF CallRows
  <2>3. PICK q \in CallRows : q = [q2 EXCEPT !.awaits = awaits]
    BY <2>2 DEF CallRows
  <2>4. q1.tab = call[c].tab /\ q1.heard = call[c].heard /\ q1.at = "waiting"
    BY <1>1, <2>1 DEF CallRows
  <2>5. q2.tab = call[c].tab /\ q2.heard = call[c].heard /\ q2.at = "waiting"
    BY <2>2, <2>4 DEF CallRows
  <2>6. q.tab = call[c].tab /\ q.heard = call[c].heard /\ q.at = "waiting" /\ q.awaits = awaits
    BY <2>3, <2>5 DEF CallRows
  <2>7. call' = [call EXCEPT ![c] = q]
    BY <1>3, <2>1, <2>2, <2>3
  <2>. QED
    BY <1>3, <2>6, <2>7, CallEffect
<1>. QED
  BY <1>2, <1>3

LEMMA UnauthorizedCalls ==
    ASSUME SessionShape, NEW c \in Calls, Unauthorized(c)
    PROVE  LET t == call[c].tab
               renews == ~call[c].retried /\ call[c].heard /\ StartsRefresh(t)
           IN  /\ call' \in [Calls -> CallRows]
               /\ \A d \in Calls \ {c} : call'[d] = call[d]
               /\ call'[c].tab = t /\ call'[c].heard = call[c].heard
               /\ IF call[c].retried \/ ~call[c].heard THEN call'[c].at = "failed"
                  ELSE call'[c].at = "waiting"
                       /\ call'[c].awaits = IF renews THEN c ELSE refreshing[t]
<1> DEFINE t == call[c].tab
           renews == ~call[c].retried /\ call[c].heard /\ StartsRefresh(t)
<1>1. SessionTypes /\ CallForm(c)
  BY DEF SessionShape
<1>2. t \in Tabs
  BY <1>1 DEF CallForm, Unauthorized
<1>3. PICK awaits \in Calls \cup {NoCall} : awaits = IF renews THEN c ELSE refreshing[t]
  BY <1>1, <1>2 DEF SessionTypes
<1>4. call' = [call EXCEPT ![c] =
             IF @.retried \/ ~@.heard THEN [@ EXCEPT !.at = "failed"]
             ELSE [@ EXCEPT !.at = "waiting", !.retried = TRUE, !.awaits = awaits]]
  BY <1>3 DEF Unauthorized
<1> HIDE DEF t, renews
<1>5. call[c].tab \in Tabs
  BY <1>2 DEF t
<1>6. /\ call' \in [Calls -> CallRows]
      /\ \A d \in Calls \ {c} : call'[d] = call[d]
      /\ call'[c].tab = call[c].tab /\ call'[c].heard = call[c].heard
      /\ IF call[c].retried \/ ~call[c].heard THEN call'[c].at = "failed"
         ELSE call'[c].at = "waiting" /\ call'[c].awaits = awaits
  BY <1>1, <1>4, <1>5, RefusedCall
<1>. QED
  BY <1>3, <1>6 DEF t, renews

LEMMA UnauthorizedShape ==
    ASSUME SessionShape, NEW c \in Calls, Unauthorized(c)
    PROVE  SessionShape'
<1> DEFINE t == call[c].tab
           renews == ~call[c].retried /\ call[c].heard /\ StartsRefresh(t)
<1>1. SessionTypes /\ c \in Requesters /\ CallForm(c)
  BY DEF SessionShape, Requesters
<1>2. /\ call[c].at = "sent" /\ (renews => request[c].at = "idle")
      /\ request' = (IF renews THEN Sent(c, "refresh") ELSE request)
      /\ sessions' = (IF renews THEN Met(c) ELSE sessions)
      /\ refreshing' = (IF renews THEN [refreshing EXCEPT ![t] = c] ELSE refreshing)
      /\ UNCHANGED <<cookie, access, shown, left>>
  BY DEF Unauthorized
<1>3. t \in Tabs
  BY <1>1, <1>2 DEF CallForm
<1>4. PICK awaits \in Calls \cup {NoCall} : awaits = IF renews THEN c ELSE refreshing[t]
  BY <1>1, <1>3 DEF SessionTypes
<1>6. /\ call' \in [Calls -> CallRows]
      /\ \A d \in Calls \ {c} : call'[d] = call[d]
      /\ call'[c].tab = t /\ call'[c].heard = call[c].heard
      /\ IF call[c].retried \/ ~call[c].heard THEN call'[c].at = "failed"
         ELSE call'[c].at = "waiting" /\ call'[c].awaits = awaits
  BY <1>4, UnauthorizedCalls
<1>7. /\ refreshing' \in [Tabs -> Calls \cup {NoCall}]
      /\ \A u \in Tabs : refreshing'[u] = IF renews /\ u = t THEN c ELSE refreshing[u]
  BY <1>1, <1>2, <1>3 DEF SessionTypes
<1>8. /\ SessionsGrow /\ request' \in [Requesters -> RequestRows]
      /\ \A o \in Requesters : RequestForm(o)'
      /\ PairsMet'
      /\ \A o \in Requesters : FreshIsNew(o)'
      /\ \A s \in DOMAIN sessions' : sessions'[s].parent < s
  <2>1. CASE renews
    <3>1. MeetsAll(c)
      BY <1>2, <2>1, CallMeetsAll
    <3>2. request' = Sent(c, "refresh") /\ sessions' = Met(c) /\ request[c].at = "idle"
      BY <1>2, <2>1
    <3> HIDE DEF renews
    <3>. QED
      BY <1>1, <1>2, <3>1, <3>2, SentShape
  <2>2. CASE ~renews
    <3>1. request' = request /\ sessions' = sessions /\ cookie' = cookie
      BY <1>2, <2>2
    <3>2. SessionsGrow
      BY <1>1, <3>1, SessionsSame
    <3>. QED
      BY <3>1, <3>2 DEF SessionShape, SessionTypes, RequestForm, PairsMet, Asks, FreshIsNew
  <2>. QED
    BY <2>1, <2>2
<1>9. SessionTypes'
  BY <1>1, <1>2, <1>6, <1>7, <1>8 DEF SessionTypes, SessionsGrow
<1>10. ASSUME NEW d \in Calls PROVE CallForm(d)'
  <2>1. d \in Requesters /\ CallForm(d)
    BY DEF Requesters, SessionShape
  <2>2. CASE d = c
    <3>1. CASE renews
      <4>1. /\ call'[d].at = "waiting" /\ call'[d].awaits = d /\ call'[d].tab = t
            /\ call'[d].heard /\ refreshing'[t] = d
        BY <1>3, <1>4, <1>6, <1>7, <2>2, <3>1
      <4>. QED
        BY <1>3, <4>1 DEF CallForm
    <3>2. CASE ~renews
      <4>1. request' = request
        BY <1>2, <3>2
      <4>2. ~(request[c].at # "idle" /\ request[c].heard)
        BY <1>1, <1>2 DEF CallForm
      <4>. QED
        BY <1>1, <1>3, <1>6, <2>2, <4>1, <4>2, SessionFacts DEF CallForm
    <3>. QED
      BY <3>1, <3>2
  <2>3. CASE d # c
    <3>1. call'[d] = call[d]
      BY <1>6, <2>3
    <3>2. request'[d].at = request[d].at /\ request'[d].heard = request[d].heard
      <4>1. CASE renews
        <5>1. request' = Sent(c, "refresh") /\ d \in Requesters \ {c}
          BY <1>2, <2>1, <2>3, <4>1
        <5> HIDE DEF renews
        <5>. QED
          BY <1>1, <5>1, SentEffect
      <4>2. CASE ~renews
        BY <1>2, <4>2
      <4>. QED
        BY <4>1, <4>2
    <3>3. call[d].tab \in Tabs /\ refreshing[call[d].tab] = d => refreshing'[call[d].tab] = d
      <4>1. CASE renews
        <5>1. refreshing[t] = NoCall /\ NoCall # d
          BY <4>1, SessionBounds DEF StartsRefresh
        <5>. QED
          BY <1>7, <5>1
      <4>2. CASE ~renews
        BY <1>7, <4>2
      <4>. QED
        BY <4>1, <4>2
    <3>. QED
      BY <2>1, <3>1, <3>2, <3>3 DEF CallForm
  <2>. QED
    BY <2>2, <2>3
<1>. QED
  BY <1>8, <1>9, <1>10 DEF SessionShape

LEMMA SessionNextShape == ASSUME SessionShape, SessionNext PROVE SessionShape'
<1>1. ASSUME NEW t \in Tabs, Load(t) \/ Login(t) \/ Logout(t) PROVE SessionShape'
  BY <1>1, AskShape DEF Load, Login, Logout
<1>2. ASSUME NEW t \in Tabs, LoggedOut(t) \/ ChangePassword(t) \/ Expire(t) \/ HandleLogout(t)
      PROVE  SessionShape'
  BY <1>2, LoggedOutShape, ChangePasswordShape, ExpireShape, HandleLogoutShape
<1>3. ASSUME NEW r \in Requesters, \/ Find(r) \/ Revoke(r) \/ CreateSession(r) \/ Fail(r)
                                   \/ Refused(r) \/ Accepted(r) \/ Unheard(r) \/ TimesOut(r)
      PROVE  SessionShape'
  BY <1>3, FindShape, RevokeShape, CreateSessionShape, FailShape, RefusedShape, AcceptedShape,
     UnheardShape, TimesOutShape
<1>4. ASSUME NEW c \in Calls, Unauthorized(c) PROVE SessionShape'
  BY <1>4, UnauthorizedShape
<1>. QED
  BY <1>1, <1>2, <1>3, <1>4 DEF SessionNext

-----------------------------------------------------------------------------
(* What the pages do to the calls.                                         *)

\* The sessions and the requests stay, one call changes that does not wait.
OneCall(c) ==
  /\ UNCHANGED <<sessions, cookie, access, refreshing, request, shown>>
  /\ call' \in [Calls -> CallRows]
  /\ \A d \in Calls \ {c} : call'[d] = call[d]
  /\ call[c].at # "waiting" /\ call'[c].at # "waiting"
  /\ call'[c].at # "idle" => call'[c].tab \in Tabs

LEMMA OneCallShape ==
    ASSUME SessionShape, NEW c \in Calls, OneCall(c)
    PROVE  SessionShape'
<1>1. UNCHANGED <<sessions, cookie, access, refreshing, request>>
  BY DEF OneCall
<1>2. SessionTypes'
  BY <1>1 DEF SessionShape, SessionTypes, OneCall
<1>3. ASSUME NEW d \in Calls PROVE CallForm(d)'
  <2>1. CallForm(d)
    BY DEF SessionShape
  <2>2. CASE d = c
    BY <1>1, <2>1, <2>2 DEF CallForm, OneCall
  <2>3. CASE d # c
    BY <1>1, <2>1, <2>3 DEF CallForm, OneCall
  <2>. QED
    BY <2>2, <2>3
<1>. QED
  BY <1>1, <1>2, <1>3 DEF SessionShape, RequestForm, PairsMet, Asks, FreshIsNew

LEMMA NoCallShape ==
    ASSUME SessionShape, UNCHANGED <<sessions, cookie, access, refreshing, request, call>>
    PROVE  SessionShape'
BY DEF SessionShape, SessionTypes, RequestForm, CallForm, PairsMet, Asks, FreshIsNew

LEMMA NotCalledFacts ==
    NotCalled \in CallRows /\ NotCalled.at = "idle" /\ NotCalled.heard = TRUE
BY DEF NotCalled, CallRows, CallStages, AccessTokens

LEMMA SendEffect ==
    ASSUME SessionShape, NEW c \in Calls, NEW t \in Tabs, call[c].at # "waiting",
           call' = [call EXCEPT ![c] = Called(c, t)],
           UNCHANGED <<sessions, cookie, access, shown, refreshing, request>>
    PROVE  OneCall(c) /\ call'[c].tab = t /\ call'[c].at = "sent" /\ call'[c].heard
<1>1. SessionTypes
  BY DEF SessionShape
<1>2. PICK b \in AccessTokens : b = access[t]
  BY <1>1 DEF SessionTypes
<1>3. PICK q1 \in CallRows : q1 = [NotCalled EXCEPT !.tab = t]
  BY NotCalledFacts DEF CallRows
<1>4. PICK q2 \in CallRows : q2 = [q1 EXCEPT !.at = "sent"]
  BY <1>3 DEF CallRows, CallStages
<1>5. /\ Called(c, t) \in CallRows
      /\ Called(c, t).tab = t /\ Called(c, t).at = "sent" /\ Called(c, t).heard = TRUE
  <2>1. Called(c, t) = [q2 EXCEPT !.bearer = b]
    BY <1>2, <1>3, <1>4 DEF Called
  <2>2. q1.tab = t /\ q1.heard = TRUE
    BY <1>3, NotCalledFacts DEF CallRows
  <2>3. q2.tab = t /\ q2.heard = TRUE /\ q2.at = "sent"
    BY <1>4, <2>2 DEF CallRows
  <2>. QED
    BY <1>4, <2>1, <2>3 DEF CallRows
<1>6. call' \in [Calls -> CallRows]
      /\ \A d \in Calls : call'[d] = IF d = c THEN Called(c, t) ELSE call[d]
  BY <1>1, <1>5, CallEffect
<1>. QED
  BY <1>5, <1>6 DEF OneCall

LEMMA OverCallEffect ==
    ASSUME SessionShape, NEW c \in Calls, call[c].at # "waiting",
           call' = [call EXCEPT ![c] = NotCalled],
           UNCHANGED <<sessions, cookie, access, shown, refreshing, request>>
    PROVE  OneCall(c) /\ call'[c] = NotCalled
<1>1. SessionTypes
  BY DEF SessionShape
<1>2. call' \in [Calls -> CallRows]
      /\ \A d \in Calls : call'[d] = IF d = c THEN NotCalled ELSE call[d]
  BY <1>1, NotCalledFacts, CallEffect
<1>. QED
  BY <1>2, NotCalledFacts DEF OneCall

LEMMA AnswerEffect ==
    ASSUME SessionShape, NEW c \in Calls, NEW at \in {"accepted", "rejected"},
           call[c].at = "sent", call' = [call EXCEPT ![c].at = at],
           UNCHANGED <<sessions, cookie, access, shown, refreshing, request>>
    PROVE  OneCall(c) /\ call'[c].at = at /\ call'[c].tab = call[c].tab
           /\ call'[c].heard = call[c].heard
<1>1. SessionTypes /\ CallForm(c)
  BY DEF SessionShape
<1>2. call[c] \in CallRows
  BY <1>1, SessionFacts
<1>3. PICK q \in CallRows : q = [call[c] EXCEPT !.at = at]
  BY <1>2 DEF CallRows, CallStages
<1>4. q.at = at /\ q.tab = call[c].tab /\ q.heard = call[c].heard
  BY <1>2, <1>3 DEF CallRows
<1>5. call' = [call EXCEPT ![c] = q]
  BY <1>3
<1>6. call' \in [Calls -> CallRows] /\ \A d \in Calls : call'[d] = IF d = c THEN q ELSE call[d]
  BY <1>1, <1>5, CallEffect
<1>. QED
  BY <1>1, <1>4, <1>6 DEF OneCall, CallForm

LEMMA LoseEffect ==
    ASSUME SessionShape, NEW c \in Calls, call[c].at \in {"sent", "accepted", "rejected"},
           call' = [call EXCEPT ![c].heard = FALSE],
           UNCHANGED <<sessions, cookie, access, shown, refreshing, request>>
    PROVE  OneCall(c) /\ call'[c].at = call[c].at /\ call'[c].tab = call[c].tab
           /\ ~call'[c].heard
<1>1. SessionTypes /\ CallForm(c)
  BY DEF SessionShape
<1>2. call[c] \in CallRows
  BY <1>1, SessionFacts
<1>3. PICK q \in CallRows : q = [call[c] EXCEPT !.heard = FALSE]
  BY <1>2 DEF CallRows
<1>4. q.at = call[c].at /\ q.tab = call[c].tab /\ q.heard = FALSE
  BY <1>2, <1>3 DEF CallRows
<1>5. call' = [call EXCEPT ![c] = q]
  BY <1>3
<1>6. call' \in [Calls -> CallRows] /\ \A d \in Calls : call'[d] = IF d = c THEN q ELSE call[d]
  BY <1>1, <1>5, CallEffect
<1>. QED
  BY <1>1, <1>4, <1>6 DEF OneCall, CallForm

LEMMA SubmitEffect ==
    ASSUME SessionShape, NEW t \in Pages, NEW c \in Calls, Submit(t, c) \/ Click(t, c)
    PROVE  OneCall(c) /\ call'[c].tab = t /\ call'[c].at = "sent" /\ call'[c].heard
<1>1. t \in Tabs /\ call[c].at = "idle"
  BY WebBounds DEF Submit, Click, Free
<1>2. call' = [call EXCEPT ![c] = Called(c, t)]
      /\ UNCHANGED <<sessions, cookie, access, shown, refreshing, request>>
  BY DEF Submit, Click, Send
<1>. QED
  BY <1>1, <1>2, SendEffect

LEMMA HandleEffect ==
    ASSUME SessionShape, NEW c \in Calls, Handle(c)
    PROVE  OneCall(c) /\ call[c].at = "sent" /\ call'[c].tab = call[c].tab
           /\ call'[c].heard = call[c].heard
           /\ call'[c].at \in {"accepted", "rejected"}
           /\ \/ /\ Accepts(c) /\ call'[c].at = "accepted"
                 /\ \E to \in Outcomes(c) :
                      /\ row' = Moved(to, TRUE)
                      /\ job' = [job EXCEPT ![c].moved = IF to # row.status THEN row.version + 1 ELSE @,
                                            ![c].since = row'.version]
                 /\ docs' = IF LastOf(c) /\ job[c].opening # 0
                            THEN [docs EXCEPT ![job[c].opening].done = @ + 1] ELSE docs
              \/ /\ Refuses(c) /\ call'[c].at = "rejected"
                 /\ job' = [job EXCEPT ![c].against = row]
                 /\ UNCHANGED <<row, docs>>
<1>1. call[c].at = "sent" /\ UNCHANGED <<sessions, cookie, access, shown, refreshing, request>>
  BY DEF Handle, Admitted
<1>2. CASE /\ Accepts(c)
           /\ \E to \in Outcomes(c) :
                /\ row' = Moved(to, TRUE)
                /\ job' = [job EXCEPT ![c].moved = IF to # row.status THEN row.version + 1 ELSE @,
                                      ![c].since = row'.version]
           /\ docs' = IF LastOf(c) /\ job[c].opening # 0
                      THEN [docs EXCEPT ![job[c].opening].done = @ + 1] ELSE docs
           /\ Answer(c, "accepted")
  <2>1. /\ OneCall(c) /\ call'[c].at = "accepted" /\ call'[c].tab = call[c].tab
        /\ call'[c].heard = call[c].heard
    BY <1>1, <1>2, AnswerEffect DEF Answer
  <2>. QED
    BY <1>1, <1>2, <2>1
<1>3. CASE /\ Refuses(c)
           /\ job' = [job EXCEPT ![c].against = row]
           /\ Answer(c, "rejected")
           /\ UNCHANGED <<row, docs>>
  <2>1. /\ OneCall(c) /\ call'[c].at = "rejected" /\ call'[c].tab = call[c].tab
        /\ call'[c].heard = call[c].heard
    BY <1>1, <1>3, AnswerEffect DEF Answer
  <2>. QED
    BY <1>1, <1>3, <2>1
<1>. QED
  BY <1>2, <1>3 DEF Handle

LEMMA SucceededEffect ==
    ASSUME SessionShape, NEW c \in Calls, Succeeded(c)
    PROVE  /\ OneCall(c)
           /\ IF LastOf(c) THEN call'[c] = NotCalled
              ELSE call'[c].tab = call[c].tab /\ call'[c].at = "sent" /\ call'[c].heard
<1>1. call[c].at = "accepted" /\ CallForm(c)
  BY DEF Succeeded, SessionShape
<1>2. call[c].tab \in Tabs
  BY <1>1 DEF CallForm
<1>3. CASE LastOf(c)
  <2>1. call' = [call EXCEPT ![c] = NotCalled]
        /\ UNCHANGED <<sessions, cookie, access, shown, refreshing, request>>
    BY <1>3 DEF Succeeded
  <2>. QED
    BY <1>1, <1>3, <2>1, OverCallEffect
<1>4. CASE ~LastOf(c)
  <2>1. call' = [call EXCEPT ![c] = Called(c, call[c].tab)]
        /\ UNCHANGED <<sessions, cookie, access, shown, refreshing, request>>
    BY <1>4 DEF Succeeded, Send
  <2>. QED
    BY <1>1, <1>2, <1>4, <2>1, SendEffect
<1>. QED
  BY <1>3, <1>4

LEMMA DoneEffect ==
    ASSUME SessionShape, NEW c \in Calls, Failed(c) \/ Drop(c)
    PROVE  OneCall(c) /\ call'[c] = NotCalled
BY OverCallEffect DEF Failed, Drop

LEMMA LoseAnswerEffect ==
    ASSUME SessionShape, NEW c \in Calls, LoseAnswer(c)
    PROVE  OneCall(c) /\ call'[c].at = call[c].at /\ call'[c].tab = call[c].tab
           /\ ~call'[c].heard
BY LoseEffect DEF LoseAnswer

\* Every step of the web client changes the calls by a session action, by one page
\* action, or not at all.
LEMMA WebSteps ==
    ASSUME SessionShape, [WebNext]_webVars
    PROVE  \/ SessionNext \/ \E t \in Tabs : Reload(t)
           \/ \E c \in Calls : OneCall(c)
           \/ UNCHANGED <<sessions, cookie, access, shown, refreshing, request, call>>
<1>1. ASSUME NEW t \in Pages, Fetch(t) \/ OpenForm(t) \/ CloseForm(t)
      PROVE  UNCHANGED <<sessions, cookie, access, shown, refreshing, request, call>>
  BY <1>1 DEF Fetch, OpenForm, CloseForm, sessionVars
<1>2. ASSUME NEW t \in Pages, NEW c \in Calls, Submit(t, c) \/ Click(t, c) PROVE OneCall(c)
  BY <1>2, SubmitEffect
<1>3. ASSUME NEW c \in Calls, Handle(c) \/ Succeeded(c) \/ Failed(c) \/ LoseAnswer(c) \/ Drop(c)
      PROVE  OneCall(c)
  BY <1>3, HandleEffect, SucceededEffect, DoneEffect, LoseAnswerEffect
<1>4. Elsewhere => UNCHANGED <<sessions, cookie, access, shown, refreshing, request, call>>
  BY DEF Elsewhere
<1>5. ASSUME NEW t \in Tabs, ReloadTab(t) PROVE Reload(t)
  BY <1>5 DEF ReloadTab
<1>6. UNCHANGED webVars => UNCHANGED <<sessions, cookie, access, shown, refreshing, request, call>>
  BY DEF webVars, sessionVars
<1>. QED
  BY <1>1, <1>2, <1>3, <1>4, <1>5, <1>6 DEF WebNext

LEMMA ShapeInductive == ASSUME SessionShape, [WebNext]_webVars PROVE SessionShape'
BY WebSteps, SessionNextShape, ReloadShape, OneCallShape, NoCallShape

LEMMA ShapeInit == ASSUME WebInit PROVE SessionShape
<1>1. NewSession(0, FALSE) \in SessionRows
  BY DEF NewSession, SessionRows, Fates
<1>2. sessions = <<NewSession(0, FALSE)>> /\ cookie = 1
  BY DEF WebInit, SessionInit
<1>3. sessions \in Seq(SessionRows) /\ Len(sessions) = 1 /\ DOMAIN sessions = {1}
      /\ sessions[1].parent = 0
  BY <1>1, <1>2 DEF NewSession
<1>4. /\ access \in [Tabs -> AccessTokens] /\ refreshing \in [Tabs -> Calls \cup {NoCall}]
      /\ request \in [Requesters -> RequestRows] /\ \A r \in Requesters : request[r] = Idle
      /\ call \in [Calls -> CallRows] /\ \A c \in Calls : call[c] = NotCalled
  BY IdleFacts, NotCalledFacts DEF WebInit, SessionInit, AccessTokens
<1>5. SessionTypes
  <2>1. cookie \in 0..Len(sessions)
    BY <1>2, <1>3
  <2>. QED
    BY <1>3, <1>4, <2>1 DEF SessionTypes
<1>6. \A r \in Requesters : RequestForm(r) /\ FreshIsNew(r)
  BY <1>3, <1>4, IdleFacts DEF RequestForm, FreshIsNew
<1>7. \A c \in Calls : CallForm(c)
  BY <1>4, IdleFacts, NotCalledFacts DEF CallForm, Requesters
<1>8. PairsMet
  BY <1>4, IdleFacts DEF PairsMet, Asks
<1>. QED
  BY <1>3, <1>5, <1>6, <1>7, <1>8 DEF SessionShape

-----------------------------------------------------------------------------
(* Why a renewal is refused.                                               *)

LEMMA RenewalKept ==
    ASSUME SessionShape, SessionsGrow, NEW r \in Requesters, RenewalExplained(r),
           \/ request'[r] = Idle
           \/ /\ request'[r].kind = request[r].kind /\ request'[r].token = request[r].token
              /\ request[r].at # "idle" <=> request'[r].at # "idle"
              /\ request[r].met => request'[r].met
              /\ LET s == request[r].token IN s # 0 =>
                   /\ request[r].at \in {"revoked", "answered"} /\ request[r].kind = "refresh" =>
                        request'[r].at \in {"revoked", "answered"} \/ sessions'[s].fates # {}
                   /\ sessions'[s].revoked =>
                        \/ sessions[s].revoked \/ sessions'[s].fates # {}
                        \/ request'[r].at \in {"revoked", "answered"} \/ request'[r].met
    PROVE  RenewalExplained(r)'
<1>1. CASE request'[r] = Idle
  BY <1>1, IdleFacts DEF RenewalExplained, Asks
<1>2. CASE request'[r] # Idle
  <2>1. PICK s \in Nat : s = request[r].token
    BY SessionFacts DEF SessionShape
  <2>2. SUFFICES ASSUME request'[r].at # "idle", request'[r].kind = "refresh", s # 0,
                        sessions'[s].revoked,
                        request'[r].at \notin {"revoked", "answered"}, ~request'[r].met
                 PROVE  sessions'[s].fates # {}
    BY <1>2, <2>1 DEF RenewalExplained, Renewing, Asks
  <2>3. RequestForm(r)
    BY DEF SessionShape
  <2>4. s \in DOMAIN sessions
    BY <2>1, <2>2, <2>3, SessionFacts DEF SessionShape, RequestForm
  <2>5. sessions[s].fates \subseteq sessions'[s].fates
    BY <2>4 DEF SessionsGrow
  <2>6. CASE sessions[s].revoked
    <3>1. request[r].met \/ sessions[s].fates # {} \/ Renewing(r, s)
      BY <1>2, <2>1, <2>2, <2>6 DEF RenewalExplained, Asks
    <3>. QED
      BY <1>2, <2>1, <2>2, <2>5, <3>1 DEF Renewing
  <2>7. CASE ~sessions[s].revoked
    BY <1>2, <2>1, <2>2, <2>7
  <2>. QED
    BY <2>6, <2>7
<1>. QED
  BY <1>1, <1>2

LEMMA CookieKept ==
    ASSUME SessionShape, SessionsGrow, CookieExplained, cookie' = cookie,
           cookie # 0 =>
             /\ sessions'[cookie].revoked =>
                  \/ sessions[cookie].revoked \/ sessions'[cookie].fates # {}
                  \/ \E r \in Requesters : Renewing(r, cookie)'
             /\ \A r \in Requesters : Renewing(r, cookie) =>
                  Renewing(r, cookie)' \/ sessions'[cookie].fates # {}
    PROVE  CookieExplained'
<1> SUFFICES ASSUME cookie # 0, sessions'[cookie].revoked, sessions'[cookie].fates = {}
             PROVE  \E r \in Requesters : Renewing(r, cookie)'
  BY DEF CookieExplained
<1>1. cookie \in DOMAIN sessions
  BY SessionFacts DEF SessionShape
<1>2. sessions[cookie].fates = {}
  BY <1>1 DEF SessionsGrow
<1>. QED
  BY <1>2 DEF CookieExplained

\* All that the server does, but for Revoke and CreateSession.
LEMMA ServerExplained ==
    ASSUME RefusalInvariant, SessionsGrow, NEW r \in Requesters, NEW at \in RequestStages,
           \A o \in Requesters :
             /\ request'[o].kind = request[o].kind /\ request'[o].token = request[o].token
             /\ request[o].met => request'[o].met
             /\ request'[o].at = IF o = r THEN at ELSE request[o].at,
           request[r].at # "idle" <=> at # "idle",
           cookie' = cookie,
           request[r].token # 0 /\ request[r].kind = "refresh" /\ request[r].at \in {"revoked", "answered"} =>
             at \in {"revoked", "answered"} \/ sessions'[request[r].token].fates # {},
           \A s \in DOMAIN sessions : sessions'[s].revoked =>
             sessions[s].revoked \/ sessions'[s].fates # {}
    PROVE  CookieExplained' /\ \A o \in Requesters : RenewalExplained(o)'
<1>1. SessionShape /\ CookieExplained /\ \A o \in Requesters : RenewalExplained(o)
  BY DEF RefusalInvariant
<1>2. \A o \in Requesters : request[o].token # 0 => request[o].token \in DOMAIN sessions
  BY <1>1, SessionFacts DEF SessionShape, RequestForm
<1>3. ASSUME NEW o \in Requesters PROVE RenewalExplained(o)'
  BY <1>1, <1>2, RenewalKept
<1>4. cookie # 0 => cookie \in DOMAIN sessions
  BY <1>1, SessionFacts DEF SessionShape
<1>5. ASSUME NEW o \in Requesters, Renewing(o, cookie), cookie # 0
      PROVE  Renewing(o, cookie)' \/ sessions'[cookie].fates # {}
  BY <1>5 DEF Renewing
<1>. QED
  BY <1>1, <1>3, <1>4, <1>5, CookieKept

LEMMA ServerRefusals ==
    ASSUME RefusalInvariant,
           \/ \E r \in Requesters : Find(r) \/ Fail(r)
           \/ \E t \in Tabs : HandleLogout(t) \/ ChangePassword(t)
    PROVE  RefusalInvariant'
<1> USE DEF RefusalInvariant
<1>1. SessionTypes
  BY DEF SessionShape
<1>2. ASSUME NEW r \in Requesters, Find(r) PROVE RefusalInvariant'
  <2>1. PICK at \in {"found", "refused"} : request' = [request EXCEPT ![r].at = at]
    BY <1>2 DEF Find, Step
  <2>2. request[r].at = "sent" /\ sessions' = sessions /\ cookie' = cookie
    BY <1>2 DEF Find, ServerOnly
  <2>3. at \in RequestStages /\ at # "idle" /\ request[r].at # "idle"
    BY <2>2 DEF RequestStages
  <2>4. \A o \in Requesters :
          /\ request'[o].kind = request[o].kind /\ request'[o].token = request[o].token
          /\ request'[o].met = request[o].met
          /\ request'[o].at = IF o = r THEN at ELSE request[o].at
    BY <1>1, <2>1, <2>3, StepEffect
  <2>5. SessionsGrow
    BY <1>1, <2>2, SessionsSame
  <2>. QED
    BY <1>2, <2>2, <2>3, <2>4, <2>5, ServerExplained, FindShape
<1>3. ASSUME NEW r \in Requesters, Fail(r) PROVE RefusalInvariant'
  <2>1. request[r].at \in {"sent", "found", "revoked"} /\ cookie' = cookie
        /\ request' = [request EXCEPT ![r].at = "failed"]
    BY <1>3 DEF Fail, Step
  <2>2. "failed" \in RequestStages /\ "failed" # "idle" /\ request[r].at # "idle"
    BY <2>1 DEF RequestStages
  <2>3. \A o \in Requesters :
          /\ request'[o].kind = request[o].kind /\ request'[o].token = request[o].token
          /\ request'[o].met = request[o].met
          /\ request'[o].at = IF o = r THEN "failed" ELSE request[o].at
    BY <1>1, <2>1, <2>2, StepEffect
  <2>4. /\ SessionsGrow
        /\ \A s \in DOMAIN sessions : sessions'[s].revoked = sessions[s].revoked
        /\ request[r].at = "revoked" /\ request[r].token # 0 => sessions'[request[r].token].fates # {}
    <3>1. CASE request[r].at = "revoked"
      <4>1. sessions' = Lost(request[r].token)
        BY <1>3, <3>1 DEF Fail
      <4>2. request[r].token # 0 => request[r].token \in DOMAIN sessions
        BY <1>1, SessionFacts DEF SessionShape, RequestForm
      <4>. QED
        BY <1>1, <4>1, <4>2, LostEffect
    <3>2. CASE request[r].at # "revoked"
      BY <1>1, <1>3, <3>2, SessionsSame DEF Fail
    <3>. QED
      BY <3>1, <3>2
  <2>. QED
    BY <1>3, <2>1, <2>2, <2>3, <2>4, ServerExplained, FailShape
<1>4. ASSUME NEW t \in Tabs, HandleLogout(t) PROVE RefusalInvariant'
  <2>1. PICK at \in {"answered", "failed"} :
          /\ t \in Requesters /\ cookie' = cookie
          /\ request[t].at = "sent" /\ request[t].kind = "logout"
          /\ request' = [request EXCEPT ![t].at = at]
    BY <1>4 DEF HandleLogout, Step, Requesters
  <2>2. at \in RequestStages /\ at # "idle" /\ request[t].at # "idle"
    BY <2>1 DEF RequestStages
  <2>3. \A o \in Requesters :
          /\ request'[o].kind = request[o].kind /\ request'[o].token = request[o].token
          /\ request'[o].met = request[o].met
          /\ request'[o].at = IF o = t THEN at ELSE request[o].at
    BY <1>1, <2>1, <2>2, StepEffect
  <2>4. SessionsGrow /\ \A s \in DOMAIN sessions :
          sessions'[s].revoked => sessions[s].revoked \/ sessions'[s].fates # {}
    <3>1. SessionsGrow /\ \A s \in DOMAIN sessions :
            /\ sessions'[s].revoked <=> (s = request[t].token \/ sessions[s].revoked)
            /\ sessions'[s].fates = IF s = request[t].token
                                    THEN sessions[s].fates \cup {"logout"} ELSE sessions[s].fates
      BY <1>1, <1>4, <2>1, LogoutEffect DEF HandleLogout
    <3>2. \A s \in DOMAIN sessions : sessions[s].fates \cup {"logout"} # {}
      OBVIOUS
    <3>. QED
      BY <3>1, <3>2
  <2>. QED
    BY <1>4, <2>1, <2>2, <2>3, <2>4, ServerExplained, HandleLogoutShape
<1>5. ASSUME NEW t \in Tabs, ChangePassword(t) PROVE RefusalInvariant'
  <2>1. t \in Requesters /\ cookie' = cookie
    BY <1>5 DEF ChangePassword, ServerOnly, Requesters
  <2>2. \A o \in Requesters :
          /\ request'[o].kind = request[o].kind /\ request'[o].token = request[o].token
          /\ request[o].met => request'[o].met
          /\ request'[o].at = request[o].at
    BY <1>1, <1>5, PasswordRequests DEF ChangePassword
  <2>3. SessionsGrow /\ \A s \in DOMAIN sessions :
          sessions'[s].revoked => sessions[s].revoked \/ sessions'[s].fates # {}
    <3>1. SessionsGrow /\ \A s \in DOMAIN sessions :
            sessions'[s].fates = IF sessions[s].revoked THEN sessions[s].fates
                                 ELSE sessions[s].fates \cup {"password"}
      BY <1>1, <1>5, PasswordEffect DEF ChangePassword
    <3>2. \A s \in DOMAIN sessions : sessions[s].fates \cup {"password"} # {}
      OBVIOUS
    <3>. QED
      BY <3>1, <3>2
  <2>4. PICK at \in RequestStages : at = request[t].at
    BY <1>1, <2>1 DEF SessionTypes, RequestRows
  <2>5. \A o \in Requesters : request'[o].at = IF o = t THEN at ELSE request[o].at
    BY <2>2, <2>4
  <2>. QED
    BY <1>5, <2>1, <2>2, <2>3, <2>4, <2>5, ServerExplained, ChangePasswordShape
<1>. QED
  BY <1>2, <1>3, <1>4, <1>5

LEMMA RevokeRefusals ==
    ASSUME RefusalInvariant, NEW r \in Requesters, Revoke(r)
    PROVE  RefusalInvariant'
<1> USE DEF RefusalInvariant
<1>1. SessionTypes /\ RequestForm(r) /\ RenewalExplained(r)
  BY DEF SessionShape
<1>2. request[r].at = "found" /\ request[r].kind = "refresh" /\ cookie' = cookie
      /\ request' = [request EXCEPT ![r].at = "revoked"]
  BY DEF Revoke, ServerOnly, Step
<1>3. PICK k \in DOMAIN sessions : k = request[r].token /\ k # 0
  BY <1>1, <1>2, SessionFacts DEF RequestForm
<1>4. /\ SessionsGrow
      /\ \A s \in DOMAIN sessions : sessions'[s].revoked <=> (s = k \/ sessions[s].revoked)
  BY <1>1, <1>3, RevokeEffect DEF Revoke
<1>5. "revoked" \in RequestStages /\ "revoked" # "idle" /\ request[r].at # "idle"
  BY <1>2 DEF RequestStages
<1>6. \A o \in Requesters :
        /\ request'[o].kind = request[o].kind /\ request'[o].token = request[o].token
        /\ request'[o].met = request[o].met
        /\ request'[o].at = IF o = r THEN "revoked" ELSE request[o].at
  BY <1>1, <1>2, <1>5, StepEffect
<1>7. ASSUME NEW o \in Requesters PROVE RenewalExplained(o)'
  <2>1. RequestForm(o) /\ RenewalExplained(o) /\ request[o].token \in Nat
    BY <1>1, SessionFacts DEF SessionShape
  <2>2. CASE o = r
    BY <1>2, <1>6, <2>1, <2>2, RenewalKept, <1>4
  <2>3. CASE o # r
    <3>1. request[o].token = k /\ Asks(o) => request[o].met
      BY <1>2, <1>3, <2>3 DEF SessionShape, PairsMet, Asks
    <3>2. CASE request[o].at = "idle" \/ request[o].kind # "refresh"
      BY <1>6, <2>3, <3>2 DEF RenewalExplained, Asks
    <3>3. CASE ~(request[o].at = "idle" \/ request[o].kind # "refresh")
      <4>1. request[o].token # 0 => request[o].token \in DOMAIN sessions
        BY <1>1, <2>1, SessionFacts DEF RequestForm
      <4>2. request[o].token # 0 /\ sessions'[request[o].token].revoked =>
              sessions[request[o].token].revoked \/ request[o].met
        BY <1>4, <3>1, <3>3, <4>1 DEF Asks
      <4>. QED
        BY <1>4, <1>6, <2>1, <2>3, <4>2, RenewalKept
    <3>. QED
      BY <3>2, <3>3
  <2>. QED
    BY <2>2, <2>3
<1>8. CookieExplained'
  <2>1. cookie # 0 => cookie \in DOMAIN sessions
    BY <1>1, SessionFacts
  <2>2. ASSUME NEW o \in Requesters, Renewing(o, cookie) PROVE Renewing(o, cookie)'
    BY <1>2, <1>6, <2>2 DEF Renewing
  <2>3. cookie = k => Renewing(r, cookie)'
    BY <1>2, <1>3, <1>6 DEF Renewing
  <2>. QED
    BY <1>2, <1>4, <2>1, <2>2, <2>3, CookieKept
<1>. QED
  BY <1>7, <1>8, RevokeShape

LEMMA CreateRefusals ==
    ASSUME RefusalInvariant, NEW r \in Requesters, CreateSession(r)
    PROVE  RefusalInvariant'
<1> USE DEF RefusalInvariant
<1>1. SessionTypes
  BY DEF SessionShape
<1>2. /\ \A s \in DOMAIN sessions : sessions'[s] = sessions[s]
      /\ \A o \in Requesters :
           /\ request'[o].kind = request[o].kind /\ request'[o].token = request[o].token
           /\ request'[o].met = request[o].met
           /\ request'[o].at = IF o = r THEN "answered" ELSE request[o].at
      /\ \/ request[r].at = "revoked" /\ request[r].kind = "refresh"
         \/ request[r].at = "found" /\ request[r].kind = "login"
  BY CreateFacts
<1>3. cookie' = cookie
  BY DEF CreateSession, ServerOnly
<1>4. ASSUME NEW o \in Requesters PROVE RenewalExplained(o)'
  <2>1. request[o].token # 0 => request[o].token \in DOMAIN sessions
    BY <1>1, SessionFacts DEF SessionShape, RequestForm
  <2>2. RenewalExplained(o)
    OBVIOUS
  <2>3. CASE o = r
    BY <1>2, <2>3 DEF RenewalExplained, Renewing, Asks
  <2>4. CASE o # r
    BY <1>2, <2>1, <2>2, <2>4 DEF RenewalExplained, Renewing, Asks
  <2>. QED
    BY <2>3, <2>4
<1>5. CookieExplained'
  <2>1. cookie # 0 => cookie \in DOMAIN sessions
    BY <1>1, SessionFacts
  <2>2. ASSUME NEW o \in Requesters, Renewing(o, cookie) PROVE Renewing(o, cookie)'
    BY <1>2, <1>3, <2>2 DEF Renewing
  <2>. QED
    BY <1>2, <1>3, <2>1, <2>2 DEF CookieExplained
<1>. QED
  BY <1>4, <1>5, CreateSessionShape

\* r goes on with the renewal of s.
GoesOn(r, s) == /\ request'[r].kind = "refresh" /\ request'[r].token = s
                /\ request'[r].at \in {"revoked", "answered"}

\* The answers: a request is over, or not listened to any more.
LEMMA AnswerRefusals ==
    ASSUME RefusalInvariant, SessionsGrow, NEW r \in Requesters,
           \A s \in DOMAIN sessions : sessions'[s].revoked = sessions[s].revoked,
           \A o \in Requesters :
             \/ request'[o] = Idle
             \/ /\ request'[o].kind = request[o].kind /\ request'[o].token = request[o].token
                /\ request'[o].at = request[o].at
                /\ request[o].met => request'[o].met
    PROVE  /\ \A o \in Requesters : RenewalExplained(o)'
           /\ cookie' = cookie /\ (\A o \in Requesters :
                Renewing(o, cookie) /\ cookie # 0 =>
                  GoesOn(o, cookie) \/ sessions'[cookie].fates # {})
              => CookieExplained'
<1>1. SessionShape /\ CookieExplained /\ \A o \in Requesters : RenewalExplained(o)
  BY DEF RefusalInvariant
<1>2. ASSUME NEW o \in Requesters PROVE RenewalExplained(o)'
  <2>1. request[o].token # 0 => request[o].token \in DOMAIN sessions
    BY <1>1, SessionFacts DEF SessionShape, RequestForm
  <2>. QED
    BY <1>1, <2>1, RenewalKept
<1>3. cookie # 0 => cookie \in DOMAIN sessions
  BY <1>1, SessionFacts DEF SessionShape
<1>4. ASSUME cookie' = cookie, \A o \in Requesters :
                Renewing(o, cookie) /\ cookie # 0 =>
                  GoesOn(o, cookie) \/ sessions'[cookie].fates # {}
      PROVE  CookieExplained'
  <2>1. \A o \in Requesters : Renewing(o, cookie) /\ cookie # 0 =>
          Renewing(o, cookie)' \/ sessions'[cookie].fates # {}
    BY <1>4 DEF Renewing, GoesOn
  <2>. QED
    BY <1>1, <1>3, <1>4, <2>1, CookieKept
<1>. QED
  BY <1>2, <1>4

LEMMA RefusedRefusals ==
    ASSUME RefusalInvariant, NEW r \in Requesters, Refused(r)
    PROVE  RefusalInvariant'
<1>1. SessionShape /\ SessionTypes
  BY DEF RefusalInvariant, SessionShape
<1>2. SessionsGrow /\ sessions' = sessions /\ cookie' = cookie
      /\ request[r].at \in {"refused", "failed"}
  BY <1>1, SessionsSame DEF Refused
<1>3. \A o \in Requesters : request'[o] = IF o = r THEN Idle ELSE request[o]
  BY <1>1, OverEffect DEF Refused
<1>4. \A o \in Requesters : Renewing(o, cookie) => GoesOn(o, cookie)
  BY <1>2, <1>3 DEF Renewing, GoesOn
<1>. QED
  BY <1>1, <1>2, <1>3, <1>4, AnswerRefusals, RefusedShape DEF RefusalInvariant

LEMMA TimesOutRefusals ==
    ASSUME RefusalInvariant, NEW r \in Requesters, TimesOut(r)
    PROVE  RefusalInvariant'
<1>1. SessionShape /\ SessionTypes
  BY DEF RefusalInvariant, SessionShape
<1>2. SessionsGrow /\ sessions' = sessions /\ cookie' = cookie
  BY <1>1, SessionsSame DEF TimesOut
<1>3. \A o \in Requesters :
        /\ request'[o].kind = request[o].kind /\ request'[o].token = request[o].token
        /\ request'[o].at = request[o].at /\ request'[o].met = request[o].met
  BY <1>1, DeafEffect DEF TimesOut
<1>4. \A o \in Requesters : Renewing(o, cookie) => GoesOn(o, cookie)
  BY <1>3 DEF Renewing, GoesOn
<1>. QED
  BY <1>1, <1>2, <1>3, <1>4, AnswerRefusals, TimesOutShape DEF RefusalInvariant

LEMMA UnheardRefusals ==
    ASSUME RefusalInvariant, NEW r \in Requesters, Unheard(r)
    PROVE  RefusalInvariant'
<1>1. SessionShape /\ SessionTypes /\ RequestForm(r)
  BY DEF RefusalInvariant, SessionShape
<1>2. cookie' = cookie /\ request[r].at \in {"refused", "failed", "answered"}
  BY DEF Unheard
<1>3. \A o \in Requesters : request'[o] = IF o = r THEN Idle ELSE request[o]
  BY <1>1, OverEffect DEF Unheard
<1>4. /\ SessionsGrow
      /\ \A s \in DOMAIN sessions : sessions'[s].revoked = sessions[s].revoked
      /\ request[r].fresh # 0 /\ request[r].token # 0 => sessions'[request[r].token].fates # {}
  <2>1. CASE request[r].fresh # 0
    <3>1. sessions' = Lost(request[r].token)
      BY <2>1 DEF Unheard
    <3>2. request[r].token # 0 => request[r].token \in DOMAIN sessions
      BY <1>1, SessionFacts DEF RequestForm
    <3>. QED
      BY <1>1, <3>1, <3>2, LostEffect
  <2>2. CASE request[r].fresh = 0
    BY <1>1, <2>2, SessionsSame DEF Unheard
  <2>. QED
    BY <2>1, <2>2
<1>5. ASSUME NEW o \in Requesters, Renewing(o, cookie), cookie # 0
      PROVE  GoesOn(o, cookie) \/ sessions'[cookie].fates # {}
  <2>1. CASE o = r
    <3>1. request[r].fresh # 0
      BY <1>1, <1>2, <1>5, <2>1 DEF Renewing, RequestForm
    <3>. QED
      BY <1>4, <1>5, <2>1, <3>1 DEF Renewing
  <2>2. CASE o # r
    BY <1>3, <1>5, <2>2 DEF Renewing, GoesOn
  <2>. QED
    BY <2>1, <2>2
<1>. QED
  BY <1>1, <1>2, <1>3, <1>4, <1>5, AnswerRefusals, UnheardShape DEF RefusalInvariant

LEMMA LoggedOutRefusals ==
    ASSUME RefusalInvariant, NEW t \in Tabs, LoggedOut(t)
    PROVE  RefusalInvariant'
<1>1. SessionShape /\ SessionTypes /\ t \in Requesters
  BY DEF RefusalInvariant, SessionShape, Requesters
<1>2. SessionsGrow /\ sessions' = sessions /\ cookie' = 0
  BY <1>1, SessionsSame DEF LoggedOut
<1>3. \A o \in Requesters : request'[o] = IF o = t THEN Idle ELSE request[o]
  BY <1>1, OverEffect DEF LoggedOut
<1>4. CookieExplained'
  BY <1>2 DEF CookieExplained
<1>. QED
  BY <1>1, <1>2, <1>3, <1>4, AnswerRefusals, LoggedOutShape DEF RefusalInvariant

LEMMA AcceptedRefusals ==
    ASSUME RefusalInvariant, NEW r \in Requesters, Accepted(r)
    PROVE  RefusalInvariant'
<1>1. SessionShape /\ SessionTypes /\ FreshIsNew(r) /\ RequestForm(r)
  BY DEF RefusalInvariant, SessionShape
<1>2. SessionsGrow /\ sessions' = sessions /\ cookie' = request[r].fresh
  BY <1>1, SessionsSame DEF Accepted
<1>3. \A o \in Requesters : request'[o] = IF o = r THEN Idle ELSE request[o]
  BY <1>1, OverEffect DEF Accepted
<1>4. CookieExplained'
  <2>1. request[r].fresh # 0 /\ sessions[request[r].fresh].revoked =>
          sessions[request[r].fresh].fates # {}
    BY <1>1 DEF FreshIsNew
  <2>. QED
    BY <1>2, <2>1 DEF CookieExplained
<1>. QED
  BY <1>1, <1>2, <1>3, <1>4, AnswerRefusals, AcceptedShape DEF RefusalInvariant

LEMMA ReloadRefusals ==
    ASSUME RefusalInvariant, NEW t \in Tabs, Reload(t)
    PROVE  RefusalInvariant'
<1>1. SessionShape /\ SessionTypes /\ t \in Requesters
  BY DEF RefusalInvariant, SessionShape, Requesters
<1>2. SessionsGrow /\ sessions' = sessions /\ cookie' = cookie /\ Forgotten(t)
  BY <1>1, SessionsSame DEF Reload
<1>3. \A o \in Requesters :
        /\ request'[o].kind = request[o].kind /\ request'[o].token = request[o].token
        /\ request'[o].at = request[o].at /\ request'[o].met = request[o].met
  BY <1>1, <1>2, ForgottenEffect
<1>4. \A o \in Requesters : Renewing(o, cookie) => GoesOn(o, cookie)
  BY <1>3 DEF Renewing, GoesOn
<1>. QED
  BY <1>1, <1>2, <1>3, <1>4, AnswerRefusals, ReloadShape DEF RefusalInvariant

\* A request is sent: when its token was revoked, it meets who revoked it.
LEMMA SentRefusals ==
    ASSUME RefusalInvariant, NEW r \in Requesters, NEW kind \in {"refresh", "login", "logout"},
           request[r].at = "idle", MeetsAll(r), request' = Sent(r, kind),
           sessions' = IF kind = "login" THEN sessions ELSE Met(r), cookie' = cookie,
           r \in Calls => kind = "refresh"
    PROVE  CookieExplained' /\ \A o \in Requesters : RenewalExplained(o)'
<1>1. SessionShape /\ SessionTypes /\ CookieExplained /\ \A o \in Requesters : RenewalExplained(o)
  BY DEF RefusalInvariant, SessionShape
<1>2. /\ SessionsGrow
      /\ \A s \in DOMAIN sessions : /\ sessions'[s].revoked = sessions[s].revoked
                                    /\ sessions'[s].fates = sessions[s].fates
  BY <1>1, SentShape
<1>3. \A o \in Requesters \ {r} :
        /\ request'[o].kind = request[o].kind /\ request'[o].token = request[o].token
        /\ request'[o].at = request[o].at /\ (request[o].met => request'[o].met)
  BY <1>1, SentEffect
<1>4. /\ request'[r].kind = kind /\ request'[r].at = "sent" /\ request'[r].token = cookie
      /\ request'[r].met <=> \E x \in Requesters : Meets(r, x)
  BY <1>1, SentEffect
<1>5. cookie # 0 => cookie \in DOMAIN sessions
  BY <1>1, SessionFacts
<1>6. ASSUME NEW o \in Requesters PROVE RenewalExplained(o)'
  <2>1. CASE o = r
    <3>1. SUFFICES ASSUME cookie # 0, sessions[cookie].revoked, sessions[cookie].fates = {}
                   PROVE  request'[r].met
      BY <1>2, <1>4, <1>5, <2>1 DEF RenewalExplained, Asks
    <3>2. PICK x \in Requesters : Renewing(x, cookie)
      BY <1>1, <3>1 DEF CookieExplained
    <3>3. Meets(r, x)
      BY <3>2 DEF MeetsAll, Renewing
    <3>. QED
      BY <1>4, <3>3
  <2>2. CASE o # r
    <3>1. request[o].token # 0 => request[o].token \in DOMAIN sessions
      BY <1>1, SessionFacts DEF SessionShape, RequestForm
    <3>. QED
      BY <1>1, <1>2, <1>3, <2>2, <3>1, RenewalKept
  <2>. QED
    BY <2>1, <2>2
<1>7. CookieExplained'
  <2>1. ASSUME NEW o \in Requesters, Renewing(o, cookie) PROVE Renewing(o, cookie)'
    BY <1>3, <2>1 DEF Renewing
  <2>. QED
    BY <1>1, <1>2, <1>5, <2>1, CookieKept
<1>. QED
  BY <1>6, <1>7

LEMMA AskRefusals ==
    ASSUME RefusalInvariant, NEW t \in Tabs, NEW kind \in {"refresh", "login", "logout"},
           Ask(t, kind)
    PROVE  RefusalInvariant'
<1>1. t \in Requesters /\ t \notin Calls /\ SessionShape
  BY SessionBounds DEF Requesters, RefusalInvariant
<1>2. /\ request[t].at = "idle" /\ request' = Sent(t, kind)
      /\ sessions' = IF kind = "login" THEN sessions ELSE Met(t)
      /\ cookie' = cookie
  BY DEF Ask
<1>. QED
  BY <1>1, <1>2, TabMeetsAll, SentRefusals, AskShape DEF RefusalInvariant

LEMMA SameRefusals ==
    ASSUME RefusalInvariant, UNCHANGED <<sessions, cookie, request>>
    PROVE  CookieExplained' /\ \A o \in Requesters : RenewalExplained(o)'
BY DEF RefusalInvariant, CookieExplained, RenewalExplained, Renewing, Asks

LEMMA UnauthorizedRefusals ==
    ASSUME RefusalInvariant, NEW c \in Calls, Unauthorized(c)
    PROVE  RefusalInvariant'
<1>1. SessionShape /\ c \in Requesters /\ cookie' = cookie /\ call[c].at = "sent"
  BY DEF RefusalInvariant, Unauthorized, Requesters
<1>2. CASE ~call[c].retried /\ call[c].heard /\ StartsRefresh(call[c].tab)
  <2>1. /\ request[c].at = "idle" /\ request' = Sent(c, "refresh") /\ sessions' = Met(c)
        /\ StartsRefresh(call[c].tab)
    BY <1>2 DEF Unauthorized
  <2>2. MeetsAll(c)
    BY <1>1, <2>1, CallMeetsAll
  <2>. QED
    BY <1>1, <2>1, <2>2, SentRefusals, UnauthorizedShape DEF RefusalInvariant
<1>3. CASE ~(~call[c].retried /\ call[c].heard /\ StartsRefresh(call[c].tab))
  <2>1. request' = request /\ sessions' = sessions
    BY <1>3 DEF Unauthorized
  <2>. QED
    BY <1>1, <2>1, SameRefusals, UnauthorizedShape DEF RefusalInvariant
<1>. QED
  BY <1>2, <1>3

LEMMA RefusalInductive == ASSUME RefusalInvariant, [WebNext]_webVars PROVE RefusalInvariant'
<1>1. SessionShape
  BY DEF RefusalInvariant
<1>2. CASE SessionNext
  <2>1. ASSUME NEW t \in Tabs, Load(t) \/ Login(t) \/ Logout(t) PROVE RefusalInvariant'
    BY <2>1, AskRefusals DEF Load, Login, Logout
  <2>2. ASSUME NEW t \in Tabs, Expire(t) PROVE RefusalInvariant'
    BY <1>1, <2>2, SameRefusals, ExpireShape DEF Expire, RefusalInvariant
  <2>3. ASSUME NEW t \in Tabs, LoggedOut(t) \/ ChangePassword(t) \/ HandleLogout(t)
        PROVE  RefusalInvariant'
    BY <2>3, LoggedOutRefusals, ServerRefusals
  <2>4. ASSUME NEW r \in Requesters, \/ Find(r) \/ Revoke(r) \/ CreateSession(r) \/ Fail(r)
                                     \/ Refused(r) \/ Accepted(r) \/ Unheard(r) \/ TimesOut(r)
        PROVE  RefusalInvariant'
    BY <2>4, ServerRefusals, RevokeRefusals, CreateRefusals, RefusedRefusals, AcceptedRefusals,
       UnheardRefusals, TimesOutRefusals
  <2>5. ASSUME NEW c \in Calls, Unauthorized(c) PROVE RefusalInvariant'
    BY <2>5, UnauthorizedRefusals
  <2>. QED
    BY <1>2, <2>1, <2>2, <2>3, <2>4, <2>5 DEF SessionNext
<1>3. ASSUME NEW t \in Tabs, Reload(t) PROVE RefusalInvariant'
  BY <1>3, ReloadRefusals
<1>4. CASE (\E c \in Calls : OneCall(c))
           \/ UNCHANGED <<sessions, cookie, access, shown, refreshing, request, call>>
  <2>1. UNCHANGED <<sessions, cookie, request>>
    BY <1>4 DEF OneCall
  <2>. QED
    BY <1>1, <2>1, SameRefusals, ShapeInductive DEF RefusalInvariant
<1>. QED
  BY <1>1, <1>2, <1>3, <1>4, WebSteps

\* A renewal is refused only when another request with its token was under way, or the
\* session had been ended or lost (lib/axios/client.ts, auth.service.ts).
THEOREM RefusalsHaveCauses == WebSpec => []RefusedHasCause
<1>1. WebInit => RefusalInvariant
  <2>1. ASSUME WebInit PROVE CookieExplained /\ \A r \in Requesters : RenewalExplained(r)
    <3>1. sessions = <<NewSession(0, FALSE)>> /\ cookie = 1 /\ \A r \in Requesters : request[r] = Idle
      BY <2>1 DEF WebInit, SessionInit
    <3>2. ~sessions[1].revoked
      BY <3>1 DEF NewSession
    <3>. QED
      BY <3>1, <3>2, IdleFacts DEF CookieExplained, RenewalExplained, Asks
  <2>. QED
    BY <2>1, ShapeInit DEF RefusalInvariant
<1>2. RefusalInvariant /\ [WebNext]_webVars => RefusalInvariant'
  BY RefusalInductive
<1>3. RefusalInvariant => RefusedHasCause
  <2> SUFFICES ASSUME RefusalInvariant, NEW r \in Requesters, request[r].kind = "refresh",
                      request[r].at = "refused", request[r].token # 0
               PROVE  request[r].met \/ sessions[request[r].token].fates # {}
    BY DEF RefusedHasCause
  <2>1. RequestForm(r) /\ RenewalExplained(r)
    BY DEF RefusalInvariant, SessionShape
  <2>2. sessions[request[r].token].revoked
    BY <2>1 DEF RequestForm
  <2>. QED
    BY <2>1, <2>2 DEF RenewalExplained, Renewing, Asks
<1>. QED
  BY <1>1, <1>2, <1>3, PTL DEF WebSpec

-----------------------------------------------------------------------------
(* What an ended session has ended.                                        *)

LEMMA CookieChildKept ==
    ASSUME SessionShape, SessionsGrow, NEW x \in DOMAIN sessions, CookieChild(x),
           cookie' = cookie,
           \A r \in Requesters : request[r].fresh # 0 /\ request[r].token = cookie /\ cookie # 0 =>
             \/ request'[r].token = cookie /\ request'[r].fresh = request[r].fresh
             \/ "lost" \in sessions'[cookie].fates
    PROVE  CookieChild(x)'
<1>1. SUFFICES ASSUME sessions[x].parent = cookie, cookie # 0
               PROVE  \/ sessions'[x].met \/ "lost" \in sessions'[cookie].fates
                      \/ \E r \in Requesters : request'[r].token = cookie /\ request'[r].fresh = x
  BY DEF CookieChild, Broken, SessionsGrow
<1>2. cookie \in DOMAIN sessions /\ x # 0
  BY <1>1, SessionFacts DEF SessionShape
<1>3. \/ sessions[x].met \/ "lost" \in sessions[cookie].fates
      \/ \E r \in Requesters : request[r].token = cookie /\ request[r].fresh = x
  BY <1>1 DEF CookieChild, Broken
<1>. QED
  BY <1>1, <1>2, <1>3 DEF SessionsGrow

\* A logout that was under way goes on, or is over.
LEMMA ChildrenKept ==
    ASSUME EndingInvariant, SessionsGrow,
           \A r \in Requesters :
             \/ request'[r] = Idle
             \/ /\ request'[r].kind = request[r].kind /\ request'[r].token = request[r].token
                /\ request'[r].kind = "logout" /\ request'[r].at = "sent" => request[r].at = "sent"
    PROVE  /\ DOMAIN sessions' = DOMAIN sessions
           /\ \A x \in DOMAIN sessions : sessions[x].parent # 0 =>
                /\ sessions[x].parent \in DOMAIN sessions
                /\ Broken(x, sessions[x].parent) =>
                     sessions'[x].met \/ "lost" \in sessions'[sessions[x].parent].fates
           /\ \A x \in DOMAIN sessions : ParentForm(x)'
           /\ \A o \in Requesters, x \in DOMAIN sessions : LogoutChild(o, x)'
<1>1. SessionShape /\ DOMAIN sessions' = DOMAIN sessions /\ DOMAIN sessions = 1..Len(sessions)
  BY SessionFacts DEF EndingInvariant, SessionShape, SessionsGrow
<1>2. \A x \in DOMAIN sessions : sessions[x].parent \in Nat /\ sessions[x].parent < x
  BY <1>1, SessionFacts DEF SessionShape
<1>3. \A x \in DOMAIN sessions : sessions[x].parent # 0 => sessions[x].parent \in DOMAIN sessions
  BY <1>1, <1>2
<1>4. \A x \in DOMAIN sessions : sessions[x].parent # 0 /\ Broken(x, sessions[x].parent) =>
        sessions'[x].met \/ "lost" \in sessions'[sessions[x].parent].fates
  BY <1>1, <1>3 DEF Broken, SessionsGrow
<1>5. ASSUME NEW x \in DOMAIN sessions PROVE ParentForm(x)'
  BY <1>1, <1>3, <1>5 DEF EndingInvariant, ParentForm, SessionsGrow
<1>6. ASSUME NEW o \in Requesters, NEW x \in DOMAIN sessions PROVE LogoutChild(o, x)'
  <2>1. LogoutChild(o, x) /\ x \in DOMAIN sessions
    BY <1>1 DEF EndingInvariant
  <2>2. CASE request'[o] = Idle
    BY <2>2, IdleFacts DEF LogoutChild
  <2>3. CASE request'[o] # Idle
    <3>1. SUFFICES ASSUME request'[o].kind = "logout", request'[o].at = "sent",
                          request'[o].token # 0, sessions'[x].parent = request'[o].token
                   PROVE  sessions'[x].met \/ "lost" \in sessions'[request'[o].token].fates
      BY DEF LogoutChild, Broken
    <3>2. sessions[x].met \/ "lost" \in sessions[request[o].token].fates
      BY <2>1, <2>3, <3>1 DEF LogoutChild, Broken, SessionsGrow
    <3>3. request[o].token \in DOMAIN sessions /\ request'[o].token = request[o].token
      BY <1>3, <2>1, <2>3, <3>1 DEF SessionsGrow
    <3>. QED
      BY <2>1, <3>2, <3>3 DEF SessionsGrow
  <2>. QED
    BY <2>2, <2>3
<1>. QED
  BY <1>1, <1>3, <1>4, <1>5, <1>6

\* Nobody is ended: the sessions that are stay the same.
LEMMA QuietEnding ==
    ASSUME EndingInvariant, SessionsGrow,
           \A s \in DOMAIN sessions : \A x \in {"logout", "password"} :
             x \in sessions'[s].fates => x \in sessions[s].fates,
           \A r \in Requesters :
             \/ request'[r] = Idle
             \/ /\ request'[r].kind = request[r].kind /\ request'[r].token = request[r].token
                /\ request[r].met => request'[r].met
                /\ request'[r].kind = "logout" /\ request'[r].at = "sent" => request[r].at = "sent"
                /\ request'[r].kind = "refresh" /\ request'[r].at \in {"found", "revoked"} =>
                     \/ request[r].at \in {"found", "revoked"}
                     \/ request[r].token \in DOMAIN sessions /\ ~sessions[request[r].token].revoked,
           \A x \in DOMAIN sessions : CookieChild(x)',
           SessionShape'
    PROVE  EndingInvariant'
<1>1. /\ DOMAIN sessions' = DOMAIN sessions
      /\ \A x \in DOMAIN sessions : ParentForm(x)'
      /\ \A o \in Requesters, x \in DOMAIN sessions : LogoutChild(o, x)'
  BY ChildrenKept
<1>4. \A x \in DOMAIN sessions : sessions[x].parent # 0 /\ Broken(x, sessions[x].parent) =>
        sessions'[x].met \/ "lost" \in sessions'[sessions[x].parent].fates
  BY ChildrenKept
<1>7. \E X \in SUBSET DOMAIN sessions' : EndedSet(X)' /\ Spared(X)'
  <2>1. PICK X \in SUBSET DOMAIN sessions : EndedSet(X) /\ Spared(X)
    BY DEF EndingInvariant
  <2>2. ASSUME NEW s \in DOMAIN sessions', sessions'[s].fates \cap {"logout", "password"} # {}
        PROVE  s \in X
    BY <1>1, <2>1, <2>2 DEF EndedSet
  <2>3. ASSUME NEW s \in DOMAIN sessions', sessions'[s].parent # 0, sessions'[s].parent \in X,
               ~sessions'[s].met, "lost" \notin sessions'[sessions'[s].parent].fates
        PROVE  s \in X
    <3>1. s \in DOMAIN sessions /\ sessions'[s].parent = sessions[s].parent
      BY <1>1 DEF SessionsGrow
    <3>2. ~Broken(s, sessions[s].parent)
      BY <1>4, <2>3, <3>1
    <3>. QED
      BY <2>1, <2>3, <3>1, <3>2 DEF EndedSet
  <2>4. EndedSet(X)'
    BY <2>2, <2>3 DEF EndedSet, Broken
  <2>5. \A s \in X : sessions'[s].revoked
    BY <2>1 DEF Spared, SessionsGrow
  <2>6. ASSUME NEW r \in Requesters, request'[r].kind = "refresh",
               request'[r].at \in {"found", "revoked"}, request'[r].token \in X
        PROVE  request'[r].met
    BY <2>1, <2>6, IdleFacts DEF Spared
  <2>7. Spared(X)'
    BY <2>5, <2>6 DEF Spared
  <2>. QED
    BY <1>1, <2>4, <2>7
<1>. QED
  BY <1>1, <1>7 DEF EndingInvariant

LEMMA SameEnding ==
    ASSUME EndingInvariant, UNCHANGED <<sessions, cookie, request>>, SessionShape'
    PROVE  EndingInvariant'
<1>1. SessionTypes
  BY DEF EndingInvariant, SessionShape
<1>2. SessionsGrow
  BY <1>1, SessionsSame
<1>3. \A x \in DOMAIN sessions : CookieChild(x)'
  BY DEF EndingInvariant, CookieChild, Broken
<1>. QED
  BY <1>2, <1>3, QuietEnding

\* The requests go on or are over, and no session is ended.
LEMMA GoingEnding ==
    ASSUME EndingInvariant, SessionsGrow, cookie' = cookie, SessionShape',
           \A s \in DOMAIN sessions : \A x \in {"logout", "password"} :
             x \in sessions'[s].fates => x \in sessions[s].fates,
           \A r \in Requesters :
             \/ /\ request'[r] = Idle
                /\ request[r].fresh # 0 /\ request[r].token # 0 =>
                     "lost" \in sessions'[request[r].token].fates
             \/ /\ request'[r].kind = request[r].kind /\ request'[r].token = request[r].token
                /\ request'[r].fresh = request[r].fresh
                /\ request[r].met => request'[r].met
                /\ request'[r].kind = "logout" /\ request'[r].at = "sent" => request[r].at = "sent"
                /\ request'[r].kind = "refresh" /\ request'[r].at \in {"found", "revoked"} =>
                     \/ request[r].at \in {"found", "revoked"}
                     \/ request[r].token \in DOMAIN sessions /\ ~sessions[request[r].token].revoked
    PROVE  EndingInvariant'
<1>1. \A x \in DOMAIN sessions : CookieChild(x)'
  BY CookieChildKept DEF EndingInvariant
<1>. QED
  BY <1>1, QuietEnding

LEMMA StageEnding ==
    ASSUME EndingInvariant,
           \E r \in Requesters : Find(r) \/ Revoke(r) \/ Fail(r)
    PROVE  EndingInvariant'
<1>1. SessionShape /\ SessionTypes
  BY DEF EndingInvariant, SessionShape
<1>2. ASSUME NEW r \in Requesters, Find(r) PROVE EndingInvariant'
  <2>1. PICK at \in {"found", "refused"} :
          at = IF request[r].kind = "login" \/ Live(request[r].token) THEN "found" ELSE "refused"
    OBVIOUS
  <2>2. request' = [request EXCEPT ![r].at = at] /\ sessions' = sessions /\ cookie' = cookie
        /\ request[r].at = "sent"
    BY <1>2, <2>1 DEF Find, Step, ServerOnly
  <2>3. at \in RequestStages /\ at # "idle" /\ request[r].at # "idle"
    BY <2>2 DEF RequestStages
  <2>4. \A o \in Requesters :
          /\ request'[o].kind = request[o].kind /\ request'[o].token = request[o].token
          /\ request'[o].fresh = request[o].fresh /\ request'[o].met = request[o].met
          /\ request'[o].at = IF o = r THEN at ELSE request[o].at
    BY <1>1, <2>2, <2>3, StepEffect
  <2>5. at = "found" /\ request[r].kind = "refresh" =>
          request[r].token \in DOMAIN sessions /\ ~sessions[request[r].token].revoked
    BY <2>1 DEF Live
  <2>6. SessionsGrow
    BY <1>1, <2>2, SessionsSame
  <2>7. SessionShape'
    BY <1>1, <1>2, FindShape
  <2>. QED
    BY <2>2, <2>4, <2>5, <2>6, <2>7, GoingEnding
<1>3. ASSUME NEW r \in Requesters, Revoke(r) PROVE EndingInvariant'
  <2>1. request[r].at = "found" /\ request[r].kind = "refresh" /\ cookie' = cookie
        /\ request' = [request EXCEPT ![r].at = "revoked"]
    BY <1>3 DEF Revoke, ServerOnly, Step
  <2>2. "revoked" \in RequestStages /\ "revoked" # "idle" /\ request[r].at # "idle"
    BY <2>1 DEF RequestStages
  <2>3. \A o \in Requesters :
          /\ request'[o].kind = request[o].kind /\ request'[o].token = request[o].token
          /\ request'[o].fresh = request[o].fresh /\ request'[o].met = request[o].met
          /\ request'[o].at = IF o = r THEN "revoked" ELSE request[o].at
    BY <1>1, <2>1, <2>2, StepEffect
  <2>4. request[r].token \in DOMAIN sessions
    <3>1. RequestForm(r)
      BY <1>1 DEF SessionShape
    <3>. QED
      BY <1>1, <2>1, <3>1, SessionFacts DEF RequestForm
  <2>5. SessionsGrow /\ \A s \in DOMAIN sessions : sessions'[s].fates = sessions[s].fates
    BY <1>1, <1>3, <2>4, RevokeEffect DEF Revoke
  <2>6. SessionShape'
    BY <1>1, <1>3, RevokeShape
  <2>. QED
    BY <2>1, <2>3, <2>5, <2>6, GoingEnding
<1>4. ASSUME NEW r \in Requesters, Fail(r) PROVE EndingInvariant'
  <2>1. request[r].at \in {"sent", "found", "revoked"} /\ cookie' = cookie
        /\ request' = [request EXCEPT ![r].at = "failed"]
    BY <1>4 DEF Fail, Step
  <2>2. "failed" \in RequestStages /\ "failed" # "idle" /\ request[r].at # "idle"
    BY <2>1 DEF RequestStages
  <2>3. \A o \in Requesters :
          /\ request'[o].kind = request[o].kind /\ request'[o].token = request[o].token
          /\ request'[o].fresh = request[o].fresh /\ request'[o].met = request[o].met
          /\ request'[o].at = IF o = r THEN "failed" ELSE request[o].at
    BY <1>1, <2>1, <2>2, StepEffect
  <2>4. /\ SessionsGrow
        /\ \A s \in DOMAIN sessions : \A x \in {"logout", "password"} :
             x \in sessions'[s].fates => x \in sessions[s].fates
    <3>1. CASE request[r].at = "revoked"
      BY <1>1, <1>4, <3>1, LostEffect DEF Fail
    <3>2. CASE request[r].at # "revoked"
      BY <1>1, <1>4, <3>2, SessionsSame DEF Fail
    <3>. QED
      BY <3>1, <3>2
  <2>5. SessionShape'
    BY <1>1, <1>4, FailShape
  <2>. QED
    BY <2>1, <2>3, <2>4, <2>5, GoingEnding
<1>. QED
  BY <1>2, <1>3, <1>4

LEMMA AnswerEnding ==
    ASSUME EndingInvariant,
           \/ \E r \in Requesters : Refused(r) \/ TimesOut(r) \/ Unheard(r)
           \/ \E t \in Tabs : Reload(t)
    PROVE  EndingInvariant'
<1>1. SessionShape /\ SessionTypes
  BY DEF EndingInvariant, SessionShape
<1>2. ASSUME NEW r \in Requesters, Refused(r) PROVE EndingInvariant'
  <2>1. request[r].at \in {"refused", "failed"} /\ sessions' = sessions /\ cookie' = cookie
    BY <1>2 DEF Refused
  <2>2. request[r].fresh = 0
    BY <1>1, <2>1 DEF SessionShape, RequestForm
  <2>3. \A o \in Requesters : request'[o] = IF o = r THEN Idle ELSE request[o]
    BY <1>1, <1>2, OverEffect DEF Refused
  <2>4. SessionsGrow /\ SessionShape'
    BY <1>1, <1>2, <2>1, SessionsSame, RefusedShape
  <2>. QED
    BY <2>1, <2>2, <2>3, <2>4, GoingEnding
<1>3. ASSUME NEW r \in Requesters, TimesOut(r) PROVE EndingInvariant'
  <2>1. sessions' = sessions /\ cookie' = cookie
    BY <1>3 DEF TimesOut
  <2>2. \A o \in Requesters :
          /\ request'[o].kind = request[o].kind /\ request'[o].token = request[o].token
          /\ request'[o].fresh = request[o].fresh /\ request'[o].at = request[o].at
          /\ request'[o].met = request[o].met
    BY <1>1, <1>3, DeafEffect DEF TimesOut
  <2>3. SessionsGrow /\ SessionShape'
    BY <1>1, <1>3, <2>1, SessionsSame, TimesOutShape
  <2>. QED
    BY <2>1, <2>2, <2>3, GoingEnding
<1>4. ASSUME NEW r \in Requesters, Unheard(r) PROVE EndingInvariant'
  <2>1. cookie' = cookie
    BY <1>4 DEF Unheard
  <2>2. \A o \in Requesters : request'[o] = IF o = r THEN Idle ELSE request[o]
    BY <1>1, <1>4, OverEffect DEF Unheard
  <2>3. /\ SessionsGrow
        /\ \A s \in DOMAIN sessions : \A x \in {"logout", "password"} :
             x \in sessions'[s].fates => x \in sessions[s].fates
        /\ request[r].fresh # 0 /\ request[r].token # 0 =>
             "lost" \in sessions'[request[r].token].fates
    <3>1. CASE request[r].fresh # 0
      <4>1. sessions' = Lost(request[r].token)
        BY <1>4, <3>1 DEF Unheard
      <4>2. request[r].token # 0 => request[r].token \in DOMAIN sessions
        BY <1>1, SessionFacts DEF SessionShape, RequestForm
      <4>. QED
        BY <1>1, <4>1, <4>2, LostEffect
    <3>2. CASE request[r].fresh = 0
      BY <1>1, <1>4, <3>2, SessionsSame DEF Unheard
    <3>. QED
      BY <3>1, <3>2
  <2>4. SessionShape'
    BY <1>1, <1>4, UnheardShape
  <2>. QED
    BY <2>1, <2>2, <2>3, <2>4, GoingEnding
<1>5. ASSUME NEW t \in Tabs, Reload(t) PROVE EndingInvariant'
  <2>1. sessions' = sessions /\ cookie' = cookie /\ Forgotten(t)
    BY <1>5 DEF Reload
  <2>2. \A o \in Requesters :
          /\ request'[o].kind = request[o].kind /\ request'[o].token = request[o].token
          /\ request'[o].fresh = request[o].fresh /\ request'[o].at = request[o].at
          /\ request'[o].met = request[o].met
    BY <1>1, <2>1, ForgottenEffect
  <2>3. SessionsGrow /\ SessionShape'
    BY <1>1, <1>5, <2>1, SessionsSame, ReloadShape
  <2>. QED
    BY <2>1, <2>2, <2>3, GoingEnding
<1>. QED
  BY <1>2, <1>3, <1>4, <1>5

\* The cookie is replaced by a session that has no renewal yet, or is taken away.
LEMMA CookieEnding ==
    ASSUME EndingInvariant,
           \/ \E r \in Requesters : Accepted(r)
           \/ \E t \in Tabs : LoggedOut(t)
    PROVE  EndingInvariant'
<1>1. SessionShape /\ SessionTypes
  BY DEF EndingInvariant, SessionShape
<1>2. PICK r \in Requesters : /\ request' = [request EXCEPT ![r] = Idle] /\ sessions' = sessions
                              /\ cookie' = 0 \/ cookie' = request[r].fresh
  BY DEF Accepted, LoggedOut, Requesters
<1>3. \A o \in Requesters : request'[o] = IF o = r THEN Idle ELSE request[o]
  BY <1>1, <1>2, OverEffect
<1>4. SessionsGrow /\ SessionShape'
  BY <1>1, <1>2, SessionsSame, AcceptedShape, LoggedOutShape
<1>5. FreshIsNew(r)
  BY <1>1 DEF SessionShape
<1>6. \A x \in DOMAIN sessions : CookieChild(x)'
  BY <1>2, <1>5 DEF CookieChild, FreshIsNew
<1>. QED
  BY <1>2, <1>3, <1>4, <1>6, QuietEnding

\* logout ends the session of its token: every renewal of it has met the logout.
LEMMA LogoutEnding ==
    ASSUME EndingInvariant, NEW t \in Tabs, HandleLogout(t)
    PROVE  EndingInvariant'
<1>1. SessionShape /\ SessionTypes /\ t \in Requesters
  BY DEF EndingInvariant, SessionShape, Requesters
<1>2. PICK at \in {"answered", "failed"} :
        /\ request[t].at = "sent" /\ request[t].kind = "logout" /\ cookie' = cookie
        /\ request' = [request EXCEPT ![t].at = at]
  BY DEF HandleLogout, Step
<1>3. at \in RequestStages /\ at # "idle" /\ request[t].at # "idle"
  BY <1>2 DEF RequestStages
<1>4. \A o \in Requesters :
        /\ request'[o].kind = request[o].kind /\ request'[o].token = request[o].token
        /\ request'[o].fresh = request[o].fresh /\ request'[o].met = request[o].met
        /\ request'[o].at = IF o = t THEN at ELSE request[o].at
  BY <1>1, <1>2, <1>3, StepEffect
<1>5. PICK k \in Nat : k = request[t].token
  BY <1>1, SessionFacts
<1>6. /\ SessionsGrow
      /\ \A s \in DOMAIN sessions :
           /\ sessions'[s].revoked <=> (s = k \/ sessions[s].revoked)
           /\ sessions'[s].fates = IF s = k THEN sessions[s].fates \cup {"logout"}
                                   ELSE sessions[s].fates
  <2>1. /\ SessionsGrow
        /\ \A s \in DOMAIN sessions :
             /\ sessions'[s].revoked <=> (s = request[t].token \/ sessions[s].revoked)
             /\ sessions'[s].fates = IF s = request[t].token
                                     THEN sessions[s].fates \cup {"logout"} ELSE sessions[s].fates
    BY <1>1, LogoutEffect DEF HandleLogout
  <2>. QED
    BY <1>5, <2>1
<1>7. SessionShape'
  BY <1>1, HandleLogoutShape
<1>8. /\ DOMAIN sessions' = DOMAIN sessions
      /\ \A x \in DOMAIN sessions : sessions[x].parent # 0 =>
           /\ Broken(x, sessions[x].parent) =>
                sessions'[x].met \/ "lost" \in sessions'[sessions[x].parent].fates
      /\ \A x \in DOMAIN sessions : ParentForm(x)'
      /\ \A o \in Requesters, x \in DOMAIN sessions : LogoutChild(o, x)'
  BY <1>4, <1>6, ChildrenKept
<1>9. \A x \in DOMAIN sessions : CookieChild(x)'
  BY <1>1, <1>2, <1>4, <1>6, CookieChildKept DEF EndingInvariant
<1>10. PICK X \in SUBSET DOMAIN sessions : EndedSet(X) /\ Spared(X)
  BY DEF EndingInvariant
<1>11. PICK Y : Y = {s \in DOMAIN sessions : s \in X \/ s = k}
  OBVIOUS
<1>12. ASSUME NEW s \in DOMAIN sessions', sessions'[s].fates \cap {"logout", "password"} # {}
       PROVE  s \in Y
  BY <1>6, <1>8, <1>10, <1>11, <1>12 DEF EndedSet
<1>13. ASSUME NEW s \in DOMAIN sessions', sessions'[s].parent # 0, sessions'[s].parent \in Y,
              ~sessions'[s].met, "lost" \notin sessions'[sessions'[s].parent].fates
       PROVE  s \in Y
  <2>1. s \in DOMAIN sessions /\ sessions'[s].parent = sessions[s].parent
    BY <1>6, <1>8 DEF SessionsGrow
  <2>2. ~Broken(s, sessions[s].parent)
    BY <1>8, <1>13, <2>1
  <2>3. CASE sessions[s].parent \in X
    BY <1>10, <1>11, <1>13, <2>1, <2>2, <2>3 DEF EndedSet
  <2>4. CASE sessions[s].parent = k
    BY <1>1, <1>2, <1>5, <1>13, <2>1, <2>2, <2>4 DEF EndingInvariant, LogoutChild
  <2>. QED
    BY <1>11, <1>13, <2>1, <2>3, <2>4
<1>14. EndedSet(Y)'
  BY <1>12, <1>13 DEF EndedSet, Broken
<1>15. \A s \in Y : sessions'[s].revoked
  BY <1>6, <1>10, <1>11 DEF Spared
<1>16. ASSUME NEW r \in Requesters, request'[r].kind = "refresh",
              request'[r].at \in {"found", "revoked"}, request'[r].token \in Y
       PROVE  request'[r].met
  <2>1. request[r].kind = "refresh" /\ request[r].at \in {"found", "revoked"} /\ r # t
        /\ request[r].token \in Y
    BY <1>2, <1>4, <1>16
  <2>2. CASE request[r].token \in X
    BY <1>4, <1>10, <2>1, <2>2 DEF Spared
  <2>3. CASE request[r].token = k
    BY <1>1, <1>2, <1>4, <1>5, <2>1, <2>3 DEF SessionShape, PairsMet, Asks
  <2>. QED
    BY <1>11, <2>1, <2>2, <2>3
<1>17. Spared(Y)'
  BY <1>15, <1>16 DEF Spared
<1>18. Y \in SUBSET DOMAIN sessions'
  BY <1>8, <1>11
<1>. QED
  BY <1>7, <1>8, <1>9, <1>14, <1>17, <1>18 DEF EndingInvariant

\* changePassword ends the live sessions: none of them has been renewed.
LEMMA PasswordEnding ==
    ASSUME EndingInvariant, NEW t \in Tabs, ChangePassword(t)
    PROVE  EndingInvariant'
<1>1. SessionShape /\ SessionTypes
  BY DEF EndingInvariant, SessionShape
<1>2. cookie' = cookie
  BY DEF ChangePassword, ServerOnly
<1>4. \A o \in Requesters :
        /\ request'[o].kind = request[o].kind /\ request'[o].token = request[o].token
        /\ request'[o].fresh = request[o].fresh /\ request'[o].at = request[o].at
        /\ request'[o].met <=> request[o].met \/ o \in InFlight
  BY <1>1, PasswordRequests DEF ChangePassword
<1>6. /\ SessionsGrow
      /\ \A s \in DOMAIN sessions :
           /\ sessions'[s].revoked
           /\ sessions'[s].fates = IF sessions[s].revoked THEN sessions[s].fates
                                   ELSE sessions[s].fates \cup {"password"}
  BY <1>1, PasswordEffect DEF ChangePassword
<1>7. SessionShape'
  BY <1>1, ChangePasswordShape
<1>8. /\ DOMAIN sessions' = DOMAIN sessions
      /\ \A x \in DOMAIN sessions : sessions[x].parent # 0 =>
           /\ sessions[x].parent \in DOMAIN sessions
           /\ Broken(x, sessions[x].parent) =>
                sessions'[x].met \/ "lost" \in sessions'[sessions[x].parent].fates
      /\ \A x \in DOMAIN sessions : ParentForm(x)'
      /\ \A o \in Requesters, x \in DOMAIN sessions : LogoutChild(o, x)'
  BY <1>4, <1>6, ChildrenKept
<1>9. \A x \in DOMAIN sessions : CookieChild(x)'
  BY <1>1, <1>2, <1>4, <1>6, CookieChildKept DEF EndingInvariant
<1>10. PICK X \in SUBSET DOMAIN sessions : EndedSet(X) /\ Spared(X)
  BY DEF EndingInvariant
<1>11. PICK Y : Y = {s \in DOMAIN sessions : s \in X \/ ~sessions[s].revoked}
  OBVIOUS
<1>12. ASSUME NEW s \in DOMAIN sessions', sessions'[s].fates \cap {"logout", "password"} # {}
       PROVE  s \in Y
  BY <1>6, <1>8, <1>10, <1>11, <1>12 DEF EndedSet
<1>13. ASSUME NEW s \in DOMAIN sessions', sessions'[s].parent # 0, sessions'[s].parent \in Y,
              ~sessions'[s].met, "lost" \notin sessions'[sessions'[s].parent].fates
       PROVE  s \in Y
  <2>1. s \in DOMAIN sessions /\ sessions'[s].parent = sessions[s].parent
    BY <1>6, <1>8 DEF SessionsGrow
  <2>2. ~Broken(s, sessions[s].parent)
    BY <1>8, <1>13, <2>1
  <2>3. sessions[sessions[s].parent].revoked
    BY <1>13, <2>1 DEF EndingInvariant, ParentForm
  <2>4. sessions[s].parent \in X
    BY <1>11, <1>13, <2>1, <2>3
  <2>. QED
    BY <1>10, <1>11, <1>13, <2>1, <2>2, <2>4 DEF EndedSet
<1>14. EndedSet(Y)'
  BY <1>12, <1>13 DEF EndedSet, Broken
<1>15. \A s \in Y : sessions'[s].revoked
  BY <1>6, <1>11
<1>16. ASSUME NEW r \in Requesters, request'[r].at \in {"found", "revoked"}
       PROVE  request'[r].met
  BY <1>4, <1>16 DEF InFlight
<1>17. Spared(Y)'
  BY <1>15, <1>16 DEF Spared
<1>18. Y \in SUBSET DOMAIN sessions'
  BY <1>8, <1>11
<1>. QED
  BY <1>7, <1>8, <1>9, <1>14, <1>17, <1>18 DEF EndingInvariant

\* A renewal of an ended session goes on only when it was met.
LEMMA CreateEnding ==
    ASSUME EndingInvariant, NEW r \in Requesters, CreateSession(r)
    PROVE  EndingInvariant'
<1>1. SessionShape /\ SessionTypes /\ RequestForm(r)
  BY DEF EndingInvariant, SessionShape
<1>2. PICK n : n = Len(sessions) + 1
  OBVIOUS
<1>3. /\ n \in Nat /\ n \notin DOMAIN sessions
      /\ DOMAIN sessions' = DOMAIN sessions \cup {n}
      /\ \A s \in DOMAIN sessions : sessions'[s] = sessions[s]
      /\ sessions'[n].parent = IF request[r].kind = "login" THEN 0 ELSE request[r].token
      /\ sessions'[n].met = request[r].met
      /\ ~sessions'[n].revoked /\ sessions'[n].fates = {}
      /\ \A o \in Requesters :
           /\ request'[o].kind = request[o].kind /\ request'[o].token = request[o].token
           /\ request'[o].met = request[o].met
           /\ request'[o].at = IF o = r THEN "answered" ELSE request[o].at
           /\ request'[o].fresh = IF o = r THEN n ELSE request[o].fresh
  BY <1>1, <1>2, CreateFacts
<1>4. \/ request[r].at = "revoked" /\ request[r].kind = "refresh" /\ request[r].fresh = 0
         /\ request[r].token # 0 /\ sessions[request[r].token].revoked
         /\ request[r].token \in DOMAIN sessions
      \/ request[r].at = "found" /\ request[r].kind = "login" /\ request[r].fresh = 0
  BY <1>1, CreateFacts, SessionFacts DEF RequestForm
<1>5. cookie' = cookie
  BY DEF CreateSession, ServerOnly
<1>6. SessionShape'
  BY <1>1, CreateSessionShape
<1>7. \A x \in DOMAIN sessions :
        x # 0 /\ (sessions[x].parent # 0 => sessions[x].parent \in DOMAIN sessions)
  <2>1. DOMAIN sessions = 1..Len(sessions) /\ Len(sessions) \in Nat
    BY <1>1, SessionFacts
  <2>2. \A x \in DOMAIN sessions : sessions[x].parent \in Nat /\ sessions[x].parent < x
    BY <1>1, SessionFacts DEF SessionShape
  <2>. QED
    BY <2>1, <2>2
<1>8. ASSUME NEW x \in DOMAIN sessions', x # n
      PROVE  ParentForm(x)' /\ CookieChild(x)' /\ \A o \in Requesters : LogoutChild(o, x)'
  <2>1. x \in DOMAIN sessions /\ sessions'[x] = sessions[x] /\ x # 0
    BY <1>3, <1>7, <1>8
  <2>2. sessions[x].parent # 0 => sessions'[sessions[x].parent] = sessions[sessions[x].parent]
    BY <1>3, <1>7, <2>1
  <2>3. ParentForm(x)'
    BY <2>1, <2>2 DEF EndingInvariant, ParentForm
  <2>4. CookieChild(x)'
    <3>1. SUFFICES ASSUME sessions[x].parent = cookie, cookie # 0
                   PROVE  \/ sessions[x].met \/ "lost" \in sessions[cookie].fates
                          \/ \E o \in Requesters : request'[o].token = cookie /\ request'[o].fresh = x
      BY <1>5, <2>1, <2>2 DEF CookieChild, Broken
    <3>2. Broken(x, cookie) \/ \E o \in Requesters : request[o].token = cookie /\ request[o].fresh = x
      BY <2>1, <3>1 DEF EndingInvariant, CookieChild
    <3>3. \A o \in Requesters : request[o].fresh = x => o # r
      BY <1>4, <2>1
    <3>. QED
      BY <1>3, <3>2, <3>3 DEF Broken
  <2>5. ASSUME NEW o \in Requesters PROVE LogoutChild(o, x)'
    <3>1. LogoutChild(o, x)
      BY <2>1 DEF EndingInvariant
    <3>. QED
      BY <1>3, <2>1, <2>2, <3>1 DEF LogoutChild, Broken
  <2>. QED
    BY <2>3, <2>4, <2>5
<1>9. ParentForm(n)'
  BY <1>3, <1>4 DEF ParentForm
<1>10. CookieChild(n)'
  BY <1>3, <1>4, <1>5 DEF CookieChild
<1>11. ASSUME NEW o \in Requesters PROVE LogoutChild(o, n)'
  <2>1. SUFFICES ASSUME request[o].kind = "logout", request'[o].at = "sent", request[o].token # 0,
                        sessions'[n].parent = request[o].token
                 PROVE  request[r].met
    BY <1>3 DEF LogoutChild, Broken
  <2>2. o # r /\ request[o].at = "sent"
    BY <1>3, <2>1
  <2>3. request[r].at = "revoked" /\ request[r].kind = "refresh" /\ request[r].token = request[o].token
    BY <1>3, <1>4, <2>1
  <2>. QED
    BY <1>1, <2>1, <2>2, <2>3 DEF SessionShape, PairsMet, Asks
<1>12. PICK X \in SUBSET DOMAIN sessions : EndedSet(X) /\ Spared(X)
  BY DEF EndingInvariant
<1>13. ASSUME NEW s \in DOMAIN sessions', sessions'[s].fates \cap {"logout", "password"} # {}
       PROVE  s \in X
  BY <1>3, <1>12, <1>13 DEF EndedSet
<1>14. ASSUME NEW s \in DOMAIN sessions', sessions'[s].parent # 0, sessions'[s].parent \in X,
              ~sessions'[s].met, "lost" \notin sessions'[sessions'[s].parent].fates
       PROVE  s \in X
  <2>1. CASE s = n
    <3>1. request[r].kind = "refresh" /\ request[r].at = "revoked" /\ request[r].token \in X
      BY <1>3, <1>4, <1>14, <2>1
    <3>2. request[r].met
      BY <1>12, <3>1 DEF Spared
    <3>. QED
      BY <1>3, <1>14, <2>1, <3>2
  <2>2. CASE s # n
    <3>1. s \in DOMAIN sessions /\ sessions'[s] = sessions[s]
      BY <1>3, <2>2
    <3>2. sessions'[sessions[s].parent] = sessions[sessions[s].parent]
      BY <1>3, <1>7, <1>14, <3>1
    <3>3. ~Broken(s, sessions[s].parent)
      BY <1>14, <3>1, <3>2 DEF Broken
    <3>. QED
      BY <1>12, <1>14, <3>1, <3>3 DEF EndedSet
  <2>. QED
    BY <2>1, <2>2
<1>15. EndedSet(X)'
  BY <1>13, <1>14 DEF EndedSet, Broken
<1>16. Spared(X)'
  BY <1>3, <1>12 DEF Spared
<1>17. X \in SUBSET DOMAIN sessions'
  BY <1>3
<1>18. ASSUME NEW x \in DOMAIN sessions' PROVE ParentForm(x)' /\ CookieChild(x)'
  BY <1>8, <1>9, <1>10
<1>19. ASSUME NEW o \in Requesters, NEW x \in DOMAIN sessions' PROVE LogoutChild(o, x)'
  BY <1>8, <1>11
<1>. QED
  BY <1>6, <1>15, <1>16, <1>17, <1>18, <1>19 DEF EndingInvariant

\* A logout that is sent meets the renewal whose session it does not know of.
LEMMA SentEnding ==
    ASSUME EndingInvariant, NEW r \in Requesters, NEW kind \in {"refresh", "login", "logout"},
           request[r].at = "idle", MeetsAll(r), request' = Sent(r, kind),
           sessions' = IF kind = "login" THEN sessions ELSE Met(r), cookie' = cookie,
           r \in Calls => kind = "refresh", SessionShape'
    PROVE  EndingInvariant'
<1>1. SessionShape /\ SessionTypes /\ RequestForm(r)
  BY DEF EndingInvariant, SessionShape
<1>2. /\ SessionsGrow
      /\ \A s \in DOMAIN sessions : /\ sessions'[s].revoked = sessions[s].revoked
                                    /\ sessions'[s].fates = sessions[s].fates
  BY <1>1, SentShape
<1>3. \A o \in Requesters \ {r} :
        /\ request'[o].kind = request[o].kind /\ request'[o].token = request[o].token
        /\ request'[o].fresh = request[o].fresh /\ request'[o].at = request[o].at
        /\ request[o].met => request'[o].met
  BY <1>1, SentEffect
<1>4. request'[r].kind = kind /\ request'[r].at = "sent" /\ request'[r].token = cookie
  BY <1>1, SentEffect
<1>5. DOMAIN sessions' = DOMAIN sessions /\ DOMAIN sessions = 1..Len(sessions)
  BY <1>1, <1>2, SessionFacts DEF SessionsGrow
<1>6. \A x \in DOMAIN sessions : sessions[x].parent # 0 => sessions[x].parent \in DOMAIN sessions
  <2>1. \A x \in DOMAIN sessions : sessions[x].parent \in Nat /\ sessions[x].parent < x
    BY <1>1, SessionFacts DEF SessionShape
  <2>. QED
    BY <1>5, <2>1
<1>7. \A x \in DOMAIN sessions : ParentForm(x)'
  BY <1>2, <1>6 DEF EndingInvariant, ParentForm, SessionsGrow
<1>8. \A x \in DOMAIN sessions : CookieChild(x)'
  <2>1. request[r].fresh = 0
    BY <1>1 DEF RequestForm
  <2>. QED
    BY <1>1, <1>2, <1>3, <2>1, CookieChildKept DEF EndingInvariant
<1>9. ASSUME NEW o \in Requesters, NEW x \in DOMAIN sessions PROVE LogoutChild(o, x)'
  <2>1. LogoutChild(o, x) /\ CookieChild(x)
    BY DEF EndingInvariant
  <2>2. CASE o # r
    <3>1. LogoutChild(o, x) /\ sessions'[x].parent = sessions[x].parent
          /\ (sessions[x].met => sessions'[x].met)
      BY <1>2, <2>1 DEF SessionsGrow
    <3>2. sessions[x].parent # 0 => sessions'[sessions[x].parent].fates = sessions[sessions[x].parent].fates
      BY <1>2, <1>6
    <3>. QED
      BY <1>3, <2>2, <3>1, <3>2 DEF LogoutChild, Broken
  <2>3. CASE o = r
    <3>1. SUFFICES ASSUME kind = "logout", cookie # 0, sessions[x].parent = cookie
                   PROVE  sessions'[x].met \/ "lost" \in sessions'[cookie].fates
      BY <1>2, <1>4, <2>3 DEF LogoutChild, Broken, SessionsGrow
    <3>2. CASE Broken(x, cookie)
      BY <1>2, <1>6, <3>1, <3>2 DEF Broken, SessionsGrow
    <3>3. CASE ~Broken(x, cookie)
      <4>1. PICK q \in Requesters : request[q].token = cookie /\ request[q].fresh = x
        BY <2>1, <3>1, <3>3 DEF CookieChild
      <4>2. x # 0
        BY <1>5
      <4>3. request[q].at # "idle"
        BY <1>1, <4>1, <4>2 DEF SessionShape, RequestForm
      <4>4. Meets(r, q)
        BY <4>1, <4>3 DEF MeetsAll
      <4>5. sessions' = Met(r)
        BY <3>1
      <4>. QED
        BY <1>1, <4>1, <4>4, <4>5, MetEffect
    <3>. QED
      BY <3>2, <3>3
  <2>. QED
    BY <2>2, <2>3
<1>10. PICK X \in SUBSET DOMAIN sessions : EndedSet(X) /\ Spared(X)
  BY DEF EndingInvariant
<1>11. EndedSet(X)'
  <2>1. \A s \in DOMAIN sessions' : sessions'[s].fates \cap {"logout", "password"} # {} => s \in X
    BY <1>2, <1>5, <1>10 DEF EndedSet
  <2>2. ASSUME NEW s \in DOMAIN sessions', sessions'[s].parent # 0, sessions'[s].parent \in X,
               ~sessions'[s].met, "lost" \notin sessions'[sessions'[s].parent].fates
        PROVE  s \in X
    BY <1>2, <1>5, <1>6, <1>10, <2>2 DEF EndedSet, Broken, SessionsGrow
  <2>. QED
    BY <2>1, <2>2 DEF EndedSet, Broken
<1>12. Spared(X)'
  <2>1. \A s \in X : sessions'[s].revoked
    BY <1>2, <1>10 DEF Spared
  <2>2. ASSUME NEW o \in Requesters, request'[o].kind = "refresh",
               request'[o].at \in {"found", "revoked"}, request'[o].token \in X
        PROVE  request'[o].met
    <3>1. o # r
      BY <1>4, <2>2
    <3>. QED
      BY <1>3, <1>10, <2>2, <3>1 DEF Spared
  <2>. QED
    BY <2>1, <2>2 DEF Spared
<1>. QED
  BY <1>5, <1>7, <1>8, <1>9, <1>10, <1>11, <1>12 DEF EndingInvariant

LEMMA AskEnding ==
    ASSUME EndingInvariant,
           \/ \E t \in Tabs : Load(t) \/ Login(t) \/ Logout(t)
           \/ \E c \in Calls : Unauthorized(c)
    PROVE  EndingInvariant'
<1>1. SessionShape
  BY DEF EndingInvariant
<1>2. ASSUME NEW t \in Tabs, NEW kind \in {"refresh", "login", "logout"}, Ask(t, kind)
      PROVE  EndingInvariant'
  <2>1. t \in Requesters /\ t \notin Calls
    BY SessionBounds DEF Requesters
  <2>2. /\ request[t].at = "idle" /\ request' = Sent(t, kind)
        /\ sessions' = IF kind = "login" THEN sessions ELSE Met(t)
        /\ cookie' = cookie
    BY <1>2 DEF Ask
  <2>3. SessionShape'
    BY <1>1, <1>2, AskShape
  <2>. QED
    BY <2>1, <2>2, <2>3, TabMeetsAll, SentEnding
<1>3. ASSUME NEW c \in Calls, Unauthorized(c) PROVE EndingInvariant'
  <2>1. c \in Requesters /\ cookie' = cookie /\ call[c].at = "sent"
    BY <1>3 DEF Unauthorized, Requesters
  <2>2. SessionShape'
    BY <1>1, <1>3, UnauthorizedShape
  <2>3. CASE ~call[c].retried /\ call[c].heard /\ StartsRefresh(call[c].tab)
    <3>1. /\ request[c].at = "idle" /\ request' = Sent(c, "refresh") /\ sessions' = Met(c)
          /\ StartsRefresh(call[c].tab)
      BY <1>3, <2>3 DEF Unauthorized
    <3>2. MeetsAll(c)
      BY <1>1, <2>1, <3>1, CallMeetsAll
    <3>. QED
      BY <2>1, <2>2, <3>1, <3>2, SentEnding
  <2>4. CASE ~(~call[c].retried /\ call[c].heard /\ StartsRefresh(call[c].tab))
    <3>1. request' = request /\ sessions' = sessions
      BY <1>3, <2>4 DEF Unauthorized
    <3>. QED
      BY <2>1, <2>2, <3>1, SameEnding
  <2>. QED
    BY <2>3, <2>4
<1>. QED
  BY <1>2, <1>3 DEF Load, Login, Logout

LEMMA EndingInductive == ASSUME EndingInvariant, [WebNext]_webVars PROVE EndingInvariant'
<1>1. SessionShape /\ SessionShape'
  BY ShapeInductive DEF EndingInvariant
<1>2. CASE SessionNext
  <2>1. ASSUME NEW t \in Tabs, Load(t) \/ Login(t) \/ Logout(t) PROVE EndingInvariant'
    BY <2>1, AskEnding
  <2>2. ASSUME NEW t \in Tabs, Expire(t) PROVE EndingInvariant'
    BY <1>1, <2>2, SameEnding DEF Expire
  <2>3. ASSUME NEW t \in Tabs, LoggedOut(t) \/ ChangePassword(t) \/ HandleLogout(t)
        PROVE  EndingInvariant'
    BY <2>3, CookieEnding, PasswordEnding, LogoutEnding
  <2>4. ASSUME NEW r \in Requesters, \/ Find(r) \/ Revoke(r) \/ CreateSession(r) \/ Fail(r)
                                     \/ Refused(r) \/ Accepted(r) \/ Unheard(r) \/ TimesOut(r)
        PROVE  EndingInvariant'
    BY <2>4, StageEnding, CreateEnding, AnswerEnding, CookieEnding
  <2>5. ASSUME NEW c \in Calls, Unauthorized(c) PROVE EndingInvariant'
    BY <2>5, AskEnding
  <2>. QED
    BY <1>2, <2>1, <2>2, <2>3, <2>4, <2>5 DEF SessionNext
<1>3. ASSUME NEW t \in Tabs, Reload(t) PROVE EndingInvariant'
  BY <1>3, AnswerEnding
<1>4. CASE (\E c \in Calls : OneCall(c))
           \/ UNCHANGED <<sessions, cookie, access, shown, refreshing, request, call>>
  <2>1. UNCHANGED <<sessions, cookie, request>>
    BY <1>4 DEF OneCall
  <2>. QED
    BY <1>1, <2>1, SameEnding
<1>. QED
  BY <1>1, <1>2, <1>3, <1>4, WebSteps

-----------------------------------------------------------------------------
\* What the recursive function says of s, when e says it of the others.
EndedBy(e, s) ==
  IF s = 0 THEN FALSE
  ELSE LET p == sessions[s].parent IN
       \/ sessions[s].fates \cap {"logout", "password"} # {}
       \/ /\ p # 0 /\ e[p]
          /\ ~sessions[s].met /\ "lost" \notin sessions[p].fates

\* The sessions that are in every set that has what was ended and what was renewed
\* from it make a solution of the recursion: the function is what it looks like.
LEMMA EndedIsDefined ==
    ASSUME SessionShape
    PROVE  Ended = [s \in 0..Len(sessions) |-> EndedBy(Ended, s)]
<1> DEFINE least == {s \in DOMAIN sessions :
                       \A Y \in SUBSET DOMAIN sessions : EndedSet(Y) => s \in Y}
           f == [s \in 0..Len(sessions) |-> s \in least]
<1>1. DOMAIN sessions = 1..Len(sessions) /\ Len(sessions) \in Nat
      /\ \A s \in DOMAIN sessions : sessions[s].parent \in Nat /\ sessions[s].parent < s
  BY SessionFacts DEF SessionShape
<1>2. \A s \in DOMAIN sessions : sessions[s].fates \cap {"logout", "password"} # {} => s \in least
  BY DEF EndedSet
<1>3. ASSUME NEW s \in DOMAIN sessions, sessions[s].parent # 0, sessions[s].parent \in least,
             ~Broken(s, sessions[s].parent)
      PROVE  s \in least
  BY <1>3 DEF EndedSet
<1>4. ASSUME NEW s \in least, sessions[s].fates \cap {"logout", "password"} = {}
      PROVE  /\ sessions[s].parent # 0 /\ sessions[s].parent \in least
             /\ ~Broken(s, sessions[s].parent)
  <2>1. SUFFICES ASSUME ~(/\ sessions[s].parent # 0 /\ sessions[s].parent \in least
                          /\ ~Broken(s, sessions[s].parent))
                 PROVE  FALSE
    OBVIOUS
  <2>2. PICK Y : Y = {x \in least : x # s}
    OBVIOUS
  <2>3. s \in DOMAIN sessions /\ Y \in SUBSET DOMAIN sessions
        /\ \A Z \in SUBSET DOMAIN sessions : EndedSet(Z) => s \in Z
    BY <2>2
  <2> HIDE DEF least
  <2>4. EndedSet(Y)
    <3>1. \A x \in DOMAIN sessions : sessions[x].fates \cap {"logout", "password"} # {} => x \in Y
      BY <1>2, <1>4, <2>2
    <3>2. ASSUME NEW x \in DOMAIN sessions, sessions[x].parent # 0, sessions[x].parent \in Y,
                 ~Broken(x, sessions[x].parent)
          PROVE  x \in Y
      BY <1>3, <2>1, <2>2, <3>2
    <3>. QED
      BY <3>1, <3>2 DEF EndedSet
  <2>. QED
    BY <2>2, <2>3, <2>4
<1> HIDE DEF least
<1>5. ASSUME NEW s \in 0..Len(sessions) PROVE (s \in least) <=> EndedBy(f, s)
  <2>1. CASE s = 0
    <3>1. 0 \notin least
      BY <1>1 DEF least
    <3>. QED
      BY <2>1, <3>1 DEF EndedBy
  <2>2. CASE s # 0
    <3>1. s \in DOMAIN sessions /\ sessions[s].parent \in 0..Len(sessions)
      BY <1>1, <2>2
    <3>2. PICK p \in 0..Len(sessions) : p = sessions[s].parent
      BY <3>1
    <3>3. f[p] <=> p \in least
      OBVIOUS
    <3> HIDE DEF f
    <3>4. EndedBy(f, s) <=> \/ sessions[s].fates \cap {"logout", "password"} # {}
                            \/ p # 0 /\ p \in least /\ ~Broken(s, p)
      BY <2>2, <3>2, <3>3 DEF EndedBy, Broken
    <3>. QED
      BY <1>2, <1>3, <1>4, <3>1, <3>2, <3>4
  <2>. QED
    BY <2>1, <2>2
<1>6. f = [s \in 0..Len(sessions) |-> EndedBy(f, s)]
  <2>1. \A s \in 0..Len(sessions) : EndedBy(f, s) \in BOOLEAN
    BY DEF EndedBy
  <2>2. \A s \in 0..Len(sessions) : (s \in least) = EndedBy(f, s)
    BY <1>5, <2>1
  <2>. QED
    BY <2>2
<1>7. Ended = CHOOSE e : e = [s \in 0..Len(sessions) |-> EndedBy(e, s)]
  BY DEF Ended, EndedBy
<1>. QED
  BY <1>6, <1>7

LEMMA EndedWithin ==
    ASSUME SessionShape, NEW X \in SUBSET DOMAIN sessions, EndedSet(X)
    PROVE  \A s \in DOMAIN sessions : Ended[s] => s \in X
<1>1. DOMAIN sessions = 1..Len(sessions) /\ Len(sessions) \in Nat
      /\ \A s \in DOMAIN sessions : sessions[s].parent \in Nat /\ sessions[s].parent < s
  BY SessionFacts DEF SessionShape
<1> DEFINE out == {s \in DOMAIN sessions : Ended[s] /\ s \notin X}
<1>2. SUFFICES ASSUME out # {} PROVE FALSE
  OBVIOUS
<1>3. out \in SUBSET Nat
  BY <1>1
<1>4. PICK s \in out : \A m \in out : ~(m < s)
  <2> HIDE DEF out
  <2>. QED
    BY <1>2, <1>3, LeastOf
<1>5. Ended[s] <=> EndedBy(Ended, s)
  <2>1. PICK e : e = Ended
    OBVIOUS
  <2>2. e = [x \in 0..Len(sessions) |-> EndedBy(e, x)]
    BY <2>1, EndedIsDefined
  <2>3. s \in 0..Len(sessions)
    BY <1>1
  <2>4. e[s] = EndedBy(e, s)
    BY <2>2, <2>3
  <2>. QED
    BY <2>1, <2>4
<1>6. s \in DOMAIN sessions /\ s # 0 /\ s \notin X /\ EndedBy(Ended, s)
  BY <1>1, <1>5
<1>7. PICK p \in Nat : p = sessions[s].parent /\ p < s
  BY <1>1
<1>8. \/ sessions[s].fates \cap {"logout", "password"} # {}
      \/ p # 0 /\ Ended[p] /\ ~Broken(s, p)
  BY <1>6, <1>7 DEF EndedBy, Broken
<1>9. p # 0 /\ Ended[p] => p \in X
  BY <1>1, <1>4, <1>7
<1>. QED
  BY <1>6, <1>7, <1>8, <1>9 DEF EndedSet

LEMMA EndingInit == ASSUME WebInit PROVE EndingInvariant
<1>1. sessions = <<NewSession(0, FALSE)>> /\ \A r \in Requesters : request[r] = Idle
  BY DEF WebInit, SessionInit
<1>2. DOMAIN sessions = {1} /\ sessions[1].parent = 0 /\ sessions[1].fates = {}
      /\ cookie = 1
  BY <1>1 DEF NewSession, WebInit, SessionInit
<1>3. \A x \in DOMAIN sessions : ParentForm(x) /\ CookieChild(x)
  BY <1>2 DEF ParentForm, CookieChild
<1>4. \A o \in Requesters, x \in DOMAIN sessions : LogoutChild(o, x)
  BY <1>1, IdleFacts DEF LogoutChild
<1>5. EndedSet({}) /\ Spared({})
  BY <1>2 DEF EndedSet, Spared
<1>. QED
  BY <1>3, <1>4, <1>5, ShapeInit DEF EndingInvariant

\* logout and changePassword end what they name, over the whole chain of renewals,
\* unless a request with the same token was under way or an answer was lost
\* (auth.service.ts).
THEOREM EndedStayEnded == WebSpec => []EndedUnlessRaced
<1>1. WebInit => EndingInvariant
  BY EndingInit
<1>2. EndingInvariant /\ [WebNext]_webVars => EndingInvariant'
  BY EndingInductive
<1>3. EndingInvariant => EndedUnlessRaced
  <2> SUFFICES ASSUME EndingInvariant, NEW s \in DOMAIN sessions, Ended[s]
               PROVE  sessions[s].revoked
    BY DEF EndedUnlessRaced, Live
  <2>1. PICK X \in SUBSET DOMAIN sessions : EndedSet(X) /\ Spared(X)
    BY DEF EndingInvariant
  <2>2. s \in X
    BY <2>1, EndedWithin DEF EndingInvariant
  <2>. QED
    BY <2>1, <2>2 DEF Spared
<1>. QED
  BY <1>1, <1>2, <1>3, PTL DEF WebSpec

-----------------------------------------------------------------------------
(* What the actions of the pages do to their rows.                         *)

LEMMA PageFacts ==
    ASSUME PageTypes
    PROVE  /\ IsRow(row) /\ row.version \in Nat
           /\ \A c \in Calls : IsJob(job[c])
           /\ \A t \in Pages :
                /\ view[t].version \in Nat /\ row.told[t] \in Nat
                /\ form[t] \in [open : Nat, known : Nat, told : Nat, saved : BOOLEAN]
                /\ form[t].open \in Nat /\ form[t].known \in Nat /\ form[t].told \in Nat
                /\ form[t].saved \in BOOLEAN
           /\ DOMAIN docs = 1..Len(docs) /\ Len(docs) \in Nat
           /\ \A o \in DOMAIN docs : docs[o] \in [done : Nat, lost : Nat]
                                     /\ docs[o].done \in Nat /\ docs[o].lost \in Nat
<1>1. DOMAIN docs = 1..Len(docs) /\ Len(docs) \in Nat
      /\ \A o \in DOMAIN docs : docs[o] \in [done : Nat, lost : Nat]
  <2>1. docs \in Seq([done : Nat, lost : Nat]) /\ DOMAIN docs = 1..Len(docs) /\ Len(docs) \in Nat
    BY DEF PageTypes
  <2>2. \A o \in DOMAIN docs : docs[o] \in [done : Nat, lost : Nat]
    BY <2>1, ElementOfSeq
  <2>. QED
    BY <2>1, <2>2
<1>2. IsRow(row) /\ row.version \in Nat /\ \A t \in Pages : row.told[t] \in Nat
  BY DEF PageTypes, IsRow
<1>. QED
  BY <1>1, <1>2 DEF PageTypes

LEMMA NoJobFacts ==
    /\ IsRow(NoRow) /\ IsJob(NoJob)
    /\ NoJob.on = FALSE /\ NoJob.opening = 0 /\ NoJob.moved = 0 /\ NoJob.since = 0
<1>1. IsRow(NoRow)
  BY DEF IsRow, NoRow
<1>2. NoJob = [on |-> FALSE, opening |-> 0, step |-> 0, known |-> 0, told |-> 0, moved |-> 0,
               since |-> 0, against |-> NoRow]
  BY DEF NoJob
<1>. QED
  BY <1>1, <1>2 DEF IsJob

\* The submission of one call is replaced.
JobReplaced(c, j) ==
  /\ job' = [d \in Calls |-> job'[d]] /\ \A d \in Calls : IsJob(job[d])'
  /\ \A d \in Calls : job'[d] = IF d = c THEN j ELSE job[d]

LEMMA ReplaceJob ==
    ASSUME PageTypes, NEW c \in Calls, NEW j, IsJob(j), job' = [job EXCEPT ![c] = j]
    PROVE  JobReplaced(c, j)
<1>1. \A d \in Calls : job'[d] = IF d = c THEN j ELSE job[d]
  BY DEF PageTypes
<1>2. job' = [d \in Calls |-> job'[d]]
  BY DEF PageTypes
<1>3. ASSUME NEW d \in Calls PROVE IsJob(job'[d])
  BY <1>1, PageFacts
<1>. QED
  BY <1>1, <1>2, <1>3 DEF JobReplaced, IsJob

Submission(o, s, v, k, n) ==
  [NoJob EXCEPT !.on = TRUE, !.opening = o, !.step = s, !.since = v, !.known = k, !.told = n]

LEMMA NewJob ==
    ASSUME NEW o, NEW s, NEW v, NEW k, NEW n
    PROVE  Submission(o, s, v, k, n)
             = [on |-> TRUE, opening |-> o, step |-> s, known |-> k, told |-> n,
                moved |-> 0, since |-> v, against |-> NoRow]
<1>1. PICK j1 : j1 = [NoJob EXCEPT !.on = TRUE]
  OBVIOUS
<1>2. j1 = [on |-> TRUE, opening |-> 0, step |-> 0, known |-> 0, told |-> 0,
            moved |-> 0, since |-> 0, against |-> NoRow]
  BY <1>1 DEF NoJob
<1>3. PICK j2 : j2 = [j1 EXCEPT !.opening = o]
  OBVIOUS
<1>4. j2 = [on |-> TRUE, opening |-> o, step |-> 0, known |-> 0, told |-> 0,
            moved |-> 0, since |-> 0, against |-> NoRow]
  BY <1>3, <1>2
<1>5. PICK j3 : j3 = [j2 EXCEPT !.step = s]
  OBVIOUS
<1>6. j3 = [on |-> TRUE, opening |-> o, step |-> s, known |-> 0, told |-> 0,
            moved |-> 0, since |-> 0, against |-> NoRow]
  BY <1>5, <1>4
<1>7. PICK j4 : j4 = [j3 EXCEPT !.since = v]
  OBVIOUS
<1>8. j4 = [on |-> TRUE, opening |-> o, step |-> s, known |-> 0, told |-> 0,
            moved |-> 0, since |-> v, against |-> NoRow]
  BY <1>7, <1>6
<1>9. PICK j5 : j5 = [j4 EXCEPT !.known = k]
  OBVIOUS
<1>10. j5 = [on |-> TRUE, opening |-> o, step |-> s, known |-> k, told |-> 0,
             moved |-> 0, since |-> v, against |-> NoRow]
  BY <1>9, <1>8
<1>11. PICK j6 : j6 = [j5 EXCEPT !.told = n]
  OBVIOUS
<1>12. j6 = [on |-> TRUE, opening |-> o, step |-> s, known |-> k, told |-> n,
             moved |-> 0, since |-> v, against |-> NoRow]
  BY <1>11, <1>10
<1>13. Submission(o, s, v, k, n) = j6
  BY <1>1, <1>3, <1>5, <1>7, <1>9, <1>11 DEF Submission
<1>. QED
  BY <1>12, <1>13

LEMMA ClickedJob ==
    ASSUME NEW k, NEW n
    PROVE  [NoJob EXCEPT !.on = TRUE, !.step = 1, !.known = k, !.told = n]
             = [on |-> TRUE, opening |-> 0, step |-> 1, known |-> k, told |-> n,
                moved |-> 0, since |-> 0, against |-> NoRow]
<1>1. PICK j1 : j1 = [NoJob EXCEPT !.on = TRUE]
  OBVIOUS
<1>2. j1 = [on |-> TRUE, opening |-> 0, step |-> 0, known |-> 0, told |-> 0,
            moved |-> 0, since |-> 0, against |-> NoRow]
  BY <1>1 DEF NoJob
<1>3. PICK j2 : j2 = [j1 EXCEPT !.step = 1]
  OBVIOUS
<1>4. j2 = [on |-> TRUE, opening |-> 0, step |-> 1, known |-> 0, told |-> 0,
            moved |-> 0, since |-> 0, against |-> NoRow]
  BY <1>3, <1>2
<1>5. PICK j3 : j3 = [j2 EXCEPT !.known = k]
  OBVIOUS
<1>6. j3 = [on |-> TRUE, opening |-> 0, step |-> 1, known |-> k, told |-> 0,
            moved |-> 0, since |-> 0, against |-> NoRow]
  BY <1>5, <1>4
<1>7. PICK j4 : j4 = [j3 EXCEPT !.told = n]
  OBVIOUS
<1>8. j4 = [on |-> TRUE, opening |-> 0, step |-> 1, known |-> k, told |-> n,
            moved |-> 0, since |-> 0, against |-> NoRow]
  BY <1>7, <1>6
<1>9. [NoJob EXCEPT !.on = TRUE, !.step = 1, !.known = k, !.told = n] = j4
  BY <1>1, <1>3, <1>5, <1>7
<1>. QED
  BY <1>8, <1>9

LEMMA SubmitJob ==
    ASSUME PageTypes, NEW t \in Pages, NEW c \in Calls, Submit(t, c)
    PROVE  \E j : /\ JobReplaced(c, j) /\ j.on = TRUE /\ j.opening = form[t].open
                  /\ j.step = (IF form[t].saved THEN 2 ELSE 1)
                  /\ j.since = row.version /\ j.known = form[t].known /\ j.told = form[t].told
<1>1. PICK s \in Nat : s = IF form[t].saved THEN 2 ELSE 1
  OBVIOUS
<1>2. PICK j : j = [on |-> TRUE, opening |-> form[t].open, step |-> s, known |-> form[t].known,
                    told |-> form[t].told, moved |-> 0, since |-> row.version, against |-> NoRow]
  OBVIOUS
<1>3. job' = [job EXCEPT ![c] = j]
  <2>1. job' = [job EXCEPT ![c] = Submission(form[t].open, s, row.version, form[t].known,
                                             form[t].told)]
    BY <1>1 DEF Submit, Send, Submission
  <2>. QED
    BY <1>2, <2>1, NewJob
<1>4. /\ j.on = TRUE /\ j.opening = form[t].open /\ j.step = s /\ j.known = form[t].known
      /\ j.told = form[t].told /\ j.moved = 0 /\ j.since = row.version /\ j.against = NoRow
  BY <1>2
<1>5. IsJob(j)
  BY <1>1, <1>2, <1>4, NoJobFacts, PageFacts DEF IsJob
<1>6. JobReplaced(c, j)
  BY <1>3, <1>5, ReplaceJob
<1>. QED
  BY <1>1, <1>4, <1>6

LEMMA ClickJob ==
    ASSUME PageTypes, NEW t \in Pages, NEW c \in Calls, Click(t, c)
    PROVE  \E j : /\ JobReplaced(c, j) /\ j.on = TRUE /\ j.opening = 0 /\ j.step = 1
                  /\ j.since = 0 /\ j.known = view[t].version /\ j.told = row.told[t]
<1>2. PICK j : j = [on |-> TRUE, opening |-> 0, step |-> 1, known |-> view[t].version,
                    told |-> row.told[t], moved |-> 0, since |-> 0, against |-> NoRow]
  OBVIOUS
<1>3. job' = [job EXCEPT ![c] = j]
  <2>1. j = [NoJob EXCEPT !.on = TRUE, !.step = 1, !.known = view[t].version, !.told = row.told[t]]
    BY <1>2, ClickedJob, Zenon
  <2>. QED
    BY <2>1 DEF Click, Send
<1>4. /\ j.on = TRUE /\ j.opening = 0 /\ j.step = 1 /\ j.known = view[t].version
      /\ j.told = row.told[t] /\ j.moved = 0 /\ j.since = 0 /\ j.against = NoRow
  BY <1>2
<1>5. IsJob(j)
  BY <1>2, <1>4, NoJobFacts, PageFacts DEF IsJob
<1>6. JobReplaced(c, j)
  BY <1>3, <1>5, ReplaceJob
<1>. QED
  BY <1>4, <1>6

\* The row moves, or stays.
LEMMA MovedFacts ==
    ASSUME PageTypes, NEW to, NEW own, row' = Moved(to, own)
    PROVE  /\ IsRow(row)' /\ row'.told = row.told
           /\ IF to = row.status THEN row' = row
              ELSE row'.version = row.version + 1 /\ row'.status = to
<1>1. CASE to = row.status
  <2>1. row' = row
    BY <1>1 DEF Moved
  <2>. QED
    BY <1>1, <2>1, PageFacts
<1>2. CASE to # row.status
  <2>1. row' = [status |-> to, version |-> row.version + 1, own |-> own, told |-> row.told]
    BY <1>2 DEF Moved
  <2>2. row'.version = row.version + 1 /\ row'.status = to /\ row'.told = row.told
        /\ row'.own = own
    BY <2>1
  <2>3. row.version + 1 \in Nat /\ row.told \in [Pages -> Nat]
    BY PageFacts DEF IsRow
  <2>. QED
    BY <1>2, <2>1, <2>2, <2>3 DEF IsRow
<1>. QED
  BY <1>1, <1>2

LEMMA HandleJob ==
    ASSUME PageTypes, NEW c \in Calls, NEW to,
           row' = Moved(to, TRUE),
           job' = [job EXCEPT ![c].moved = IF to # row.status THEN row.version + 1 ELSE @,
                              ![c].since = row'.version]
    PROVE  \E j : /\ JobReplaced(c, j) /\ j.on = job[c].on /\ j.opening = job[c].opening
                  /\ j.step = job[c].step /\ j.known = job[c].known /\ j.told = job[c].told
                  /\ j.since = row'.version /\ j.against = job[c].against
<1>1. IsJob(job[c]) /\ row.version \in Nat
  BY PageFacts
<1>2. row'.version \in Nat
  BY MovedFacts DEF IsRow
<1>3. PICK m \in Nat : m = IF to # row.status THEN row.version + 1 ELSE job[c].moved
  BY <1>1 DEF IsJob
<1>4. PICK j : j = [on |-> job[c].on, opening |-> job[c].opening, step |-> job[c].step,
                    known |-> job[c].known, told |-> job[c].told, moved |-> m,
                    since |-> row'.version, against |-> job[c].against]
  OBVIOUS
<1>5. /\ j.on = job[c].on /\ j.opening = job[c].opening /\ j.step = job[c].step
      /\ j.known = job[c].known /\ j.told = job[c].told /\ j.moved = m
      /\ j.since = row'.version /\ j.against = job[c].against
  BY <1>4
<1>6. IsJob(j)
  BY <1>1, <1>2, <1>3, <1>4, <1>5 DEF IsJob
<1>7. job' = [job EXCEPT ![c] = j]
  <2>1. PICK j1 : j1 = [job[c] EXCEPT !.moved = m]
    OBVIOUS
  <2>2. j1 = [on |-> job[c].on, opening |-> job[c].opening, step |-> job[c].step,
              known |-> job[c].known, told |-> job[c].told, moved |-> m,
              since |-> job[c].since, against |-> job[c].against]
    BY <1>1, <2>1 DEF IsJob
  <2>3. PICK v \in Nat : v = row'.version
    BY <1>2
  <2>4. j = [j1 EXCEPT !.since = v]
    <3>1. IsJob(j1)
      BY <1>1, <1>3, <2>1, <2>2 DEF IsJob
    <3>2. j1.on = job[c].on /\ j1.opening = job[c].opening /\ j1.step = job[c].step
          /\ j1.known = job[c].known /\ j1.told = job[c].told /\ j1.moved = m
          /\ j1.against = job[c].against
      BY <2>2
    <3>3. [j1 EXCEPT !.since = v]
            = [on |-> j1.on, opening |-> j1.opening, step |-> j1.step, known |-> j1.known,
               told |-> j1.told, moved |-> j1.moved, since |-> v, against |-> j1.against]
      BY <3>1 DEF IsJob
    <3>. QED
      BY <1>4, <2>3, <3>2, <3>3
  <2>5. job' = [job EXCEPT ![c] = [j1 EXCEPT !.since = v]]
    BY <1>3, <2>1, <2>3 DEF PageTypes
  <2>. QED
    BY <2>4, <2>5
<1>8. JobReplaced(c, j)
  BY <1>6, <1>7, ReplaceJob
<1>. QED
  BY <1>5, <1>8

LEMMA RejectJob ==
    ASSUME PageTypes, NEW c \in Calls, job' = [job EXCEPT ![c].against = row]
    PROVE  \E j : /\ JobReplaced(c, j) /\ j.on = job[c].on /\ j.opening = job[c].opening
                  /\ j.step = job[c].step /\ j.known = job[c].known /\ j.told = job[c].told
                  /\ j.since = job[c].since /\ j.against = row
<1>1. IsJob(job[c]) /\ IsRow(row)
  BY PageFacts
<1>2. PICK j : j = [on |-> job[c].on, opening |-> job[c].opening, step |-> job[c].step,
                    known |-> job[c].known, told |-> job[c].told, moved |-> job[c].moved,
                    since |-> job[c].since, against |-> row]
  OBVIOUS
<1>3. /\ j.on = job[c].on /\ j.opening = job[c].opening /\ j.step = job[c].step
      /\ j.known = job[c].known /\ j.told = job[c].told /\ j.moved = job[c].moved
      /\ j.since = job[c].since /\ j.against = row
  BY <1>2
<1>4. IsJob(j)
  BY <1>1, <1>2, <1>3 DEF IsJob
<1>5. job' = [job EXCEPT ![c] = j]
  <2>1. j = [job[c] EXCEPT !.against = row]
    BY <1>1, <1>2 DEF IsJob
  <2>. QED
    BY <2>1
<1>6. JobReplaced(c, j)
  BY <1>4, <1>5, ReplaceJob
<1>. QED
  BY <1>3, <1>6

LEMMA NextJob ==
    ASSUME PageTypes, NEW c \in Calls, job' = [job EXCEPT ![c] = [job[c] EXCEPT !.step = @ + 1]]
    PROVE  \E j : /\ JobReplaced(c, j) /\ j.on = job[c].on /\ j.opening = job[c].opening
                  /\ j.step = job[c].step + 1 /\ j.known = job[c].known /\ j.told = job[c].told
                  /\ j.since = job[c].since /\ j.against = job[c].against
<1>1. IsJob(job[c])
  BY PageFacts
<1>2. PICK j : j = [on |-> job[c].on, opening |-> job[c].opening, step |-> job[c].step + 1,
                    known |-> job[c].known, told |-> job[c].told, moved |-> job[c].moved,
                    since |-> job[c].since, against |-> job[c].against]
  OBVIOUS
<1>3. /\ j.on = job[c].on /\ j.opening = job[c].opening /\ j.step = job[c].step + 1
      /\ j.known = job[c].known /\ j.told = job[c].told /\ j.moved = job[c].moved
      /\ j.since = job[c].since /\ j.against = job[c].against
  BY <1>2
<1>4. IsJob(j)
  BY <1>1, <1>2, <1>3 DEF IsJob
<1>5. job' = [job EXCEPT ![c] = j]
  <2>1. j = [job[c] EXCEPT !.step = @ + 1]
    BY <1>1, <1>2 DEF IsJob
  <2>. QED
    BY <2>1
<1>6. JobReplaced(c, j)
  BY <1>4, <1>5, ReplaceJob
<1>. QED
  BY <1>3, <1>6

LEMMA ViewEffect ==
    ASSUME PageTypes, NEW t \in Pages, view' = [view EXCEPT ![t] = Current]
    PROVE  /\ view' = [u \in Pages |-> view'[u]] /\ \A u \in Pages : view'[u].version \in Nat
           /\ \A u \in Pages : view'[u] = IF u = t THEN Current ELSE view[u]
<1>1. view' = [u \in Pages |-> view'[u]]
      /\ \A u \in Pages : view'[u] = IF u = t THEN Current ELSE view[u]
  BY DEF PageTypes
<1>2. Current.version = row.version
  BY DEF Current
<1>. QED
  BY <1>1, <1>2, PageFacts

FormRows == [open : Nat, known : Nat, told : Nat, saved : BOOLEAN]

LEMMA FormEffect ==
    ASSUME PageTypes, NEW t \in Pages, NEW f \in FormRows, form' = [form EXCEPT ![t] = f]
    PROVE  /\ form' \in [Pages -> FormRows]
           /\ \A u \in Pages : form'[u] = IF u = t THEN f ELSE form[u]
BY DEF PageTypes, FormRows

LEMMA ClosedFacts ==
    Closed \in FormRows /\ Closed.open = 0 /\ Closed.saved = FALSE
BY DEF Closed, FormRows

LEMMA LeaveEffect ==
    ASSUME PageTypes, LeavePages
    PROVE  /\ form' \in [Pages -> FormRows]
           /\ \A u \in Pages : form'[u] = IF shown'[u] THEN form[u] ELSE Closed
BY ClosedFacts DEF PageTypes, FormRows, LeavePages

DocRows == [done : Nat, lost : Nat]

LEMMA DocEffect ==
    ASSUME PageTypes, NEW o \in DOMAIN docs, NEW d \in DocRows, docs' = [docs EXCEPT ![o] = d]
    PROVE  /\ docs' \in Seq(DocRows) /\ Len(docs') = Len(docs) /\ DOMAIN docs' = DOMAIN docs
           /\ \A p \in DOMAIN docs : docs'[p] = IF p = o THEN d ELSE docs[p]
<1>1. docs \in Seq(DocRows) /\ o \in 1..Len(docs) /\ DOMAIN docs = 1..Len(docs)
  BY PageFacts DEF PageTypes, DocRows
<1>2. docs' \in Seq(DocRows) /\ Len(docs') = Len(docs)
      /\ \A p \in 1..Len(docs) : docs'[p] = IF p = o THEN d ELSE docs[p]
  <2> DEFINE f == docs
  <2>1. f \in Seq(DocRows) /\ o \in 1..Len(f)
    BY <1>1
  <2> HIDE DEF f
  <2>2. /\ [f EXCEPT ![o] = d] \in Seq(DocRows)
        /\ Len([f EXCEPT ![o] = d]) = Len(f)
        /\ \A p \in 1..Len(f) : [f EXCEPT ![o] = d][p] = IF p = o THEN d ELSE f[p]
    BY <2>1, ExceptSeq
  <2>. QED
    BY <2>2 DEF f
<1>3. DOMAIN docs' = 1..Len(docs')
  BY <1>2
<1>. QED
  BY <1>1, <1>2, <1>3

\* One more document of an opening is done.
LEMMA DoneMore ==
    ASSUME PageTypes, NEW o \in DOMAIN docs, docs' = [docs EXCEPT ![o].done = @ + 1]
    PROVE  /\ docs' \in Seq(DocRows) /\ Len(docs') = Len(docs) /\ DOMAIN docs' = DOMAIN docs
           /\ \A p \in DOMAIN docs :
                /\ docs'[p].done = docs[p].done + (IF p = o THEN 1 ELSE 0)
                /\ docs'[p].lost = docs[p].lost
<1>1. docs[o] \in DocRows
  BY PageFacts DEF DocRows
<1>2. PICK d \in DocRows : d = [docs[o] EXCEPT !.done = @ + 1]
  BY <1>1 DEF DocRows
<1>3. d.done = docs[o].done + 1 /\ d.lost = docs[o].lost
  BY <1>1, <1>2 DEF DocRows
<1>4. docs' = [docs EXCEPT ![o] = d]
  BY <1>2
<1>5. /\ docs' \in Seq(DocRows) /\ Len(docs') = Len(docs) /\ DOMAIN docs' = DOMAIN docs
      /\ \A p \in DOMAIN docs : docs'[p] = IF p = o THEN d ELSE docs[p]
  BY <1>4, DocEffect
<1>6. \A p \in DOMAIN docs : docs[p].done \in Nat /\ docs[p].lost \in Nat
  BY PageFacts
<1>. QED
  BY <1>3, <1>5, <1>6

\* One more answer of an opening is lost.
LEMMA LostMore ==
    ASSUME PageTypes, NEW o \in DOMAIN docs, docs' = [docs EXCEPT ![o].lost = @ + 1]
    PROVE  /\ docs' \in Seq(DocRows) /\ Len(docs') = Len(docs) /\ DOMAIN docs' = DOMAIN docs
           /\ \A p \in DOMAIN docs :
                /\ docs'[p].lost = docs[p].lost + (IF p = o THEN 1 ELSE 0)
                /\ docs'[p].done = docs[p].done
<1>1. docs[o] \in DocRows
  BY PageFacts DEF DocRows
<1>2. PICK d \in DocRows : d = [docs[o] EXCEPT !.lost = @ + 1]
  BY <1>1 DEF DocRows
<1>3. d.lost = docs[o].lost + 1 /\ d.done = docs[o].done
  BY <1>1, <1>2 DEF DocRows
<1>4. docs' = [docs EXCEPT ![o] = d]
  BY <1>2
<1>5. /\ docs' \in Seq(DocRows) /\ Len(docs') = Len(docs) /\ DOMAIN docs' = DOMAIN docs
      /\ \A p \in DOMAIN docs : docs'[p] = IF p = o THEN d ELSE docs[p]
  BY <1>4, DocEffect
<1>6. \A p \in DOMAIN docs : docs[p].done \in Nat /\ docs[p].lost \in Nat
  BY PageFacts
<1>. QED
  BY <1>3, <1>5, <1>6

LEMMA OpenedDoc ==
    ASSUME PageTypes, docs' = Append(docs, [done |-> 0, lost |-> 0])
    PROVE  /\ docs' \in Seq(DocRows) /\ Len(docs') = Len(docs) + 1
           /\ DOMAIN docs' = DOMAIN docs \cup {Len(docs) + 1}
           /\ \A p \in DOMAIN docs : docs'[p] = docs[p]
           /\ docs'[Len(docs) + 1].done = 0 /\ docs'[Len(docs) + 1].lost = 0
<1>1. PICK d \in DocRows : d = [done |-> 0, lost |-> 0]
  BY DEF DocRows
<1>2. d.done = 0 /\ d.lost = 0
  BY <1>1
<1>3. docs \in Seq(DocRows) /\ DOMAIN docs = 1..Len(docs) /\ Len(docs) \in Nat
  BY PageFacts DEF PageTypes, DocRows
<1>4. /\ docs' \in Seq(DocRows) /\ Len(docs') = Len(docs) + 1
      /\ \A p \in 1..Len(docs) : docs'[p] = docs[p]
      /\ docs'[Len(docs) + 1] = d
  BY <1>1, <1>3, AppendProperties
<1>5. DOMAIN docs' = 1..(Len(docs) + 1)
  BY <1>4
<1>. QED
  BY <1>2, <1>3, <1>4, <1>5

-----------------------------------------------------------------------------
(* What the sessions do to the submissions: a call waits, goes out again,  *)
(* fails, or loses its page.                                               *)

CallsCalm ==
  \A c \in Calls :
    /\ call'[c].tab = call[c].tab
    /\ call'[c].heard => call[c].heard
    /\ call[c].heard /\ ~call'[c].heard /\ call[c].tab \in Tabs => ~shown'[call[c].tab]
    /\ \/ call'[c].at = call[c].at
       \/ call[c].at \in {"sent", "waiting"} /\ call'[c].at \in {"sent", "waiting", "failed"}

LEMMA CallsSame == ASSUME SessionShape, call' = call PROVE CallsCalm
BY DEF CallsCalm

LEMMA WaitingCalm ==
    ASSUME NEW r, NEW at \in {"sent", "failed"},
           \A c \in Calls :
             /\ call'[c].tab = call[c].tab /\ call'[c].heard = call[c].heard
             /\ call'[c].at = IF c \in Waiting(r) THEN at ELSE call[c].at
    PROVE  CallsCalm
<1>1. \A c \in Waiting(r) : call[c].at = "waiting"
  BY DEF Waiting
<1>. QED
  BY <1>1 DEF CallsCalm

LEMMA SessionCalm == ASSUME SessionShape, SessionNext PROVE CallsCalm
<1>1. SessionTypes
  BY DEF SessionShape
<1>2. ASSUME NEW t \in Tabs, Load(t) \/ Login(t) \/ Logout(t) PROVE CallsCalm
  BY <1>2, CallsSame DEF Load, Login, Logout, Ask
<1>3. ASSUME NEW t \in Tabs, LoggedOut(t) \/ ChangePassword(t) \/ Expire(t) \/ HandleLogout(t)
      PROVE  CallsCalm
  BY <1>3, CallsSame DEF LoggedOut, ChangePassword, Expire, HandleLogout, ServerOnly
<1>4. ASSUME NEW r \in Requesters, Find(r) \/ Revoke(r) \/ CreateSession(r) \/ Fail(r) \/ Unheard(r)
      PROVE  CallsCalm
  BY <1>4, CallsSame DEF Find, Revoke, CreateSession, Fail, Unheard, ServerOnly
<1>5. ASSUME NEW r \in Requesters, Refused(r) \/ TimesOut(r) PROVE CallsCalm
  <2>1. WaitingFail(r)
    BY <1>5 DEF Refused, TimesOut
  <2>. QED
    BY <1>1, <2>1, WaitingFailEffect, WaitingCalm
<1>6. ASSUME NEW r \in Requesters, Accepted(r) PROVE CallsCalm
  BY <1>1, <1>6, AcceptedCalls, WaitingCalm
<1>7. ASSUME NEW c \in Calls, Unauthorized(c) PROVE CallsCalm
  <2>1. call[c].at = "sent"
    BY <1>7 DEF Unauthorized
  <2>2. /\ \A d \in Calls \ {c} : call'[d] = call[d]
        /\ call'[c].tab = call[c].tab /\ call'[c].heard = call[c].heard
        /\ call'[c].at \in {"failed", "waiting"}
    BY <1>7, UnauthorizedCalls
  <2>. QED
    BY <2>1, <2>2 DEF CallsCalm
<1>. QED
  BY <1>2, <1>3, <1>4, <1>5, <1>6, <1>7 DEF SessionNext

LEMMA ReloadCalm ==
    ASSUME SessionShape, PageTypes, NEW t \in Tabs, Reload(t)
    PROVE  CallsCalm
<1>1. SessionTypes
  BY DEF SessionShape
<1>2. Forgotten(t)
  BY DEF Reload
<1>3. \A c \in Calls :
        /\ call'[c].tab = call[c].tab
        /\ call[c].tab # t => call'[c] = call[c]
        /\ call[c].tab = t =>
             /\ call'[c].heard = FALSE
             /\ call'[c].at = IF call[c].at = "waiting" THEN "failed" ELSE call[c].at
  BY <1>1, <1>2, ForgottenEffect
<1>4. ~shown'[t]
  BY <1>2 DEF Forgotten, PageTypes
<1>5. \A c \in Calls : call[c].heard \in BOOLEAN
  BY <1>1, SessionFacts
<1>. QED
  BY <1>3, <1>4, <1>5 DEF CallsCalm

LEMMA ShownKept ==
    ASSUME SessionShape, PageTypes, [WebNext]_webVars
    PROVE  shown' \in [Tabs -> BOOLEAN]
<1>1. shown \in [Tabs -> BOOLEAN]
  BY DEF PageTypes
<1>2. ASSUME NEW t \in Tabs, \/ Load(t) \/ Login(t) \/ Logout(t) \/ LoggedOut(t)
                             \/ ChangePassword(t) \/ Expire(t) \/ HandleLogout(t)
      PROVE  shown' \in [Tabs -> BOOLEAN]
  BY <1>1, <1>2 DEF Load, Login, Logout, Ask, LoggedOut, ChangePassword, Expire, HandleLogout,
     ServerOnly
<1>3. ASSUME NEW r \in Requesters, \/ Find(r) \/ Revoke(r) \/ CreateSession(r) \/ Fail(r)
                                   \/ Refused(r) \/ Accepted(r) \/ Unheard(r) \/ TimesOut(r)
      PROVE  shown' \in [Tabs -> BOOLEAN]
  BY <1>1, <1>3 DEF Find, Revoke, CreateSession, Fail, Refused, Accepted, Unheard, TimesOut,
     ServerOnly
<1>4. ASSUME NEW c \in Calls, Unauthorized(c) PROVE shown' \in [Tabs -> BOOLEAN]
  BY <1>1, <1>4 DEF Unauthorized
<1>5. SessionNext => shown' \in [Tabs -> BOOLEAN]
  BY <1>2, <1>3, <1>4 DEF SessionNext
<1>6. ASSUME NEW t \in Tabs, Reload(t) PROVE shown' \in [Tabs -> BOOLEAN]
  BY <1>1, <1>6 DEF Reload, Forgotten
<1>7. (\E c \in Calls : OneCall(c)) => shown' = shown
  BY DEF OneCall
<1>. QED
  BY <1>1, <1>5, <1>6, <1>7, WebSteps

-----------------------------------------------------------------------------
(* The pages keep their shape.                                             *)

LEMMA SameJob ==
    ASSUME PageTypes, NEW c \in Calls, job' = job
    PROVE  JobReplaced(c, job[c])
BY DEF PageTypes, JobReplaced, IsJob

LEMMA OverJob ==
    ASSUME PageTypes, NEW c \in Calls, job' = [job EXCEPT ![c] = NoJob]
    PROVE  JobReplaced(c, NoJob)
BY ReplaceJob, NoJobFacts

LEMMA ToldEffect ==
    ASSUME PageTypes, NEW t \in Pages, row' = [row EXCEPT !.told[t] = row.version]
    PROVE  /\ IsRow(row)' /\ row'.version = row.version /\ row'.status = row.status
           /\ \A u \in Pages : row'.told[u] = IF u = t THEN row.version ELSE row.told[u]
<1>1. IsRow(row)
  BY PageFacts
<1>2. PICK f \in [Pages -> Nat] : f = [row.told EXCEPT ![t] = row.version]
  BY <1>1 DEF IsRow
<1>3. \A u \in Pages : f[u] = IF u = t THEN row.version ELSE row.told[u]
  BY <1>1, <1>2 DEF IsRow
<1>4. row' = [row EXCEPT !.told = f]
  BY <1>2
<1>5. row' = [status |-> row.status, version |-> row.version, own |-> row.own, told |-> f]
  BY <1>1, <1>4 DEF IsRow
<1>6. row'.version = row.version /\ row'.status = row.status /\ row'.own = row.own /\ row'.told = f
  BY <1>5
<1>. QED
  BY <1>1, <1>3, <1>5, <1>6 DEF IsRow

\* Nothing but the job of one call is replaced that the shape speaks of.
LEMMA OneJobForm ==
    ASSUME PageShape, NEW c \in Calls, OneCall(c), NEW j, JobReplaced(c, j),
           Len(docs') \in Nat, Len(docs') >= Len(docs), j.opening <= Len(docs'),
           j.on => call'[c].at # "idle" /\ call'[c].tab \in Pages
    PROVE  \A d \in Calls : JobForm(d)'
<1> SUFFICES ASSUME NEW d \in Calls PROVE JobForm(d)'
  OBVIOUS
<1>1. JobForm(d) /\ job[d].opening \in Nat /\ Len(docs) \in Nat
  BY PageFacts DEF PageShape, IsJob
<1>2. CASE d = c
  BY <1>2 DEF JobForm, JobReplaced
<1>3. CASE d # c
  BY <1>1, <1>3 DEF JobForm, JobReplaced, OneCall
<1>. QED
  BY <1>2, <1>3

LEMMA OneJobShape ==
    ASSUME PageShape, NEW c \in Calls, OneCall(c), NEW j, JobReplaced(c, j),
           screen' = screen, IsRow(row)',
           view' = [t \in Pages |-> view'[t]], \A t \in Pages : view'[t].version \in Nat,
           form' \in [Pages -> FormRows],
           docs' \in Seq(DocRows), Len(docs') = Len(docs),
           j.opening <= Len(docs), j.on => call'[c].at # "idle" /\ call'[c].tab \in Pages
    PROVE  PageShape'
<1>1. SessionShape'
  BY OneCallShape DEF PageShape
<1>2. shown' \in [Tabs -> BOOLEAN]
  BY DEF OneCall, PageShape, PageTypes
<1>3. screen' \in DOMAIN Screens
  BY DEF PageShape, PageTypes
<1>4. PageTypes'
  BY <1>2, <1>3 DEF PageTypes, FormRows, DocRows, JobReplaced
<1>5. Len(docs) \in Nat
  BY PageFacts DEF PageShape
<1>6. \A d \in Calls : JobForm(d)'
  BY <1>5, OneJobForm
<1>. QED
  BY <1>1, <1>4, <1>6 DEF PageShape

LEMMA RestSame ==
    ASSUME PageShape
    PROVE  /\ row' = row => IsRow(row)'
           /\ view' = view => /\ view' = [t \in Pages |-> view'[t]]
                              /\ \A t \in Pages : view'[t].version \in Nat
           /\ form' = form => form' \in [Pages -> FormRows]
           /\ docs' = docs => docs' \in Seq(DocRows) /\ Len(docs') = Len(docs)
BY DEF PageShape, PageTypes, FormRows, DocRows

LEMMA SubmitShape ==
    ASSUME PageShape, NEW t \in Pages, NEW c \in Calls, Submit(t, c) \/ Click(t, c),
           \A u \in Pages : form[u].open <= Len(docs)
    PROVE  PageShape'
<1>1. SessionShape /\ PageTypes /\ Len(docs) \in Nat
  BY PageFacts DEF PageShape
<1>2. PICK j : JobReplaced(c, j) /\ (j.opening = form[t].open \/ j.opening = 0)
  <2>1. CASE Submit(t, c)
    <3>1. PICK j : /\ JobReplaced(c, j) /\ j.on = TRUE /\ j.opening = form[t].open
                   /\ j.step = (IF form[t].saved THEN 2 ELSE 1)
                   /\ j.since = row.version /\ j.known = form[t].known /\ j.told = form[t].told
      BY <1>1, <2>1, SubmitJob
    <3>. QED
      BY <3>1
  <2>2. CASE Click(t, c)
    <3>1. PICK j : JobReplaced(c, j) /\ j.opening = 0
      BY <1>1, <2>2, ClickJob
    <3>. QED
      BY <3>1
  <2>. QED
    BY <2>1, <2>2
<1>3. j.opening <= Len(docs)
  BY <1>1, <1>2
<1>4. OneCall(c) /\ call'[c].at = "sent" /\ call'[c].tab = t
  BY <1>1, SubmitEffect
<1>5. UNCHANGED <<screen, row, view, form, docs>>
  BY DEF Submit, Click
<1>. QED
  BY <1>2, <1>3, <1>4, <1>5, OneJobShape, RestSame

LEMMA JobOpening ==
    ASSUME PageShape, NEW c \in Calls, job[c].opening # 0
    PROVE  job[c].opening \in DOMAIN docs
<1>1. JobForm(c) /\ job[c].opening \in Nat
  BY PageFacts DEF PageShape, IsJob
<1>2. DOMAIN docs = 1..Len(docs) /\ Len(docs) \in Nat
  BY PageFacts DEF PageShape
<1>. QED
  BY <1>1, <1>2 DEF JobForm

LEMMA HandleShape ==
    ASSUME PageShape, NEW c \in Calls, Handle(c)
    PROVE  PageShape'
<1>1. SessionShape /\ PageTypes /\ Len(docs) \in Nat /\ JobForm(c)
  BY PageFacts DEF PageShape
<1>2. OneCall(c) /\ call'[c].at # "idle" /\ call'[c].tab = call[c].tab /\ job[c].on
  BY <1>1, HandleEffect DEF Handle
<1>3. UNCHANGED <<screen, view, form>>
  BY DEF Handle
<1>4. PICK j : JobReplaced(c, j) /\ j.opening = job[c].opening
  <2>1. CASE \E to \in Outcomes(c) :
               /\ row' = Moved(to, TRUE)
               /\ job' = [job EXCEPT ![c].moved = IF to # row.status THEN row.version + 1 ELSE @,
                                     ![c].since = row'.version]
    BY <1>1, <2>1, HandleJob
  <2>2. CASE job' = [job EXCEPT ![c].against = row]
    BY <1>1, <2>2, RejectJob
  <2>. QED
    BY <1>1, <2>1, <2>2, HandleEffect
<1>5. IsRow(row)'
  <2>1. (\E to \in Outcomes(c) : row' = Moved(to, TRUE)) \/ row' = row
    BY <1>1, HandleEffect
  <2>. QED
    BY <1>1, <2>1, MovedFacts, RestSame
<1>6. docs' \in Seq(DocRows) /\ Len(docs') = Len(docs)
  <2>1. docs' = docs \/ (job[c].opening # 0 /\ docs' = [docs EXCEPT ![job[c].opening].done = @ + 1])
    BY <1>1, HandleEffect
  <2>. QED
    BY <1>1, <2>1, JobOpening, DoneMore, RestSame
<1>7. j.opening <= Len(docs) /\ call'[c].tab \in Pages
  BY <1>1, <1>2, <1>4 DEF JobForm
<1>. QED
  BY <1>2, <1>3, <1>4, <1>5, <1>6, <1>7, OneJobShape, RestSame

LEMMA SucceededRow ==
    ASSUME PageShape, NEW c \in Calls, Succeeded(c)
    PROVE  /\ IsRow(row)' /\ row'.version = row.version /\ row'.status = row.status
           /\ \A u \in Pages : \/ row'.told[u] = row.told[u]
                               \/ u = call[c].tab /\ row'.told[u] = row.version
           /\ view' = [u \in Pages |-> view'[u]] /\ \A u \in Pages : view'[u].version \in Nat
           /\ \/ \A u \in Pages : view'[u] = IF u = call[c].tab THEN Current ELSE view[u]
              \/ row' = row /\ view' = view
<1>1. PageTypes /\ JobForm(c) /\ job[c].on
  BY DEF PageShape, Succeeded
<1>2. PICK t \in Pages : t = call[c].tab
  BY <1>1 DEF JobForm
<1>3. CASE Heard(c)
  <2>1. row' = [row EXCEPT !.told[t] = row.version] \/ row' = row
    BY <1>2, <1>3 DEF Heard
  <2>2. view' = [view EXCEPT ![t] = Current]
    BY <1>2, <1>3 DEF Heard, Refreshes
  <2>3. /\ IsRow(row)' /\ row'.version = row.version /\ row'.status = row.status
        /\ \A u \in Pages : \/ row'.told[u] = row.told[u]
                            \/ u = t /\ row'.told[u] = row.version
    BY <1>1, <2>1, ToldEffect, PageFacts
  <2>4. /\ view' = [u \in Pages |-> view'[u]] /\ \A u \in Pages : view'[u].version \in Nat
        /\ \A u \in Pages : view'[u] = IF u = t THEN Current ELSE view[u]
    BY <1>1, <2>2, ViewEffect
  <2>. QED
    BY <1>2, <2>3, <2>4
<1>4. CASE Away(c)
  <2>1. row' = row /\ view' = view
    BY <1>4 DEF Away
  <2>2. view = [u \in Pages |-> view[u]] /\ \A u \in Pages : view[u].version \in Nat
    BY <1>1, PageFacts DEF PageTypes
  <2>3. IsRow(row)
    BY <1>1 DEF PageTypes
  <2>. QED
    BY <2>1, <2>2, <2>3 DEF IsRow
<1>. QED
  BY <1>3, <1>4 DEF Succeeded

LEMMA SucceededForm ==
    ASSUME PageShape, NEW c \in Calls, Succeeded(c)
    PROVE  /\ form' \in [Pages -> FormRows]
           /\ LastOf(c) => \A t \in Pages :
                \/ form'[t] = form[t]
                   /\ ~(t = call[c].tab /\ form[t].open = job[c].opening)
                \/ t = call[c].tab /\ form'[t] = Closed
           /\ ~LastOf(c) => \A t \in Pages :
                /\ form'[t].open = form[t].open /\ form'[t].known = form[t].known
                /\ form'[t].told = form[t].told
                /\ form'[t].saved => form[t].saved \/ Asked.remembers
<1>1. PageTypes /\ JobForm(c) /\ job[c].on
  BY DEF PageShape, Succeeded
<1>2. PICK t \in Pages : t = call[c].tab
  BY <1>1 DEF JobForm
<1>3. PICK f \in Reached(c) : form' = [form EXCEPT ![t] = f]
  BY <1>2 DEF Succeeded
<1>4. form \in [Pages -> FormRows] /\ Closed \in FormRows
  BY <1>1, ClosedFacts DEF PageTypes, FormRows
<1>5. CASE f = form[t] /\ form[t].open # job[c].opening
  <2>1. form' = form
    BY <1>3, <1>4, <1>5
  <2>. QED
    BY <1>2, <1>4, <1>5, <2>1
<1>6. CASE LastOf(c) /\ f = Closed
  <2>1. form' \in [Pages -> FormRows] /\ \A u \in Pages : form'[u] = IF u = t THEN Closed ELSE form[u]
    BY <1>1, <1>3, <1>4, <1>6, FormEffect
  <2>. QED
    BY <1>2, <1>6, <2>1
<1>7. CASE /\ ~LastOf(c)
           /\ f = [form[t] EXCEPT !.saved = @ \/ (Asked.remembers /\ form[t].open # 0)]
  <2>1. f \in FormRows
    BY <1>4, <1>7 DEF FormRows
  <2>2. f.open = form[t].open /\ f.known = form[t].known /\ f.told = form[t].told
        /\ (f.saved => form[t].saved \/ Asked.remembers)
    BY <1>4, <1>7 DEF FormRows
  <2>3. form' \in [Pages -> FormRows] /\ \A u \in Pages : form'[u] = IF u = t THEN f ELSE form[u]
    BY <1>1, <1>3, <2>1, FormEffect
  <2>. QED
    BY <1>7, <2>2, <2>3
<1>. QED
  BY <1>2, <1>3, <1>5, <1>6, <1>7 DEF Reached

LEMMA SucceededJob ==
    ASSUME PageShape, NEW c \in Calls, Succeeded(c)
    PROVE  IF LastOf(c) THEN JobReplaced(c, NoJob) /\ call'[c] = NotCalled
           ELSE /\ \E j : /\ JobReplaced(c, j) /\ j.on = job[c].on /\ j.opening = job[c].opening
                          /\ j.step = job[c].step + 1 /\ j.known = job[c].known
                          /\ j.told = job[c].told /\ j.since = job[c].since
                          /\ j.against = job[c].against
                /\ call'[c].tab = call[c].tab /\ call'[c].at = "sent" /\ call'[c].heard
<1>1. SessionShape /\ PageTypes
  BY DEF PageShape
<1>2. CASE LastOf(c)
  <2>1. job' = [job EXCEPT ![c] = NoJob]
    BY <1>2 DEF Succeeded
  <2>. QED
    BY <1>1, <1>2, <2>1, OverJob, SucceededEffect
<1>3. CASE ~LastOf(c)
  <2>1. job' = [job EXCEPT ![c] = [job[c] EXCEPT !.step = @ + 1]]
    BY <1>3 DEF Succeeded, Send
  <2>2. \E j : /\ JobReplaced(c, j) /\ j.on = job[c].on /\ j.opening = job[c].opening
               /\ j.step = job[c].step + 1 /\ j.known = job[c].known /\ j.told = job[c].told
               /\ j.since = job[c].since /\ j.against = job[c].against
    BY <1>1, <2>1, NextJob
  <2>. QED
    BY <1>1, <1>3, <2>2, SucceededEffect
<1>. QED
  BY <1>2, <1>3

LEMMA SucceededShape ==
    ASSUME PageShape, NEW c \in Calls, Succeeded(c)
    PROVE  PageShape'
<1>1. SessionShape /\ PageTypes /\ JobForm(c) /\ job[c].on
  BY DEF PageShape, Succeeded
<1>2. OneCall(c) /\ UNCHANGED <<screen, docs>>
  BY <1>1, SucceededEffect DEF Succeeded
<1>3. PICK j : /\ JobReplaced(c, j) /\ j.opening <= Len(docs)
               /\ j.on => call'[c].at # "idle" /\ call'[c].tab \in Pages
  <2>1. CASE LastOf(c)
    <3>1. JobReplaced(c, NoJob)
      BY <2>1, SucceededJob
    <3>2. NoJob.opening <= Len(docs) /\ ~NoJob.on
      BY <1>1, NoJobFacts, PageFacts
    <3>. QED
      BY <3>1, <3>2
  <2>2. CASE ~LastOf(c)
    <3>1. PICK j : JobReplaced(c, j) /\ j.opening = job[c].opening
      BY <2>2, SucceededJob
    <3>2. call'[c].tab = call[c].tab /\ call'[c].at = "sent"
      BY <2>2, SucceededJob
    <3>. QED
      BY <1>1, <3>1, <3>2 DEF JobForm
  <2>. QED
    BY <2>1, <2>2
<1>. QED
  BY <1>2, <1>3, SucceededRow, SucceededForm, OneJobShape, RestSame

LEMMA DoneShape ==
    ASSUME PageShape, NEW c \in Calls, Failed(c) \/ Drop(c)
    PROVE  PageShape' /\ OneCall(c) /\ JobReplaced(c, NoJob) /\ call'[c] = NotCalled
<1>1. SessionShape /\ PageTypes
  BY DEF PageShape
<1>2. OneCall(c) /\ call'[c] = NotCalled
  BY <1>1, DoneEffect
<1>3. UNCHANGED <<screen, row, view, form, docs>>
  BY DEF Failed, Drop
<1>4. JobReplaced(c, NoJob)
  BY <1>1, OverJob DEF Failed, Drop
<1>5. NoJob.opening <= Len(docs) /\ ~NoJob.on
  BY <1>1, NoJobFacts, PageFacts
<1>. QED
  BY <1>2, <1>3, <1>4, <1>5, OneJobShape, RestSame

LEMMA LoseShape ==
    ASSUME PageShape, NEW c \in Calls, LoseAnswer(c)
    PROVE  PageShape' /\ OneCall(c) /\ JobReplaced(c, job[c])
<1>1. SessionShape /\ PageTypes /\ JobForm(c) /\ job[c].on
  BY DEF PageShape, LoseAnswer
<1>2. OneCall(c) /\ call'[c].at = call[c].at /\ call'[c].tab = call[c].tab
  BY <1>1, LoseAnswerEffect
<1>3. UNCHANGED <<screen, row, view, form, job>>
  BY DEF LoseAnswer
<1>4. JobReplaced(c, job[c])
  BY <1>1, <1>3, SameJob
<1>5. docs' \in Seq(DocRows) /\ Len(docs') = Len(docs)
  <2>1. docs' = docs \/ (job[c].opening # 0 /\ docs' = [docs EXCEPT ![job[c].opening].lost = @ + 1])
    BY DEF LoseAnswer
  <2>. QED
    BY <1>1, <2>1, JobOpening, LostMore, RestSame
<1>. QED
  BY <1>1, <1>2, <1>3, <1>4, <1>5, OneJobShape, RestSame DEF JobForm

\* The submissions stay, whatever becomes of their calls.
LEMMA QuietShape ==
    ASSUME PageShape, SessionShape', shown' \in [Tabs -> BOOLEAN], CallsCalm,
           UNCHANGED <<screen, job>>, IsRow(row)',
           view' = [t \in Pages |-> view'[t]], \A t \in Pages : view'[t].version \in Nat,
           form' \in [Pages -> FormRows],
           docs' \in Seq(DocRows), Len(docs') >= Len(docs)
    PROVE  PageShape'
<1>1. PageTypes'
  BY DEF PageShape, PageTypes, FormRows, DocRows, IsJob
<1>2. ASSUME NEW c \in Calls PROVE JobForm(c)'
  <2>1. JobForm(c) /\ job[c].opening \in Nat /\ Len(docs) \in Nat
    BY PageFacts DEF PageShape, IsJob
  <2>2. job'[c].opening <= Len(docs')
    BY <2>1 DEF JobForm
  <2>3. call'[c].tab = call[c].tab /\ (call[c].at # "idle" => call'[c].at # "idle")
    BY DEF CallsCalm
  <2>. QED
    BY <2>1, <2>2, <2>3 DEF JobForm
<1>. QED
  BY <1>1, <1>2 DEF PageShape

\* The session or a reload goes on under the pages.
Calm ==
  /\ CallsCalm /\ LeavePages /\ UNCHANGED <<screen, row, docs, job>>
  /\ view' = [t \in Pages |-> view'[t]]
  /\ \A t \in Pages : view'[t] = view[t] \/ view'[t] = Unknown

\* Nothing is submitted, answered or heard.
Still == UNCHANGED <<sessions, cookie, access, shown, refreshing, request, call, screen, job>>

LEMMA CalmSteps ==
    ASSUME PageShape, WebNext
    PROVE  \/ Calm
           \/ Still /\ \/ \E t \in Pages : Fetch(t) \/ OpenForm(t) \/ CloseForm(t)
                       \/ Elsewhere
           \/ \E t \in Pages, c \in Calls : Submit(t, c) \/ Click(t, c)
           \/ \E c \in Calls : Handle(c) \/ Succeeded(c) \/ Failed(c) \/ LoseAnswer(c) \/ Drop(c)
<1>1. CASE SessionNext /\ LeavePages /\ UNCHANGED <<screen, row, view, docs, job>>
  <2>1. CallsCalm
    BY <1>1, SessionCalm DEF PageShape
  <2>. QED
    BY <1>1, <2>1 DEF Calm, PageShape, PageTypes
<1>2. ASSUME NEW t \in Tabs, ReloadTab(t) PROVE Calm
  <2>1. CallsCalm
    BY <1>2, ReloadCalm DEF PageShape, ReloadTab
  <2>. QED
    BY <1>2, <2>1 DEF Calm, ReloadTab
<1>3. ASSUME NEW t \in Pages, Fetch(t) \/ OpenForm(t) \/ CloseForm(t) PROVE Still
  BY <1>3 DEF Fetch, OpenForm, CloseForm, sessionVars, Still
<1>4. Elsewhere => Still
  BY DEF Elsewhere, Still
<1>. QED
  BY <1>1, <1>2, <1>3, <1>4 DEF WebNext

LEMMA CalmShape == ASSUME PageShape, Calm, SessionShape', shown' \in [Tabs -> BOOLEAN] PROVE PageShape'
<1>1. PageTypes
  BY DEF PageShape
<1>2. \A t \in Pages : view'[t].version \in Nat
  <2>1. Unknown.version = 0
    BY DEF Unknown
  <2>. QED
    BY <1>1, <2>1, PageFacts DEF Calm
<1>3. form' \in [Pages -> FormRows]
  BY <1>1, LeaveEffect DEF Calm
<1>4. docs' \in Seq(DocRows) /\ Len(docs') = Len(docs) /\ Len(docs) \in Nat /\ IsRow(row)'
  BY <1>1, RestSame, PageFacts DEF Calm
<1>. QED
  BY <1>2, <1>3, <1>4, QuietShape DEF Calm

LEMMA OpenedForm ==
    ASSUME PageTypes, NEW t \in Pages, OpenForm(t)
    PROVE  /\ form' \in [Pages -> FormRows]
           /\ \A u \in Pages \ {t} : form'[u] = form[u]
           /\ form'[t].open = Len(docs) + 1 /\ form'[t].known = view[t].version
           /\ form'[t].told = row.told[t] /\ form'[t].saved = FALSE
<1>1. PICK f : f = [open |-> Len(docs) + 1, known |-> view[t].version, told |-> row.told[t],
                    saved |-> FALSE]
  OBVIOUS
<1>2. f.open = Len(docs) + 1 /\ f.known = view[t].version /\ f.told = row.told[t] /\ f.saved = FALSE
  BY <1>1
<1>3. f \in FormRows
  BY <1>1, <1>2, PageFacts DEF FormRows
<1>4. form' = [form EXCEPT ![t] = f]
  BY <1>1 DEF OpenForm
<1>. QED
  BY <1>2, <1>3, <1>4, FormEffect

LEMMA StillShape ==
    ASSUME PageShape, Still,
           \/ \E t \in Pages : Fetch(t) \/ OpenForm(t) \/ CloseForm(t)
           \/ Elsewhere
           \/ UNCHANGED webVars
    PROVE  PageShape'
<1>1. PageTypes /\ SessionShape /\ Len(docs) \in Nat
  BY PageFacts DEF PageShape
<1>2. SessionShape' /\ CallsCalm /\ shown' \in [Tabs -> BOOLEAN]
  BY <1>1, NoCallShape, CallsSame DEF Still, PageTypes
<1>3. UNCHANGED <<screen, job>>
  BY DEF Still
<1>4. ASSUME NEW t \in Pages, Fetch(t) PROVE PageShape'
  <2>1. UNCHANGED <<row, form, docs>> /\ view' = [view EXCEPT ![t] = Current]
    BY <1>4 DEF Fetch
  <2>2. view' = [u \in Pages |-> view'[u]] /\ \A u \in Pages : view'[u].version \in Nat
    BY <1>1, <2>1, ViewEffect
  <2>. QED
    BY <1>1, <1>2, <1>3, <2>1, <2>2, RestSame, QuietShape
<1>5. ASSUME NEW t \in Pages, OpenForm(t) PROVE PageShape'
  <2>1. UNCHANGED <<row, view>> /\ docs' = Append(docs, [done |-> 0, lost |-> 0])
    BY <1>5 DEF OpenForm
  <2>2. docs' \in Seq(DocRows) /\ Len(docs') >= Len(docs)
    BY <1>1, <2>1, OpenedDoc
  <2>. QED
    BY <1>1, <1>2, <1>3, <1>5, <2>1, <2>2, OpenedForm, RestSame, QuietShape
<1>6. ASSUME NEW t \in Pages, CloseForm(t) PROVE PageShape'
  <2>1. UNCHANGED <<row, view, docs>> /\ form' = [form EXCEPT ![t] = Closed]
    BY <1>6 DEF CloseForm
  <2>2. form' \in [Pages -> FormRows]
    BY <1>1, <2>1, FormEffect, ClosedFacts
  <2>. QED
    BY <1>1, <1>2, <1>3, <2>1, <2>2, RestSame, QuietShape
<1>7. CASE Elsewhere
  <2>1. UNCHANGED <<view, form, docs>> /\ \E to : row' = Moved(to, FALSE)
    BY <1>7 DEF Elsewhere
  <2>2. IsRow(row)'
    BY <1>1, <2>1, MovedFacts
  <2>. QED
    BY <1>1, <1>2, <1>3, <2>1, <2>2, RestSame, QuietShape
<1>8. CASE UNCHANGED webVars
  <2>1. UNCHANGED <<row, view, form, docs>>
    BY <1>8 DEF webVars, pageVars
  <2>. QED
    BY <1>1, <1>2, <1>3, <2>1, RestSame, QuietShape
<1>. QED
  BY <1>4, <1>5, <1>6, <1>7, <1>8

LEMMA PageShapeInductive ==
    ASSUME PageShape, \A t \in Pages : form[t].open <= Len(docs), [WebNext]_webVars
    PROVE  PageShape'
<1>1. CASE Calm
  BY <1>1, CalmShape, ShapeInductive, ShownKept DEF PageShape
<1>2. CASE Still /\ \/ \E t \in Pages : Fetch(t) \/ OpenForm(t) \/ CloseForm(t)
                    \/ Elsewhere
  BY <1>2, StillShape
<1>3. ASSUME NEW t \in Pages, NEW c \in Calls, Submit(t, c) \/ Click(t, c) PROVE PageShape'
  BY <1>3, SubmitShape
<1>4. ASSUME NEW c \in Calls, Handle(c) \/ Succeeded(c) \/ Failed(c) \/ LoseAnswer(c) \/ Drop(c)
      PROVE  PageShape'
  BY <1>4, HandleShape, SucceededShape, DoneShape, LoseShape
<1>5. UNCHANGED webVars => Still
  BY DEF webVars, sessionVars, pageVars, Still
<1>. QED
  BY <1>1, <1>2, <1>3, <1>4, <1>5, StillShape, CalmSteps

-----------------------------------------------------------------------------
(* How many documents an opening makes.                                    *)

\* The page waits for the answer of this call.
Waits(c, o) == Serves(c, o) /\ call[c].heard /\ call[c].at \notin {"rejected", "failed"}

LEMMA WaitsOrAnswered == \A o : Answered(o) <=> \A c \in Calls : ~Waits(c, o)
BY DEF Answered, Waits

LEMMA PendingFacts ==
    ASSUME NEW o
    PROVE  IsFiniteSet(PendingOf(o)) /\ Cardinality(PendingOf(o)) \in Nat
<1>1. PendingOf(o) \in SUBSET Calls /\ IsFiniteSet(Calls)
  BY SessionBounds DEF PendingOf
<1>. QED
  BY <1>1, FS_Subset, FS_CardinalityType

LEMMA FewerPending ==
    ASSUME NEW S, NEW T \in SUBSET S, IsFiniteSet(S)
    PROVE  /\ Cardinality(T) \in Nat /\ Cardinality(S) \in Nat /\ Cardinality(T) <= Cardinality(S)
           /\ T # S => Cardinality(T) < Cardinality(S)
<1>1. IsFiniteSet(T) /\ Cardinality(T) <= Cardinality(S) /\ (Cardinality(S) = Cardinality(T) => S = T)
  BY FS_Subset
<1>2. Cardinality(T) \in Nat /\ Cardinality(S) \in Nat
  BY <1>1, FS_CardinalityType
<1>. QED
  BY <1>1, <1>2

\* No more is under way, nothing more is done, and when the page can submit again
\* it is because an answer was lost or the submission is over.
LEMMA OpeningKept ==
    ASSUME PageShape, PageShape', NEW o \in DOMAIN docs, o \in DOMAIN docs', OpeningForm(o),
           PendingOf(o)' \subseteq PendingOf(o),
           docs'[o].done = docs[o].done, docs'[o].lost >= docs[o].lost,
           Shown(o)' => Shown(o),
           Shown(o)' /\ Answered(o)' /\ ~Answered(o) =>
             docs'[o].lost >= docs[o].lost + 1 \/ PendingOf(o)' # PendingOf(o)
    PROVE  OpeningForm(o)'
<1>1. /\ docs[o].done \in Nat /\ docs[o].lost \in Nat
      /\ docs'[o].done \in Nat /\ docs'[o].lost \in Nat
  <2>1. docs' \in Seq(DocRows) /\ DOMAIN docs' = 1..Len(docs')
    BY DEF PageShape, PageTypes, DocRows
  <2>2. docs'[o] \in DocRows
    BY <2>1, ElementOfSeq
  <2>. QED
    BY <2>2, PageFacts DEF PageShape, DocRows
<1>2. PICK n \in Nat : n = Cardinality(PendingOf(o))
  BY PendingFacts
<1>3. PICK m \in Nat : m = Cardinality(PendingOf(o)')
  BY PendingFacts, FewerPending
<1>4. m <= n /\ (PendingOf(o)' # PendingOf(o) => m < n)
  BY <1>2, <1>3, PendingFacts, FewerPending
<1>5. docs[o].done + n <= docs[o].lost + 1
      /\ (Shown(o) /\ Answered(o) => docs[o].done + n <= docs[o].lost)
  BY <1>2 DEF OpeningForm
<1>6. docs'[o].done + m <= docs'[o].lost + 1
  BY <1>1, <1>4, <1>5
<1>7. ASSUME Shown(o)', Answered(o)' PROVE docs'[o].done + m <= docs'[o].lost
  <2>1. CASE Answered(o)
    BY <1>1, <1>4, <1>5, <1>7, <2>1
  <2>2. CASE ~Answered(o)
    BY <1>1, <1>4, <1>5, <1>7, <2>2
  <2>. QED
    BY <2>1, <2>2
<1>. QED
  BY <1>3, <1>6, <1>7 DEF OpeningForm

LEMMA StayPends ==
    ASSUME NEW d, call'[d] = call[d], job'[d] = job[d], screen' = screen
    PROVE  /\ Pends(d)' <=> Pends(d)
           /\ \A o : (Serves(d, o)' <=> Serves(d, o)) /\ (Waits(d, o)' <=> Waits(d, o))
BY DEF Pends, LastOf, Asked, Serves, Waits

\* The submission of one call goes on.
LEMMA OneOpening ==
    ASSUME PageShape, PageShape', NEW o \in DOMAIN docs, o \in DOMAIN docs', OpeningForm(o),
           NEW c \in Calls, OneCall(c), NEW j, JobReplaced(c, j), screen' = screen,
           docs'[o].done = docs[o].done, docs'[o].lost >= docs[o].lost,
           Shown(o)' => Shown(o),
           c \in PendingOf(o)' => c \in PendingOf(o),
           Shown(o)' /\ Waits(c, o) => \/ Waits(c, o)'
                                       \/ docs'[o].lost >= docs[o].lost + 1
                                       \/ c \in PendingOf(o) /\ c \notin PendingOf(o)'
    PROVE  OpeningForm(o)'
<1>1. ASSUME NEW d \in Calls, d # c
      PROVE  (d \in PendingOf(o)' <=> d \in PendingOf(o)) /\ (Waits(d, o)' <=> Waits(d, o))
  <2>1. call'[d] = call[d] /\ job'[d] = job[d]
    BY <1>1 DEF OneCall, JobReplaced
  <2>. QED
    BY <2>1, StayPends DEF PendingOf
<1>2. PendingOf(o)' \subseteq PendingOf(o)
  BY <1>1 DEF PendingOf
<1>3. ASSUME Shown(o)', Answered(o)', ~Answered(o)
      PROVE  docs'[o].lost >= docs[o].lost + 1 \/ PendingOf(o)' # PendingOf(o)
  <2>1. \A d \in Calls : ~Waits(d, o)'
    BY <1>3 DEF Answered, Waits
  <2>2. PICK d \in Calls : Waits(d, o)
    BY <1>3, WaitsOrAnswered
  <2>3. d = c
    BY <1>1, <2>1, <2>2
  <2>. QED
    BY <1>3, <2>1, <2>2, <2>3
<1>. QED
  BY <1>2, <1>3, OpeningKept

LEMMA SameOpening ==
    ASSUME PageShape, PageShape', NEW o \in DOMAIN docs, OpeningForm(o), o \in DOMAIN docs',
           docs'[o] = docs[o], Still, Shown(o)' => Shown(o)
    PROVE  OpeningForm(o)'
<1>1. \A d \in Calls : call'[d] = call[d] /\ job'[d] = job[d] /\ screen' = screen
  BY DEF Still
<1>2. \A d \in Calls : (d \in PendingOf(o)' <=> d \in PendingOf(o)) /\ (Waits(d, o)' <=> Waits(d, o))
  BY <1>1, StayPends DEF PendingOf
<1>3. PendingOf(o)' \subseteq PendingOf(o)
  BY <1>2 DEF PendingOf
<1>4. Answered(o)' => Answered(o)
  BY <1>2 DEF Answered, Waits
<1>5. docs'[o].lost >= docs[o].lost
  BY PageFacts DEF PageShape
<1>. QED
  BY <1>3, <1>4, <1>5, OpeningKept

\* A dialog is open in at most one page; a submission belongs to the page of its dialog.
LEMMA SameForms ==
    ASSUME PageShape, \A t \in Pages : FormForm(t), Len(docs') = Len(docs),
           \A t \in Pages : form'[t].open = form[t].open \/ form'[t].open = 0,
           \A c \in Calls : job'[c].on /\ job'[c].opening # 0 =>
             job[c].on /\ job'[c].opening = job[c].opening /\ call'[c].tab = call[c].tab
    PROVE  \A t \in Pages : FormForm(t)'
<1> SUFFICES ASSUME NEW t \in Pages PROVE FormForm(t)'
  OBVIOUS
<1>1. FormForm(t) /\ Len(docs) \in Nat
  BY PageFacts DEF PageShape
<1>2. form'[t].open <= Len(docs')
  BY <1>1 DEF FormForm
<1>3. ASSUME form'[t].open # 0
      PROVE  /\ \A u \in Pages : form'[u].open = form'[t].open => u = t
             /\ \A c \in Calls : job'[c].on /\ job'[c].opening = form'[t].open => call'[c].tab = t
  <2>1. form'[t].open = form[t].open /\ form[t].open # 0
    BY <1>3
  <2>2. \A u \in Pages : form'[u].open = form'[t].open => form[u].open = form[t].open
    BY <1>3, <2>1
  <2>. QED
    BY <1>1, <2>1, <2>2 DEF FormForm
<1>. QED
  BY <1>2, <1>3 DEF FormForm

LEMMA CalmOpenings ==
    ASSUME OpeningInvariant, PageShape', Calm
    PROVE  OpeningInvariant'
<1>1. PageShape /\ SessionShape /\ PageTypes /\ docs' = docs /\ job' = job /\ screen' = screen
      /\ CallsCalm
  BY DEF OpeningInvariant, PageShape, Calm
<1>2. \A t \in Pages : form'[t] = IF shown'[t] THEN form[t] ELSE Closed
  BY <1>1, LeaveEffect DEF Calm
<1>3. \A t \in Pages : form'[t].open = form[t].open \/ form'[t].open = 0
  BY <1>2, ClosedFacts
<1>4. \A t \in Pages : FormForm(t)'
  BY <1>1, <1>3, SameForms DEF OpeningInvariant, CallsCalm
<1>5. ASSUME NEW o \in DOMAIN docs PROVE OpeningForm(o)'
  <2>0. OpeningForm(o) /\ o # 0 /\ docs[o].lost \in Nat
    BY <1>1, PageFacts DEF OpeningInvariant
  <2>1. Shown(o)' => Shown(o)
    BY <1>3, <2>0 DEF Shown
  <2>2. ASSUME NEW c \in Calls, c \in PendingOf(o)' PROVE c \in PendingOf(o)
    <3>1. CallForm(c) /\ call[c].heard \in BOOLEAN
      BY <1>1, SessionFacts DEF SessionShape
    <3>2. Serves(c, o) /\ Pends(c)' /\ (LastOf(c)' <=> LastOf(c))
      BY <1>1, <2>2 DEF PendingOf, Serves, LastOf, Asked
    <3>3. /\ call'[c].heard => call[c].heard
          /\ \/ call'[c].at = call[c].at
             \/ call[c].at \in {"sent", "waiting"} /\ call'[c].at \in {"sent", "waiting", "failed"}
      BY <1>1 DEF CallsCalm
    <3>4. call[c].at = "waiting" => call[c].heard
      BY <3>1 DEF CallForm
    <3>5. Pends(c)
      BY <3>2, <3>3, <3>4 DEF Pends
    <3>. QED
      BY <3>2, <3>5 DEF PendingOf
  <2>3. PendingOf(o)' \subseteq PendingOf(o)
    BY <2>2 DEF PendingOf
  <2>4. ASSUME Shown(o)', Answered(o)', ~Answered(o) PROVE PendingOf(o)' # PendingOf(o)
    <3>1. PICK c \in Calls : Serves(c, o) /\ call[c].heard /\ call[c].at \notin {"rejected", "failed"}
      BY <2>4 DEF Answered
    <3>2. PICK t \in Pages : form'[t].open = o
      BY <2>4 DEF Shown
    <3>3. form[t].open = o /\ shown'[t]
      BY <1>2, <2>0, <3>2, ClosedFacts
    <3>4. call[c].tab = t /\ t \in Tabs
      BY <2>0, <3>1, <3>3, WebBounds DEF OpeningInvariant, FormForm, Serves
    <3>5. call'[c].heard
      BY <1>1, <3>1, <3>3, <3>4 DEF CallsCalm
    <3>6. call'[c].at \in {"rejected", "failed"}
      BY <1>1, <2>4, <3>1, <3>5 DEF Answered, Serves
    <3>7. call[c].at \in {"sent", "waiting"} /\ call'[c].at = "failed"
      BY <1>1, <3>1, <3>6 DEF CallsCalm
    <3>8. c \in PendingOf(o)
      BY <3>1, <3>7 DEF PendingOf, Pends
    <3>9. c \notin PendingOf(o)'
      BY <3>5, <3>7 DEF PendingOf, Pends
    <3>. QED
      BY <3>8, <3>9
  <2>. QED
    BY <1>1, <2>0, <2>1, <2>3, <2>4, OpeningKept
<1>. QED
  BY <1>1, <1>4, <1>5 DEF OpeningInvariant

LEMMA SubmitOpenings ==
    ASSUME OpeningInvariant, NEW t \in Pages, NEW c \in Calls, Submit(t, c)
    PROVE  OpeningInvariant'
<1>1. PageShape /\ SessionShape /\ PageTypes /\ \A u \in Pages : FormForm(u)
  BY DEF OpeningInvariant, PageShape
<1>2. PageShape'
  BY <1>1, SubmitShape DEF FormForm
<1>3. PICK j : /\ JobReplaced(c, j) /\ j.on = TRUE /\ j.opening = form[t].open
               /\ j.step = (IF form[t].saved THEN 2 ELSE 1)
               /\ j.since = row.version /\ j.known = form[t].known /\ j.told = form[t].told
  BY <1>1, SubmitJob
<1>4. OneCall(c) /\ call'[c].tab = t /\ call'[c].at = "sent" /\ call'[c].heard
  BY <1>1, SubmitEffect
<1>5. UNCHANGED <<screen, row, view, form, docs>> /\ Submittable(form[t].open) /\ ~job[c].on
  BY DEF Submit, Free
<1>6. \A u \in Pages : FormForm(u)'
  <2> SUFFICES ASSUME NEW u \in Pages PROVE FormForm(u)'
    OBVIOUS
  <2>1. FormForm(u) /\ FormForm(t)
    BY <1>1
  <2>2. ASSUME form[u].open # 0, NEW d \in Calls, job'[d].on, job'[d].opening = form[u].open
        PROVE  call'[d].tab = u
    <3>1. CASE d = c
      BY <1>3, <1>4, <2>1, <2>2, <3>1 DEF FormForm, JobReplaced
    <3>2. CASE d # c
      BY <1>3, <1>4, <2>1, <2>2, <3>2 DEF FormForm, JobReplaced, OneCall
    <3>. QED
      BY <3>1, <3>2
  <2>. QED
    BY <1>5, <2>1, <2>2 DEF FormForm
<1>7. ASSUME NEW o \in DOMAIN docs PROVE OpeningForm(o)'
  <2>1. OpeningForm(o) /\ docs'[o] = docs[o] /\ o \in DOMAIN docs'
    BY <1>5 DEF OpeningInvariant
  <2>2. docs[o].lost \in Nat /\ docs[o].done \in Nat
    BY <1>1, PageFacts
  <2>3. Shown(o)' => Shown(o)
    BY <1>5 DEF Shown
  <2>4. CASE form[t].open # o
    <3>1. c \notin PendingOf(o)' /\ ~Waits(c, o)
      BY <1>3, <1>5, <2>4 DEF PendingOf, Serves, JobReplaced, Waits
    <3>. QED
      BY <1>1, <1>2, <1>3, <1>4, <1>5, <2>1, <2>2, <2>3, <3>1, OneOpening
  <2>5. CASE form[t].open = o
    <3>1. ASSUME NEW d \in Calls, d # c
          PROVE  (d \in PendingOf(o)' <=> d \in PendingOf(o))
      BY <1>3, <1>4, <1>5, <3>1, StayPends DEF PendingOf, OneCall, JobReplaced
    <3>2. c \notin PendingOf(o)
      BY <1>5 DEF PendingOf, Serves
    <3>3. c \in PendingOf(o)'
      BY <1>3, <1>4, <2>5 DEF PendingOf, Serves, Pends, JobReplaced
    <3>4. PendingOf(o)' = PendingOf(o) \cup {c}
      BY <3>1, <3>2, <3>3 DEF PendingOf
    <3>5. PICK n \in Nat : n = Cardinality(PendingOf(o))
      BY PendingFacts
    <3>6. Cardinality(PendingOf(o)') = n + 1
      BY <3>2, <3>4, <3>5, PendingFacts, FS_AddElement
    <3>7. Shown(o) /\ Answered(o)
      BY <1>5, <2>5 DEF Shown, Answered, Submittable, Serves
    <3>8. docs[o].done + n <= docs[o].lost
      BY <2>1, <3>5, <3>7 DEF OpeningForm
    <3>9. ~Answered(o)'
      BY <1>3, <1>4, <2>5 DEF Answered, Serves, JobReplaced
    <3>. QED
      BY <2>1, <2>2, <3>6, <3>8, <3>9 DEF OpeningForm
  <2>. QED
    BY <2>4, <2>5
<1>. QED
  BY <1>2, <1>5, <1>6, <1>7 DEF OpeningInvariant

LEMMA ClickOpenings ==
    ASSUME OpeningInvariant, NEW t \in Pages, NEW c \in Calls, Click(t, c)
    PROVE  OpeningInvariant'
<1>1. PageShape /\ SessionShape /\ PageTypes /\ \A u \in Pages : FormForm(u)
  BY DEF OpeningInvariant, PageShape
<1>2. PageShape'
  BY <1>1, SubmitShape DEF FormForm
<1>3. PICK j : /\ JobReplaced(c, j) /\ j.on = TRUE /\ j.opening = 0 /\ j.step = 1
               /\ j.since = 0 /\ j.known = view[t].version /\ j.told = row.told[t]
  BY <1>1, ClickJob
<1>4. OneCall(c)
  BY <1>1, SubmitEffect
<1>5. UNCHANGED <<screen, row, view, form, docs>> /\ ~job[c].on
  BY DEF Click, Free
<1>6. \A u \in Pages : FormForm(u)'
  BY <1>1, <1>3, <1>4, <1>5, SameForms DEF JobReplaced, OneCall
<1>7. ASSUME NEW o \in DOMAIN docs PROVE OpeningForm(o)'
  <2>1. OpeningForm(o) /\ docs'[o] = docs[o] /\ o \in DOMAIN docs' /\ o # 0
    BY <1>1, <1>5, PageFacts DEF OpeningInvariant
  <2>2. docs[o].lost \in Nat /\ docs[o].done \in Nat
    BY <1>1, PageFacts
  <2>3. Shown(o)' => Shown(o)
    BY <1>5 DEF Shown
  <2>4. c \notin PendingOf(o)' /\ ~Waits(c, o)
    BY <1>3, <1>5, <2>1 DEF PendingOf, Serves, JobReplaced, Waits
  <2>. QED
    BY <1>1, <1>2, <1>3, <1>4, <1>5, <2>1, <2>2, <2>3, <2>4, OneOpening
<1>. QED
  BY <1>2, <1>5, <1>6, <1>7 DEF OpeningInvariant

LEMMA HandleOpenings ==
    ASSUME OpeningInvariant, NEW c \in Calls, Handle(c)
    PROVE  OpeningInvariant'
<1>1. PageShape /\ SessionShape /\ PageTypes /\ \A u \in Pages : FormForm(u)
  BY DEF OpeningInvariant, PageShape
<1>2. PageShape' /\ UNCHANGED <<screen, view, form>>
  BY <1>1, HandleShape DEF Handle
<1>3. /\ OneCall(c) /\ call[c].at = "sent" /\ call'[c].tab = call[c].tab
      /\ call'[c].heard = call[c].heard /\ call'[c].at \in {"accepted", "rejected"}
  BY <1>1, HandleEffect
<1>4. PICK j : JobReplaced(c, j) /\ j.on = job[c].on /\ j.opening = job[c].opening
               /\ j.step = job[c].step
  <2>1. CASE \E to \in Outcomes(c) :
               /\ row' = Moved(to, TRUE)
               /\ job' = [job EXCEPT ![c].moved = IF to # row.status THEN row.version + 1 ELSE @,
                                     ![c].since = row'.version]
    <3>1. PICK to : /\ row' = Moved(to, TRUE)
                    /\ job' = [job EXCEPT
                         ![c].moved = IF to # row.status THEN row.version + 1 ELSE @,
                         ![c].since = row'.version]
      BY <2>1
    <3>2. \E j : /\ JobReplaced(c, j) /\ j.on = job[c].on /\ j.opening = job[c].opening
                 /\ j.step = job[c].step /\ j.known = job[c].known /\ j.told = job[c].told
                 /\ j.since = row'.version /\ j.against = job[c].against
      BY <1>1, <3>1, HandleJob
    <3>. QED
      BY <3>2
  <2>2. CASE job' = [job EXCEPT ![c].against = row]
    <3>1. \E j : /\ JobReplaced(c, j) /\ j.on = job[c].on /\ j.opening = job[c].opening
                 /\ j.step = job[c].step /\ j.known = job[c].known /\ j.told = job[c].told
                 /\ j.since = job[c].since /\ j.against = row
      BY <1>1, <2>2, RejectJob
    <3>. QED
      BY <3>1
  <2>. QED
    BY <1>1, <2>1, <2>2, HandleEffect
<1>5. /\ job'[c].on = job[c].on /\ job'[c].opening = job[c].opening
      /\ LastOf(c)' <=> LastOf(c)
      /\ \A o : Serves(c, o)' <=> Serves(c, o)
  BY <1>2, <1>4 DEF JobReplaced, LastOf, Asked, Serves
<1>6. \/ call'[c].at = "rejected" /\ docs' = docs
      \/ /\ call'[c].at = "accepted"
         /\ docs' = IF LastOf(c) /\ job[c].opening # 0
                    THEN [docs EXCEPT ![job[c].opening].done = @ + 1] ELSE docs
  BY <1>1, HandleEffect
<1>7. /\ DOMAIN docs' = DOMAIN docs /\ Len(docs') = Len(docs)
      /\ \A o \in DOMAIN docs :
           /\ docs'[o].lost = docs[o].lost
           /\ docs'[o].done = docs[o].done
                + (IF call'[c].at = "accepted" /\ LastOf(c) /\ o = job[c].opening THEN 1 ELSE 0)
  <2>1. CASE docs' = docs /\ ~(call'[c].at = "accepted" /\ LastOf(c) /\ job[c].opening # 0)
    <3>1. \A o \in DOMAIN docs : o # 0 /\ docs[o].done \in Nat
      BY <1>1, PageFacts
    <3>. QED
      BY <2>1, <3>1
  <2>2. CASE /\ call'[c].at = "accepted" /\ LastOf(c) /\ job[c].opening # 0
             /\ docs' = [docs EXCEPT ![job[c].opening].done = @ + 1]
    <3>1. PICK p \in DOMAIN docs : p = job[c].opening
      BY <1>1, <2>2, JobOpening
    <3>2. docs' = [docs EXCEPT ![p].done = @ + 1]
      BY <2>2, <3>1
    <3>3. /\ Len(docs') = Len(docs) /\ DOMAIN docs' = DOMAIN docs
          /\ \A o \in DOMAIN docs :
               /\ docs'[o].done = docs[o].done + (IF o = p THEN 1 ELSE 0)
               /\ docs'[o].lost = docs[o].lost
      BY <1>1, <3>2, DoneMore
    <3>. QED
      BY <2>2, <3>1, <3>3
  <2>. QED
    BY <1>6, <2>1, <2>2
<1>8. \A u \in Pages : FormForm(u)'
  <2>1. \A d \in Calls : job'[d].on /\ job'[d].opening # 0 =>
          job[d].on /\ job'[d].opening = job[d].opening /\ call'[d].tab = call[d].tab
    BY <1>3, <1>4, <1>5 DEF JobReplaced, OneCall
  <2>. QED
    BY <1>1, <1>2, <1>7, <2>1, SameForms
<1>9. ASSUME NEW o \in DOMAIN docs PROVE OpeningForm(o)'
  <2>1. OpeningForm(o) /\ docs[o].lost \in Nat /\ docs[o].done \in Nat /\ o \in DOMAIN docs'
    BY <1>1, <1>7, PageFacts DEF OpeningInvariant
  <2>2. Shown(o)' <=> Shown(o)
    BY <1>2 DEF Shown
  <2>3. c \in PendingOf(o)' => c \in PendingOf(o)
    BY <1>3, <1>5 DEF PendingOf, Pends
  <2>4. Waits(c, o) => Waits(c, o)' \/ (c \in PendingOf(o) /\ c \notin PendingOf(o)')
    BY <1>3, <1>5 DEF PendingOf, Pends, Waits
  <2>5. CASE ~(call'[c].at = "accepted" /\ LastOf(c) /\ o = job[c].opening)
    <3>1. docs'[o].done = docs[o].done /\ docs'[o].lost >= docs[o].lost
      BY <1>7, <2>1, <2>5
    <3>. QED
      BY <1>1, <1>2, <1>3, <1>4, <2>1, <2>2, <2>3, <2>4, <3>1, OneOpening
  <2>6. CASE call'[c].at = "accepted" /\ LastOf(c) /\ o = job[c].opening
    <3>1. docs'[o].done = docs[o].done + 1 /\ docs'[o].lost = docs[o].lost
      BY <1>7, <2>6
    <3>2. ASSUME NEW d \in Calls, d # c
          PROVE  (d \in PendingOf(o)' <=> d \in PendingOf(o)) /\ (Waits(d, o)' <=> Waits(d, o))
      BY <1>2, <1>3, <1>4, <3>2, StayPends DEF PendingOf, OneCall, JobReplaced
    <3>3. job[c].on
      BY DEF Handle
    <3>4. c \in PendingOf(o) /\ c \notin PendingOf(o)'
      BY <1>3, <1>5, <2>6, <3>3 DEF PendingOf, Pends, Serves
    <3>5. PendingOf(o)' = PendingOf(o) \ {c}
      BY <3>2, <3>4 DEF PendingOf
    <3>6. PICK n \in Nat : n = Cardinality(PendingOf(o))
      BY PendingFacts
    <3>7. Cardinality(PendingOf(o)') = n - 1
      BY <3>4, <3>5, <3>6, PendingFacts, FS_RemoveElement
    <3>8. Answered(o)' => Answered(o)
      <4>1. ASSUME Answered(o)', ~Answered(o) PROVE FALSE
        <5>1. PICK d \in Calls : Waits(d, o)
          BY <4>1 DEF Answered, Waits
        <5>2. ~Waits(d, o)' /\ ~Waits(c, o)'
          BY <4>1 DEF Answered, Waits
        <5>3. d = c
          BY <3>2, <5>1, <5>2
        <5>4. Waits(c, o)'
          BY <1>3, <1>5, <2>6, <5>1, <5>3 DEF Waits
        <5>. QED
          BY <5>2, <5>4
      <4>. QED
        BY <4>1
    <3>9. docs[o].done + n <= docs[o].lost + 1
          /\ (Shown(o) /\ Answered(o) => docs[o].done + n <= docs[o].lost)
      BY <2>1, <3>6 DEF OpeningForm
    <3>. QED
      BY <2>1, <2>2, <3>1, <3>6, <3>7, <3>8, <3>9 DEF OpeningForm
  <2>. QED
    BY <2>5, <2>6
<1>. QED
  BY <1>2, <1>7, <1>8, <1>9 DEF OpeningInvariant

LEMMA SucceededOpenings ==
    ASSUME OpeningInvariant, NEW c \in Calls, Succeeded(c)
    PROVE  OpeningInvariant'
<1>1. PageShape /\ SessionShape /\ PageTypes /\ \A u \in Pages : FormForm(u)
  BY DEF OpeningInvariant, PageShape
<1>2. PageShape' /\ UNCHANGED <<screen, docs>>
  BY <1>1, SucceededShape DEF Succeeded
<1>3. OneCall(c) /\ job[c].on /\ call[c].at = "accepted" /\ call[c].heard
  BY <1>1, SucceededEffect DEF Succeeded
<1>4. CASE LastOf(c)
  <2>1. JobReplaced(c, NoJob) /\ call'[c] = NotCalled
    BY <1>1, <1>4, SucceededJob
  <2>2. \A t \in Pages :
          \/ form'[t] = form[t] /\ ~(t = call[c].tab /\ form[t].open = job[c].opening)
          \/ t = call[c].tab /\ form'[t] = Closed
    BY <1>1, <1>4, SucceededForm
  <2>3. \A t \in Pages : form'[t].open = form[t].open \/ form'[t].open = 0
    BY <2>2, ClosedFacts
  <2>4. \A u \in Pages : FormForm(u)'
    <3>1. \A d \in Calls : job'[d].on /\ job'[d].opening # 0 =>
            job[d].on /\ job'[d].opening = job[d].opening /\ call'[d].tab = call[d].tab
      BY <1>3, <2>1, NoJobFacts DEF JobReplaced, OneCall
    <3>. QED
      BY <1>1, <1>2, <2>3, <3>1, SameForms
  <2>5. ASSUME NEW o \in DOMAIN docs PROVE OpeningForm(o)'
    <3>1. OpeningForm(o) /\ docs'[o] = docs[o] /\ o \in DOMAIN docs' /\ o # 0
          /\ docs[o].lost \in Nat
      BY <1>1, <1>2, PageFacts DEF OpeningInvariant
    <3>2. Shown(o)' => Shown(o)
      BY <2>3, <3>1 DEF Shown
    <3>3. c \notin PendingOf(o)'
      BY <2>1, NoJobFacts DEF PendingOf, Serves, JobReplaced
    <3>4. ASSUME Shown(o)', Waits(c, o) PROVE FALSE
      <4>1. PICK t \in Pages : form'[t].open = o
        BY <3>4 DEF Shown
      <4>2. form[t].open = o /\ ~(t = call[c].tab /\ o = job[c].opening)
        BY <2>2, <3>1, <4>1, ClosedFacts
      <4>3. FormForm(t)
        BY <1>1
      <4>. QED
        BY <3>1, <3>4, <4>2, <4>3 DEF FormForm, Waits, Serves
    <3>. QED
      BY <1>1, <1>2, <1>3, <2>1, <3>1, <3>2, <3>3, <3>4, OneOpening
  <2>. QED
    BY <1>2, <2>4, <2>5 DEF OpeningInvariant
<1>5. CASE ~LastOf(c)
  <2>1. PICK j : /\ JobReplaced(c, j) /\ j.on = job[c].on /\ j.opening = job[c].opening
                 /\ j.step = job[c].step + 1 /\ j.known = job[c].known /\ j.told = job[c].told
                 /\ j.since = job[c].since /\ j.against = job[c].against
    BY <1>1, <1>5, SucceededJob
  <2>2. call'[c].tab = call[c].tab /\ call'[c].at = "sent" /\ call'[c].heard
    BY <1>1, <1>5, SucceededJob
  <2>3. \A t \in Pages : form'[t].open = form[t].open
    BY <1>1, <1>5, SucceededForm
  <2>4. \A u \in Pages : FormForm(u)'
    <3>1. \A d \in Calls : job'[d].on /\ job'[d].opening # 0 =>
            job[d].on /\ job'[d].opening = job[d].opening /\ call'[d].tab = call[d].tab
      BY <1>3, <2>1, <2>2 DEF JobReplaced, OneCall
    <3>. QED
      BY <1>1, <1>2, <2>3, <3>1, SameForms
  <2>5. ASSUME NEW o \in DOMAIN docs PROVE OpeningForm(o)'
    <3>1. OpeningForm(o) /\ docs'[o] = docs[o] /\ o \in DOMAIN docs' /\ o # 0
          /\ docs[o].lost \in Nat
      BY <1>1, <1>2, PageFacts DEF OpeningInvariant
    <3>2. Shown(o)' => Shown(o)
      BY <2>3 DEF Shown
    <3>3. job'[c].on = job[c].on /\ job'[c].opening = job[c].opening
      BY <2>1 DEF JobReplaced
    <3>4. c \in PendingOf(o)' => c \in PendingOf(o)
      BY <1>3, <1>5, <3>3 DEF PendingOf, Serves, Pends
    <3>5. Waits(c, o) => Waits(c, o)'
      BY <2>2, <3>3 DEF Waits, Serves
    <3>. QED
      BY <1>1, <1>2, <1>3, <2>1, <3>1, <3>2, <3>4, <3>5, OneOpening
  <2>. QED
    BY <1>2, <2>4, <2>5 DEF OpeningInvariant
<1>. QED
  BY <1>4, <1>5

LEMMA DoneOpenings ==
    ASSUME OpeningInvariant, NEW c \in Calls, Failed(c) \/ Drop(c)
    PROVE  OpeningInvariant'
<1>1. PageShape /\ SessionShape /\ PageTypes /\ \A u \in Pages : FormForm(u)
  BY DEF OpeningInvariant, PageShape
<1>2. PageShape' /\ OneCall(c) /\ JobReplaced(c, NoJob) /\ UNCHANGED <<screen, row, view, form, docs>>
  BY <1>1, DoneShape DEF Failed, Drop
<1>3. \A u \in Pages : FormForm(u)'
  BY <1>1, <1>2, SameForms, NoJobFacts DEF JobReplaced, OneCall
<1>4. ASSUME NEW o \in DOMAIN docs PROVE OpeningForm(o)'
  <2>1. OpeningForm(o) /\ docs'[o] = docs[o] /\ o \in DOMAIN docs' /\ docs[o].lost \in Nat
    BY <1>1, <1>2, PageFacts DEF OpeningInvariant
  <2>2. Shown(o)' => Shown(o)
    BY <1>2 DEF Shown
  <2>3. c \notin PendingOf(o)'
    BY <1>2, NoJobFacts DEF PendingOf, Serves, JobReplaced
  <2>4. ~Waits(c, o)
    BY DEF Waits, Failed, Drop
  <2>. QED
    BY <1>1, <1>2, <2>1, <2>2, <2>3, <2>4, OneOpening
<1>. QED
  BY <1>2, <1>3, <1>4 DEF OpeningInvariant

LEMMA LoseOpenings ==
    ASSUME OpeningInvariant, NEW c \in Calls, LoseAnswer(c)
    PROVE  OpeningInvariant'
<1>1. PageShape /\ SessionShape /\ PageTypes /\ \A u \in Pages : FormForm(u)
  BY DEF OpeningInvariant, PageShape
<1>2. PageShape' /\ OneCall(c) /\ JobReplaced(c, job[c]) /\ UNCHANGED <<screen, row, view, form, job>>
  BY <1>1, LoseShape DEF LoseAnswer
<1>3. /\ call'[c].at = call[c].at /\ call'[c].tab = call[c].tab /\ ~call'[c].heard
      /\ call[c].heard /\ call[c].at \in {"sent", "accepted", "rejected"}
  BY <1>1, LoseAnswerEffect DEF LoseAnswer
<1>4. /\ DOMAIN docs' = DOMAIN docs /\ Len(docs') = Len(docs)
      /\ \A o \in DOMAIN docs :
           /\ docs'[o].done = docs[o].done
           /\ docs'[o].lost = docs[o].lost + (IF o = job[c].opening THEN 1 ELSE 0)
  <2>1. CASE job[c].opening = 0
    <3>1. docs' = docs
      BY <2>1 DEF LoseAnswer
    <3>2. \A o \in DOMAIN docs : o # 0 /\ docs[o].lost \in Nat
      BY <1>1, PageFacts
    <3>. QED
      BY <2>1, <3>1, <3>2
  <2>2. CASE job[c].opening # 0
    <3>1. PICK p \in DOMAIN docs : p = job[c].opening
      BY <1>1, <2>2, JobOpening
    <3>2. docs' = [docs EXCEPT ![p].lost = @ + 1]
      BY <2>2, <3>1 DEF LoseAnswer
    <3>3. /\ Len(docs') = Len(docs) /\ DOMAIN docs' = DOMAIN docs
          /\ \A o \in DOMAIN docs :
               /\ docs'[o].lost = docs[o].lost + (IF o = p THEN 1 ELSE 0)
               /\ docs'[o].done = docs[o].done
      BY <1>1, <3>2, LostMore
    <3>. QED
      BY <2>2, <3>1, <3>3
  <2>. QED
    BY <2>1, <2>2
<1>5. \A u \in Pages : FormForm(u)'
  <2>1. \A d \in Calls : job'[d].on /\ job'[d].opening # 0 =>
          job[d].on /\ job'[d].opening = job[d].opening /\ call'[d].tab = call[d].tab
    BY <1>2, <1>3 DEF OneCall
  <2>. QED
    BY <1>1, <1>2, <1>4, <2>1, SameForms
<1>6. ASSUME NEW o \in DOMAIN docs PROVE OpeningForm(o)'
  <2>1. OpeningForm(o) /\ docs[o].lost \in Nat /\ o \in DOMAIN docs'
    BY <1>1, <1>4, PageFacts DEF OpeningInvariant
  <2>2. Shown(o)' => Shown(o)
    BY <1>2 DEF Shown
  <2>3. /\ docs'[o].done = docs[o].done /\ docs'[o].lost >= docs[o].lost
        /\ o = job[c].opening => docs'[o].lost >= docs[o].lost + 1
    BY <1>4, <2>1
  <2>4. c \in PendingOf(o)' => c \in PendingOf(o)
    BY <1>2, <1>3 DEF PendingOf, Serves, Pends
  <2>5. Waits(c, o) => o = job[c].opening
    BY DEF Waits, Serves
  <2>. QED
    BY <1>1, <1>2, <2>1, <2>2, <2>3, <2>4, <2>5, OneOpening
<1>. QED
  BY <1>2, <1>4, <1>5, <1>6 DEF OpeningInvariant

LEMMA OpenOpenings ==
    ASSUME OpeningInvariant, NEW t \in Pages, OpenForm(t), Still
    PROVE  OpeningInvariant'
<1>1. PageShape /\ SessionShape /\ PageTypes /\ \A u \in Pages : FormForm(u)
      /\ Len(docs) \in Nat /\ DOMAIN docs = 1..Len(docs)
  BY PageFacts DEF OpeningInvariant, PageShape
<1>2. PageShape'
  BY <1>1, StillShape
<1>3. /\ \A u \in Pages \ {t} : form'[u] = form[u]
      /\ form'[t].open = Len(docs) + 1
  BY <1>1, OpenedForm
<1>4. /\ Len(docs') = Len(docs) + 1
      /\ DOMAIN docs' = DOMAIN docs \cup {Len(docs) + 1}
      /\ \A p \in DOMAIN docs : docs'[p] = docs[p]
      /\ docs'[Len(docs) + 1].done = 0 /\ docs'[Len(docs) + 1].lost = 0
  BY <1>1, OpenedDoc DEF OpenForm
<1>5. \A d \in Calls : job'[d] = job[d] /\ call'[d] = call[d] /\ job[d].opening <= Len(docs)
                       /\ job[d].opening \in Nat
  BY <1>1, PageFacts DEF Still, PageShape, JobForm, IsJob
<1>6. ASSUME NEW u \in Pages PROVE FormForm(u)'
  <2>1. FormForm(u) /\ form[u].open \in Nat /\ \A x \in Pages : form[x].open <= Len(docs)
    BY <1>1, PageFacts DEF FormForm
  <2>2. CASE u = t
    <3>1. \A x \in Pages : form'[x].open = form'[u].open => x = u
      BY <1>1, <1>3, <2>1, <2>2, PageFacts
    <3>2. \A d \in Calls : job'[d].opening # form'[u].open
      BY <1>1, <1>3, <1>5, <2>2
    <3>. QED
      BY <1>1, <1>3, <1>4, <2>2, <3>1, <3>2 DEF FormForm
  <2>3. CASE u # t
    <3>1. form'[u] = form[u] /\ form'[u].open # form'[t].open
      BY <1>1, <1>3, <2>1, <2>3
    <3>2. form'[u].open <= Len(docs')
      BY <1>1, <1>4, <2>1, <3>1
    <3>3. \A x \in Pages : form'[x].open = form'[u].open => form[x].open = form[u].open
      BY <1>3, <3>1
    <3>. QED
      BY <1>5, <2>1, <3>1, <3>2, <3>3 DEF FormForm
  <2>. QED
    BY <2>2, <2>3
<1>7. ASSUME NEW o \in DOMAIN docs' PROVE OpeningForm(o)'
  <2>1. CASE o \in DOMAIN docs
    <3>1. Shown(o)' => Shown(o)
      BY <1>1, <1>3, <2>1 DEF Shown
    <3>2. OpeningForm(o) /\ docs'[o] = docs[o]
      BY <1>4, <2>1 DEF OpeningInvariant
    <3>. QED
      BY <1>1, <1>2, <2>1, <3>1, <3>2, SameOpening
  <2>2. CASE o = Len(docs) + 1
    <3>1. \A d \in Calls : ~Serves(d, o)'
      BY <1>1, <1>5, <2>2 DEF Serves
    <3>2. PendingOf(o)' = {}
      BY <3>1 DEF PendingOf
    <3>3. Cardinality(PendingOf(o)') = 0
      BY <3>2, FS_EmptySet
    <3>4. docs'[o].done = 0 /\ docs'[o].lost = 0
      BY <1>4, <2>2
    <3>. QED
      BY <3>3, <3>4 DEF OpeningForm
  <2>. QED
    BY <1>4, <2>1, <2>2
<1>. QED
  BY <1>2, <1>6, <1>7 DEF OpeningInvariant

LEMMA StillOpenings ==
    ASSUME OpeningInvariant, Still,
           \/ \E t \in Pages : Fetch(t) \/ CloseForm(t)
           \/ Elsewhere
           \/ UNCHANGED webVars
    PROVE  OpeningInvariant'
<1>1. PageShape /\ PageTypes /\ \A u \in Pages : FormForm(u)
  BY DEF OpeningInvariant, PageShape
<1>2. PageShape'
  BY <1>1, StillShape
<1>3. docs' = docs /\ \A t \in Pages : form'[t].open = form[t].open \/ form'[t].open = 0
  <2>1. ASSUME NEW t \in Pages, CloseForm(t)
        PROVE  \A u \in Pages : form'[u].open = form[u].open \/ form'[u].open = 0
    <3>1. form' = [form EXCEPT ![t] = Closed]
      BY <2>1 DEF CloseForm
    <3>2. \A u \in Pages : form'[u] = IF u = t THEN Closed ELSE form[u]
      BY <1>1, <3>1, FormEffect, ClosedFacts
    <3>. QED
      BY <3>2, ClosedFacts
  <2>2. docs' = docs
    BY DEF Fetch, CloseForm, Elsewhere, webVars, pageVars
  <2>3. form' = form \/ \E t \in Pages : CloseForm(t)
    BY DEF Fetch, Elsewhere, webVars, pageVars
  <2>. QED
    BY <2>1, <2>2, <2>3
<1>4. \A u \in Pages : FormForm(u)'
  <2>1. job' = job /\ call' = call
    BY DEF Still
  <2>. QED
    BY <1>1, <1>3, <2>1, SameForms
<1>5. ASSUME NEW o \in DOMAIN docs PROVE OpeningForm(o)'
  <2>1. o # 0 /\ OpeningForm(o)
    BY <1>1, PageFacts DEF OpeningInvariant
  <2>2. Shown(o)' => Shown(o)
    BY <1>3, <2>1 DEF Shown
  <2>. QED
    BY <1>1, <1>2, <1>3, <2>1, <2>2, SameOpening
<1>. QED
  BY <1>2, <1>3, <1>4, <1>5 DEF OpeningInvariant

LEMMA OpeningInductive == ASSUME OpeningInvariant, [WebNext]_webVars PROVE OpeningInvariant'
<1>1. PageShape /\ \A t \in Pages : form[t].open <= Len(docs)
  BY DEF OpeningInvariant, FormForm
<1>2. PageShape'
  BY <1>1, PageShapeInductive
<1>3. CASE Calm
  BY <1>2, <1>3, CalmOpenings
<1>4. ASSUME Still, NEW t \in Pages, OpenForm(t) PROVE OpeningInvariant'
  BY <1>4, OpenOpenings
<1>5. ASSUME Still, (\E t \in Pages : Fetch(t) \/ CloseForm(t)) \/ Elsewhere \/ UNCHANGED webVars
      PROVE  OpeningInvariant'
  BY <1>5, StillOpenings
<1>6. ASSUME NEW t \in Pages, NEW c \in Calls, Submit(t, c) \/ Click(t, c) PROVE OpeningInvariant'
  BY <1>6, SubmitOpenings, ClickOpenings
<1>7. ASSUME NEW c \in Calls, Handle(c) \/ Succeeded(c) \/ Failed(c) \/ LoseAnswer(c) \/ Drop(c)
      PROVE  OpeningInvariant'
  BY <1>7, HandleOpenings, SucceededOpenings, DoneOpenings, LoseOpenings
<1>8. UNCHANGED webVars => Still
  BY DEF webVars, sessionVars, pageVars, Still
<1>. QED
  BY <1>1, <1>3, <1>4, <1>5, <1>6, <1>7, <1>8, CalmSteps

FirstRow(s) == [NoRow EXCEPT !.status = s, !.version = 1]

LEMMA RowInit ==
    ASSUME NEW s
    PROVE  /\ IsRow(FirstRow(s)) /\ FirstRow(s).status = s /\ FirstRow(s).version = 1
           /\ \A t \in Pages : FirstRow(s).told[t] = 0
<1>1. PICK f \in [Pages -> Nat] : f = [t \in Pages |-> 0]
  OBVIOUS
<1>2. PICK r : r = [NoRow EXCEPT !.status = s]
  OBVIOUS
<1>3. r = [status |-> s, version |-> 0, own |-> FALSE, told |-> f]
  BY <1>1, <1>2 DEF NoRow
<1>4. PICK q : q = [r EXCEPT !.version = 1]
  OBVIOUS
<1>5. q = [status |-> s, version |-> 1, own |-> FALSE, told |-> f]
  BY <1>3, <1>4
<1>6. q.status = s /\ q.version = 1 /\ q.own = FALSE /\ q.told = f
  BY <1>5
<1>7. FirstRow(s) = q
  BY <1>2, <1>4 DEF FirstRow
<1>. QED
  BY <1>1, <1>5, <1>6, <1>7 DEF IsRow

LEMMA PageInit == ASSUME WebInit PROVE PageShape /\ docs = <<>> /\ Len(docs) = 0
<1>1. SessionShape /\ docs = <<>> /\ Len(docs) = 0 /\ docs \in Seq(DocRows)
  <2>1. docs = <<>>
    BY DEF WebInit
  <2>. QED
    BY <2>1, ShapeInit
<1>2. shown \in [Tabs -> BOOLEAN]
  BY DEF WebInit, SessionInit
<1>3. screen \in DOMAIN Screens
  <2>1. screen \in ChosenScreens(left) /\ left \in Budgets
    BY DEF WebInit, SessionInit
  <2>. QED
    BY <2>1, WebBounds
<1>4. IsRow(row)
  <2>1. \E s : row = FirstRow(s)
    BY DEF WebInit, FirstRow
  <2>. QED
    BY <2>1, RowInit
<1>5. view = [t \in Pages |-> view[t]] /\ \A t \in Pages : view[t].version \in Nat
  BY DEF WebInit, Unknown
<1>6. form \in [Pages -> FormRows]
  BY ClosedFacts DEF WebInit
<1>7. job = [c \in Calls |-> job[c]] /\ \A c \in Calls : job[c] = NoJob
  BY DEF WebInit
<1>8. \A c \in Calls : IsJob(job[c]) /\ JobForm(c)
  BY <1>1, <1>7, NoJobFacts DEF JobForm
<1>. QED
  BY <1>1, <1>2, <1>3, <1>4, <1>5, <1>6, <1>7, <1>8 DEF PageShape, PageTypes, DocRows, FormRows

LEMMA OpeningInit == ASSUME WebInit PROVE OpeningInvariant
<1>1. \A t \in Pages : form[t].open = 0
  BY ClosedFacts DEF WebInit
<1>. QED
  BY <1>1, PageInit DEF OpeningInvariant, FormForm

\* One opening of a dialog makes one document, and one more per answer that was lost:
\* the submit button of the dialogs is disabled while an answer is awaited.
THEOREM OpeningsDoneOnce == WebSpec => []DonePerOpening
<1>1. WebInit => OpeningInvariant
  BY OpeningInit
<1>2. OpeningInvariant /\ [WebNext]_webVars => OpeningInvariant'
  BY OpeningInductive
<1>3. OpeningInvariant => DonePerOpening
  <2> SUFFICES ASSUME OpeningInvariant, NEW o \in DOMAIN docs
               PROVE  docs[o].done <= 1 + docs[o].lost
    BY DEF DonePerOpening
  <2>1. docs[o].done \in Nat /\ docs[o].lost \in Nat
    BY PageFacts DEF OpeningInvariant, PageShape
  <2>2. PICK n \in Nat : n = Cardinality(PendingOf(o))
    BY PendingFacts
  <2>3. docs[o].done + n <= docs[o].lost + 1
    BY <2>2 DEF OpeningInvariant, OpeningForm
  <2>. QED
    BY <2>1, <2>3
<1>. QED
  BY <1>1, <1>2, <1>3, PTL DEF WebSpec

-----------------------------------------------------------------------------
(* The table of the screens.                                               *)

LEMMA ScreenTable ==
    /\ DOMAIN Screens = {"salesPrice", "salesOrder", "salesIssue", "salesReturn",
                         "confirmSalesOrder", "postSalesReturn", "purchasePrice",
                         "purchaseOrder", "editPurchaseOrder", "purchaseReceipt",
                         "purchaseReturn", "confirmPurchaseOrder", "postPurchase", "account",
                         "expense", "adjustment", "payment", "receipt", "postFinance",
                         "postExpense", "inspection", "settlement", "location", "opening",
                         "stockAdjustment", "transfer", "masterData", "deactivate"}
    /\ Screens["salesPrice"] = SalesPriceDialog
    /\ Screens["salesOrder"] = SalesOrderDialog
    /\ Screens["salesIssue"] = SalesIssueDialog
    /\ Screens["salesReturn"] = SalesReturnDialog
    /\ Screens["confirmSalesOrder"] = ConfirmSalesOrder
    /\ Screens["postSalesReturn"] = PostSalesReturn
    /\ Screens["purchasePrice"] = PurchasePriceDialog
    /\ Screens["purchaseOrder"] = PurchaseOrderDialog
    /\ Screens["editPurchaseOrder"] = EditPurchaseOrder
    /\ Screens["purchaseReceipt"] = PurchaseReceiptDialog
    /\ Screens["purchaseReturn"] = PurchaseReturnDialog
    /\ Screens["confirmPurchaseOrder"] = ConfirmPurchaseOrder
    /\ Screens["postPurchase"] = PostPurchaseDocument
    /\ Screens["account"] = AccountDialog
    /\ Screens["expense"] = ExpenseDialog
    /\ Screens["adjustment"] = AdjustmentDialog
    /\ Screens["payment"] = PaymentDialog
    /\ Screens["receipt"] = ReceiptDialog
    /\ Screens["postFinance"] = PostFinanceDocument
    /\ Screens["postExpense"] = PostExpense
    /\ Screens["inspection"] = InspectionDialog
    /\ Screens["settlement"] = SettlementDialog
    /\ Screens["location"] = LocationDialog
    /\ Screens["opening"] = OpeningDialog
    /\ Screens["stockAdjustment"] = StockAdjustmentDialog
    /\ Screens["transfer"] = TransferDialog
    /\ Screens["masterData"] = MasterDataFormDialog
    /\ Screens["deactivate"] = DeactivateDialog
BY DEF Screens

LEMMA RowTable ==
    /\ RowOf("salesPrice") = Untargeted
    /\ RowOf("salesOrder") = Untargeted
    /\ RowOf("salesIssue") = IssueRow
    /\ RowOf("salesReturn") = PostedRow
    /\ RowOf("confirmSalesOrder") = SalesOrderRow
    /\ RowOf("postSalesReturn") = DraftRow
    /\ RowOf("purchasePrice") = Untargeted
    /\ RowOf("purchaseOrder") = Untargeted
    /\ RowOf("editPurchaseOrder") = EditedOrderRow
    /\ RowOf("purchaseReceipt") = ReceivedOrderRow
    /\ RowOf("purchaseReturn") = PostedRow
    /\ RowOf("confirmPurchaseOrder") = PurchaseOrderRow
    /\ RowOf("postPurchase") = DraftRow
    /\ RowOf("account") = Untargeted
    /\ RowOf("expense") = Untargeted
    /\ RowOf("adjustment") = Untargeted
    /\ RowOf("payment") = PayableRow
    /\ RowOf("receipt") = ReceivableRow
    /\ RowOf("postFinance") = DraftRow
    /\ RowOf("postExpense") = DraftRow
    /\ RowOf("inspection") = PendingRow
    /\ RowOf("settlement") = ClaimRow
    /\ RowOf("location") = Untargeted
    /\ RowOf("opening") = Untargeted
    /\ RowOf("stockAdjustment") = Untargeted
    /\ RowOf("transfer") = Untargeted
    /\ RowOf("masterData") = Untargeted
    /\ RowOf("deactivate") = MasterRow
BY DEF RowOf

CallsForm(d) ==
  /\ Len(d.calls) \in {1, 2}
  /\ d.remembers => Len(d.calls) = 2

\* What is always offered asks nothing of the row.
UntargetForm(d) ==
  /\ CallsForm(d) /\ d.dialog = TRUE /\ d.offered = NoTarget
  /\ \A i \in 1..Len(d.calls) : d.calls[i] \in {"create", "finish"}

\* What is offered for a row is accepted for the statuses it is offered for.
TargetForm(d, r) ==
  /\ CallsForm(d) /\ d.offered # NoTarget
  /\ d.offered \subseteq r.accepts /\ "UNKNOWN" \notin d.offered
  /\ ~d.dialog => Len(d.calls) = 1 /\ d.calls[1] # "finish"

ScreenForm(s) ==
  \/ UntargetForm(Screens[s]) /\ RowOf(s) = Untargeted /\ s # "inspection"
  \/ TargetForm(Screens[s], RowOf(s))

LEMMA DialogFacts ==
    ASSUME NEW o, NEW k
    PROVE  /\ Dialog(o, k).offered = o /\ Dialog(o, k).calls = k /\ Dialog(o, k).dialog = TRUE
           /\ Dialog(o, k).remembers = FALSE
BY DEF Dialog

LEMMA ButtonFacts ==
    ASSUME NEW o, NEW to
    PROVE  /\ Button(o, to).offered = o /\ Button(o, to).calls = <<to>>
           /\ Button(o, to).dialog = FALSE /\ Button(o, to).remembers = FALSE
BY DEF Button

LEMMA RowFacts ==
    ASSUME NEW a, NEW m, NEW k
    PROVE  Row(a, m, k).accepts = a /\ Row(a, m, k).moves = m /\ Row(a, m, k).cancels = k
BY DEF Row

LEMMA CallsFacts ==
    /\ \A x : Len(<<x>>) = 1 /\ <<x>>[1] = x
    /\ \A x, y : Len(<<x, y>>) = 2 /\ <<x, y>>[1] = x /\ <<x, y>>[2] = y
OBVIOUS

LEMMA UntargetedDialogs ==
    ASSUME NEW k \in {<<"create">>, <<"create", "finish">>}
    PROVE  UntargetForm(Dialog(NoTarget, k))
<1>1. Len(k) \in {1, 2} /\ \A i \in 1..Len(k) : k[i] \in {"create", "finish"}
  <2>1. CASE k = <<"create">>
    BY <2>1
  <2>2. CASE k = <<"create", "finish">>
    BY <2>2
  <2>. QED
    BY <2>1, <2>2
<1>2. PICK d : d = Dialog(NoTarget, k)
  OBVIOUS
<1>3. d.offered = NoTarget /\ d.calls = k /\ d.dialog = TRUE /\ d.remembers = FALSE
  BY <1>2, DialogFacts
<1>. QED
  BY <1>1, <1>2, <1>3 DEF UntargetForm, CallsForm

LEMMA TargetedDialogs ==
    ASSUME NEW o, o # NoTarget, "UNKNOWN" \notin o, NEW r, o \subseteq r.accepts,
           NEW k, Len(k) \in {1, 2}
    PROVE  TargetForm(Dialog(o, k), r)
<1>1. PICK d : d = Dialog(o, k)
  OBVIOUS
<1>2. d.offered = o /\ d.calls = k /\ d.dialog = TRUE /\ d.remembers = FALSE
  BY <1>1 DEF Dialog
<1>. QED
  BY <1>1, <1>2 DEF TargetForm, CallsForm

LEMMA TargetedButtons ==
    ASSUME NEW o, o # NoTarget, "UNKNOWN" \notin o, NEW r, o \subseteq r.accepts,
           NEW to, to # "finish"
    PROVE  TargetForm(Button(o, to), r)
<1>1. PICK d : d = Button(o, to)
  OBVIOUS
<1>2. d.offered = o /\ d.calls = <<to>> /\ d.dialog = FALSE /\ d.remembers = FALSE
  BY <1>1, ButtonFacts
<1>3. Len(d.calls) = 1 /\ d.calls[1] = to
  BY <1>2, CallsFacts
<1>. QED
  BY <1>1, <1>2, <1>3 DEF TargetForm, CallsForm

LEMMA ScreensForm == \A s \in DOMAIN Screens : ScreenForm(s)
<1>1. /\ UntargetForm(Dialog(NoTarget, <<"create">>))
      /\ UntargetForm(Dialog(NoTarget, <<"create", "finish">>))
  BY UntargetedDialogs
<1>2. \A s \in {"salesPrice", "salesOrder", "purchasePrice", "purchaseOrder", "account", "expense",
               "adjustment", "location", "opening", "stockAdjustment", "transfer"} : ScreenForm(s)
  BY <1>1, ScreenTable, RowTable
     DEF ScreenForm, SalesPriceDialog, SalesOrderDialog, PurchasePriceDialog, PurchaseOrderDialog,
         AccountDialog, ExpenseDialog, AdjustmentDialog, LocationDialog, OpeningDialog,
         StockAdjustmentDialog, TransferDialog
<1>3. ScreenForm("masterData")
  <2>0. PICK d0 : d0 = Dialog(NoTarget, <<"create", "finish">>)
    OBVIOUS
  <2>1. MasterDataFormDialog
          = [offered |-> NoTarget, calls |-> <<"create", "finish">>, dialog |-> TRUE,
             remembers |-> TRUE, rechecks |-> FALSE]
    <3>1. d0 = [offered |-> NoTarget, calls |-> <<"create", "finish">>, dialog |-> TRUE,
                remembers |-> FALSE, rechecks |-> FALSE]
      BY <2>0 DEF Dialog
    <3>2. MasterDataFormDialog = [d0 EXCEPT !.remembers = TRUE]
      BY <2>0 DEF MasterDataFormDialog
    <3>. QED
      BY <3>1, <3>2
  <2>2. PICK d : d = MasterDataFormDialog
    OBVIOUS
  <2>3. d.offered = NoTarget /\ d.calls = <<"create", "finish">> /\ d.dialog = TRUE
    BY <2>1, <2>2
  <2>4. Len(d.calls) = 2 /\ \A i \in 1..Len(d.calls) : d.calls[i] \in {"create", "finish"}
    BY <2>3
  <2>. QED
    BY <2>2, <2>3, <2>4, ScreenTable, RowTable DEF ScreenForm, UntargetForm, CallsForm
<1>4. ScreenForm("inspection")
  <2>0. PICK d0 : d0 = Dialog({"PENDING"}, <<"create", "finish">>)
    OBVIOUS
  <2>1. InspectionDialog
          = [offered |-> {"PENDING"}, calls |-> <<"create", "finish">>, dialog |-> TRUE,
             remembers |-> FALSE, rechecks |-> TRUE]
    <3>1. d0 = [offered |-> {"PENDING"}, calls |-> <<"create", "finish">>, dialog |-> TRUE,
                remembers |-> FALSE, rechecks |-> FALSE]
      BY <2>0 DEF Dialog
    <3>2. InspectionDialog = [d0 EXCEPT !.rechecks = TRUE]
      BY <2>0 DEF InspectionDialog
    <3>. QED
      BY <3>1, <3>2
  <2>2. PICK d : d = InspectionDialog
    OBVIOUS
  <2>3. d.offered = {"PENDING"} /\ d.calls = <<"create", "finish">> /\ d.dialog = TRUE
        /\ d.remembers = FALSE
    BY <2>1, <2>2
  <2>4. Len(d.calls) = 2
    BY <2>3
  <2>5. PendingRow.accepts = {"PENDING"}
    BY RowFacts DEF PendingRow
  <2>. QED
    BY <2>2, <2>3, <2>4, <2>5, ScreenTable, RowTable DEF ScreenForm, TargetForm, CallsForm, NoTarget
<1>5. ScreenForm("salesIssue")
  <2>1. IssueRow.accepts = {"DRAFT"} /\ Len(<<"update", "POSTED">>) \in {1, 2}
    <3>1. IssueRow.accepts = {"DRAFT"}
      <4>1. \E m, k : IssueRow = Row({"DRAFT"}, m, k)
        BY Zenon DEF IssueRow
      <4>. QED
        BY <4>1, RowFacts
    <3>2. Len(<<"update", "POSTED">>) \in {1, 2}
      BY CallsFacts
    <3>. QED
      BY <3>1, <3>2
  <2>2. PICK o : o = {"DRAFT"}
    OBVIOUS
  <2>3. o # NoTarget /\ "UNKNOWN" \notin o /\ o \subseteq IssueRow.accepts
    BY <2>1, <2>2 DEF NoTarget
  <2>4. TargetForm(Dialog(o, <<"update", "POSTED">>), IssueRow)
    BY <2>1, <2>3, TargetedDialogs
  <2>. QED
    BY <2>2, <2>4, ScreenTable, RowTable DEF ScreenForm, SalesIssueDialog
<1>6. ScreenForm("salesReturn")
  <2>1. PostedRow.accepts = {"POSTED"} /\ Len(<<"create", "finish">>) \in {1, 2}
    <3>1. PostedRow.accepts = {"POSTED"}
      BY RowFacts DEF PostedRow
    <3>2. Len(<<"create", "finish">>) \in {1, 2}
      BY CallsFacts
    <3>. QED
      BY <3>1, <3>2
  <2>2. PICK o : o = {"POSTED"}
    OBVIOUS
  <2>3. o # NoTarget /\ "UNKNOWN" \notin o /\ o \subseteq PostedRow.accepts
    BY <2>1, <2>2 DEF NoTarget
  <2>4. TargetForm(Dialog(o, <<"create", "finish">>), PostedRow)
    BY <2>1, <2>3, TargetedDialogs
  <2>. QED
    BY <2>2, <2>4, ScreenTable, RowTable DEF ScreenForm, SalesReturnDialog
<1>7. ScreenForm("editPurchaseOrder")
  <2>1. EditedOrderRow.accepts = {"DRAFT", "CONFIRMED"} /\ Len(<<"update">>) \in {1, 2}
    <3>1. EditedOrderRow.accepts = {"DRAFT", "CONFIRMED"}
      <4>1. \E m, k : EditedOrderRow = Row({"DRAFT", "CONFIRMED"}, m, k)
        BY Zenon DEF EditedOrderRow
      <4>. QED
        BY <4>1, RowFacts
    <3>2. Len(<<"update">>) \in {1, 2}
      BY CallsFacts
    <3>. QED
      BY <3>1, <3>2
  <2>2. PICK o : o = {"DRAFT", "CONFIRMED"}
    OBVIOUS
  <2>3. o # NoTarget /\ "UNKNOWN" \notin o /\ o \subseteq EditedOrderRow.accepts
    BY <2>1, <2>2 DEF NoTarget
  <2>4. TargetForm(Dialog(o, <<"update">>), EditedOrderRow)
    BY <2>1, <2>3, TargetedDialogs
  <2>. QED
    BY <2>2, <2>4, ScreenTable, RowTable DEF ScreenForm, EditPurchaseOrder
<1>8. ScreenForm("purchaseReceipt")
  <2>1. ReceivedOrderRow.accepts = {"CONFIRMED", "PARTIALLY_RECEIVED"} /\ Len(<<"create", "finish">>) \in {1, 2}
    <3>1. ReceivedOrderRow.accepts = {"CONFIRMED", "PARTIALLY_RECEIVED"}
      BY RowFacts DEF ReceivedOrderRow
    <3>2. Len(<<"create", "finish">>) \in {1, 2}
      BY CallsFacts
    <3>. QED
      BY <3>1, <3>2
  <2>2. PICK o : o = {"CONFIRMED", "PARTIALLY_RECEIVED"}
    OBVIOUS
  <2>3. o # NoTarget /\ "UNKNOWN" \notin o /\ o \subseteq ReceivedOrderRow.accepts
    BY <2>1, <2>2 DEF NoTarget
  <2>4. TargetForm(Dialog(o, <<"create", "finish">>), ReceivedOrderRow)
    BY <2>1, <2>3, TargetedDialogs
  <2>. QED
    BY <2>2, <2>4, ScreenTable, RowTable DEF ScreenForm, PurchaseReceiptDialog
<1>9. ScreenForm("purchaseReturn")
  <2>1. PostedRow.accepts = {"POSTED"} /\ Len(<<"create", "finish">>) \in {1, 2}
    <3>1. PostedRow.accepts = {"POSTED"}
      BY RowFacts DEF PostedRow
    <3>2. Len(<<"create", "finish">>) \in {1, 2}
      BY CallsFacts
    <3>. QED
      BY <3>1, <3>2
  <2>2. PICK o : o = {"POSTED"}
    OBVIOUS
  <2>3. o # NoTarget /\ "UNKNOWN" \notin o /\ o \subseteq PostedRow.accepts
    BY <2>1, <2>2 DEF NoTarget
  <2>4. TargetForm(Dialog(o, <<"create", "finish">>), PostedRow)
    BY <2>1, <2>3, TargetedDialogs
  <2>. QED
    BY <2>2, <2>4, ScreenTable, RowTable DEF ScreenForm, PurchaseReturnDialog
<1>10. ScreenForm("payment")
  <2>1. PayableRow.accepts = {"OPEN", "PARTIALLY_PAID"} /\ Len(<<"create", "finish">>) \in {1, 2}
    <3>1. PayableRow.accepts = {"OPEN", "PARTIALLY_PAID"}
      BY RowFacts DEF PayableRow
    <3>2. Len(<<"create", "finish">>) \in {1, 2}
      BY CallsFacts
    <3>. QED
      BY <3>1, <3>2
  <2>2. PICK o : o = PayableStatus \ {"SETTLED", "PAID", "VOID"}
    OBVIOUS
  <2>3. o # NoTarget /\ "UNKNOWN" \notin o /\ o \subseteq PayableRow.accepts
    BY <2>1, <2>2 DEF NoTarget, PayableStatus
  <2>4. TargetForm(Dialog(o, <<"create", "finish">>), PayableRow)
    BY <2>1, <2>3, TargetedDialogs
  <2>. QED
    BY <2>2, <2>4, ScreenTable, RowTable DEF ScreenForm, PaymentDialog
<1>11. ScreenForm("receipt")
  <2>1. ReceivableRow.accepts = {"OPEN", "PARTIALLY_RECEIVED"} /\ Len(<<"create", "finish">>) \in {1, 2}
    <3>1. ReceivableRow.accepts = {"OPEN", "PARTIALLY_RECEIVED"}
      BY RowFacts DEF ReceivableRow
    <3>2. Len(<<"create", "finish">>) \in {1, 2}
      BY CallsFacts
    <3>. QED
      BY <3>1, <3>2
  <2>2. PICK o : o = ReceivableStatus \ {"SETTLED", "VOID"}
    OBVIOUS
  <2>3. o # NoTarget /\ "UNKNOWN" \notin o /\ o \subseteq ReceivableRow.accepts
    BY <2>1, <2>2 DEF NoTarget, ReceivableStatus
  <2>4. TargetForm(Dialog(o, <<"create", "finish">>), ReceivableRow)
    BY <2>1, <2>3, TargetedDialogs
  <2>. QED
    BY <2>2, <2>4, ScreenTable, RowTable DEF ScreenForm, ReceiptDialog
<1>12. ScreenForm("settlement")
  <2>1. ClaimRow.accepts = {"DRAFT", "SUBMITTED", "PARTIALLY_SETTLED"} /\ Len(<<"create">>) \in {1, 2}
    <3>1. ClaimRow.accepts = {"DRAFT", "SUBMITTED", "PARTIALLY_SETTLED"}
      BY RowFacts DEF ClaimRow
    <3>2. Len(<<"create">>) \in {1, 2}
      BY CallsFacts
    <3>. QED
      BY <3>1, <3>2
  <2>2. PICK o : o = {"SUBMITTED", "PARTIALLY_SETTLED"}
    OBVIOUS
  <2>3. o # NoTarget /\ "UNKNOWN" \notin o /\ o \subseteq ClaimRow.accepts
    BY <2>1, <2>2 DEF NoTarget
  <2>4. TargetForm(Dialog(o, <<"create">>), ClaimRow)
    BY <2>1, <2>3, TargetedDialogs
  <2>. QED
    BY <2>2, <2>4, ScreenTable, RowTable DEF ScreenForm, SettlementDialog
<1>13. ScreenForm("deactivate")
  <2>1. MasterRow.accepts = {"ACTIVE", "INACTIVE"} /\ Len(<<"INACTIVE">>) \in {1, 2}
    <3>1. MasterRow.accepts = {"ACTIVE", "INACTIVE"}
      BY RowFacts DEF MasterRow
    <3>2. Len(<<"INACTIVE">>) \in {1, 2}
      BY CallsFacts
    <3>. QED
      BY <3>1, <3>2
  <2>2. PICK o : o = {"ACTIVE"}
    OBVIOUS
  <2>3. o # NoTarget /\ "UNKNOWN" \notin o /\ o \subseteq MasterRow.accepts
    BY <2>1, <2>2 DEF NoTarget
  <2>4. TargetForm(Dialog(o, <<"INACTIVE">>), MasterRow)
    BY <2>1, <2>3, TargetedDialogs
  <2>. QED
    BY <2>2, <2>4, ScreenTable, RowTable DEF ScreenForm, DeactivateDialog
<1>14. \A r \in {SalesOrderRow, DraftRow, PurchaseOrderRow}, to \in {"CONFIRMED", "POSTED"} :
         TargetForm(Button({"DRAFT"}, to), r)
  <2>1. \A r \in {SalesOrderRow, DraftRow, PurchaseOrderRow} : r.accepts = {"DRAFT"}
    BY RowFacts DEF SalesOrderRow, DraftRow, PurchaseOrderRow
  <2>2. PICK o : o = {"DRAFT"}
    OBVIOUS
  <2>3. o # NoTarget /\ "UNKNOWN" \notin o
    BY <2>2 DEF NoTarget
  <2>. QED
    BY <2>1, <2>2, <2>3, TargetedButtons
<1>15. \A s \in {"confirmSalesOrder", "postSalesReturn", "confirmPurchaseOrder", "postPurchase",
             "postFinance", "postExpense"} : ScreenForm(s)
  BY <1>14, ScreenTable, RowTable
     DEF ScreenForm, ConfirmSalesOrder, PostSalesReturn, ConfirmPurchaseOrder, PostPurchaseDocument,
         PostFinanceDocument, PostExpense
<1>. QED
  BY <1>2, <1>3, <1>4, <1>5, <1>6, <1>7, <1>8, <1>9, <1>10, <1>11, <1>12, <1>13, <1>15, ScreenTable

LEMMA AskedFacts ==
    ASSUME PageTypes
    PROVE  /\ Len(Asked.calls) \in {1, 2} /\ (Asked.remembers => Len(Asked.calls) = 2)
           /\ Untargets => /\ Asked.dialog = TRUE /\ RowOf(screen) = Untargeted
                           /\ screen # "inspection"
                           /\ \A i \in 1..Len(Asked.calls) : Asked.calls[i] \in {"create", "finish"}
           /\ ~Untargets => TargetForm(Asked, RowOf(screen))
<1>1. ScreenForm(screen)
  BY ScreensForm DEF PageTypes
<1>2. CASE UntargetForm(Screens[screen]) /\ RowOf(screen) = Untargeted /\ screen # "inspection"
  BY <1>2 DEF Asked, Untargets, UntargetForm, CallsForm
<1>3. CASE TargetForm(Screens[screen], RowOf(screen))
  BY <1>3 DEF Asked, Untargets, TargetForm, CallsForm
<1>. QED
  BY <1>1, <1>2, <1>3 DEF ScreenForm

LEMMA UntargetedFacts ==
    Untargeted.accepts = NoTarget /\ Untargeted.moves = {} /\ Untargeted.cancels = {}
BY RowFacts DEF Untargeted

-----------------------------------------------------------------------------
(* What is refused of what was offered.                                    *)

\* The row keeps its status or gets a new version; a row nobody asks for stays.
RowGrows ==
  /\ row'.version >= row.version
  /\ row'.version = row.version => row'.status = row.status
  /\ Untargets => row'.version = row.version

LEMMA SameRow == ASSUME PageTypes, row' = row PROVE RowGrows
BY PageFacts DEF RowGrows

LEMMA KnowsKept ==
    ASSUME PageTypes, IsRow(row)', RowGrows, screen' = screen,
           NEW known \in Nat, NEW told \in Nat, KnowsRow(known, told)
    PROVE  KnowsRow(known, told)'
<1>1. row.version \in Nat /\ row'.version \in Nat
  BY PageFacts DEF IsRow
<1>2. Asked' = Asked /\ (Untargets' <=> Untargets)
  BY DEF Asked, Untargets
<1>3. known <= row'.version
  BY <1>1 DEF KnowsRow, RowGrows
<1>4. ASSUME ~Untargets, known = row'.version PROVE Seen(row'.status) \in Asked.offered
  <2>1. known = row.version /\ row'.status = row.status
    BY <1>1, <1>4 DEF KnowsRow, RowGrows
  <2>. QED
    BY <1>4, <2>1 DEF KnowsRow
<1>. QED
  BY <1>2, <1>3, <1>4 DEF KnowsRow

LEMMA OldJob ==
    ASSUME OfferInvariant, IsRow(row)', RowGrows, screen' = screen,
           NEW d \in Calls, job'[d] = job[d], call'[d].at = "rejected" => call[d].at = "rejected"
    PROVE  JobKnows(d)' /\ RejectedHasCause(d)'
<1>1. PageTypes /\ JobKnows(d) /\ RejectedHasCause(d)
  BY DEF OfferInvariant, PageShape
<1>2. row.version \in Nat /\ row'.version \in Nat /\ job[d].since \in Nat
      /\ job[d].known \in Nat /\ job[d].told \in Nat
  BY <1>1, PageFacts DEF IsRow, IsJob
<1>3. Asked' = Asked /\ (Untargets' <=> Untargets)
  BY DEF Asked, Untargets
<1>4. ASSUME job[d].on PROVE JobKnows(d)'
  <2>1. PICK k \in Nat, n \in Nat : k = job[d].known /\ n = job[d].told
    BY <1>2
  <2>2. KnowsRow(k, n)
    BY <1>1, <1>4, <2>1 DEF JobKnows
  <2>3. KnowsRow(k, n)'
    BY <1>1, <2>2, KnowsKept
  <2>4. KnowsRow(job[d].known, job[d].told)'
    BY <1>3, <2>1, <2>3 DEF KnowsRow
  <2>5. job[d].since <= row'.version /\ (Untargets => job[d].since = row'.version)
    BY <1>1, <1>2, <1>4 DEF JobKnows, RowGrows
  <2>. QED
    BY <1>1, <1>3, <1>4, <2>4, <2>5 DEF JobKnows
<1>5. ~job[d].on => JobKnows(d)'
  BY DEF JobKnows
<1>6. RejectedHasCause(d)'
  BY <1>1 DEF RejectedHasCause
<1>. QED
  BY <1>4, <1>5, <1>6

\* The list of a page stays, is fetched, or goes with the tab.
ListKept(t) ==
  \/ view'[t] = view[t] /\ row'.told[t] = row.told[t]
  \/ /\ view'[t] = Current /\ row'.version = row.version /\ row'.status = row.status
     /\ row'.told[t] = row.told[t] \/ row'.told[t] = row.version
  \/ view'[t] = Unknown /\ row'.told[t] = row.told[t]

\* Its dialog knows of the row what it says.
DialogKnows(t) ==
  /\ form'[t].open # 0 =>
       /\ Asked.dialog /\ form'[t].known \in Nat /\ form'[t].told \in Nat
       /\ KnowsRow(form'[t].known, form'[t].told)
  /\ form'[t].saved => Asked.remembers

LEMMA ViewKept ==
    ASSUME OfferInvariant, IsRow(row)', RowGrows, screen' = screen,
           NEW t \in Pages, ListKept(t), DialogKnows(t)
    PROVE  ViewForm(t)'
<1>1. PageTypes /\ ViewForm(t) /\ row.version # 0
  BY DEF OfferInvariant, PageShape
<1>2. row.version \in Nat /\ row'.version \in Nat /\ view[t].version \in Nat
      /\ row.told[t] \in Nat /\ row'.told[t] \in Nat
  BY <1>1, PageFacts DEF IsRow
<1>3. Asked' = Asked
  BY DEF Asked
<1>4. ASSUME form'[t].open # 0 PROVE KnowsRow(form[t].known, form[t].told)'
  <2>1. PICK k \in Nat, n \in Nat : k = form'[t].known /\ n = form'[t].told
    BY <1>4 DEF DialogKnows
  <2>2. KnowsRow(k, n)
    BY <1>4, <2>1 DEF DialogKnows
  <2>3. KnowsRow(k, n)'
    BY <1>1, <2>2, KnowsKept
  <2>. QED
    BY <2>1, <2>3 DEF KnowsRow
<1>5. /\ form'[t].open # 0 => Asked'.dialog
      /\ form'[t].saved => Asked'.remembers
  BY <1>3 DEF DialogKnows
<1>6. /\ view'[t].version <= row'.version /\ row'.told[t] <= row'.version
      /\ view'[t].version # 0 => row'.told[t] <= view'[t].version
      /\ view'[t].version = row'.version => view'[t].status = Seen(row'.status)
      /\ view'[t].version = 0 => view'[t].status = "UNKNOWN"
  <2>1. CASE view'[t] = view[t] /\ row'.told[t] = row.told[t]
    BY <1>1, <1>2, <2>1 DEF ViewForm, RowGrows
  <2>2. CASE /\ view'[t] = Current /\ row'.version = row.version /\ row'.status = row.status
             /\ row'.told[t] = row.told[t] \/ row'.told[t] = row.version
    <3>1. Current.version = row.version /\ Current.status = Seen(row.status)
      BY DEF Current
    <3>. QED
      BY <1>1, <1>2, <2>2, <3>1 DEF ViewForm
  <2>3. CASE view'[t] = Unknown /\ row'.told[t] = row.told[t]
    <3>1. Unknown.version = 0 /\ Unknown.status = "UNKNOWN"
      BY DEF Unknown
    <3>. QED
      BY <1>1, <1>2, <2>3, <3>1 DEF ViewForm, RowGrows
  <2>. QED
    BY <2>1, <2>2, <2>3 DEF ListKept
<1>. QED
  BY <1>4, <1>5, <1>6 DEF ViewForm

LEMMA OldDialog ==
    ASSUME OfferInvariant, NEW t \in Pages,
           \/ form'[t] = form[t]
           \/ form'[t] = Closed
           \/ /\ form'[t].open = form[t].open /\ form'[t].known = form[t].known
              /\ form'[t].told = form[t].told
              /\ form'[t].saved => form[t].saved \/ Asked.remembers
    PROVE  DialogKnows(t)
<1>1. ViewForm(t) /\ form[t].known \in Nat /\ form[t].told \in Nat
  BY PageFacts DEF OfferInvariant, PageShape
<1>2. CASE form'[t] = Closed
  BY <1>2, ClosedFacts DEF DialogKnows
<1>3. CASE /\ form'[t].open = form[t].open /\ form'[t].known = form[t].known
           /\ form'[t].told = form[t].told
           /\ form'[t].saved => form[t].saved \/ Asked.remembers
  BY <1>1, <1>3 DEF DialogKnows, ViewForm
<1>. QED
  BY <1>2, <1>3

LEMMA OffersKept ==
    ASSUME OfferInvariant, PageShape', RowGrows, screen' = screen,
           \A t \in Pages : ListKept(t) /\ DialogKnows(t),
           \A c \in Calls : JobKnows(c)' /\ RejectedHasCause(c)'
    PROVE  OfferInvariant'
<1>1. PageTypes /\ row.version # 0 /\ IsRow(row)'
  BY DEF OfferInvariant, PageShape, PageTypes
<1>2. row.version \in Nat /\ row'.version \in Nat
  BY <1>1, PageFacts DEF IsRow
<1>3. row'.version # 0
  BY <1>1, <1>2 DEF RowGrows
<1>4. Untargets' => row'.status = "NONE"
  BY DEF Untargets, Asked, RowGrows, OfferInvariant
<1>5. \A t \in Pages : ViewForm(t)'
  BY <1>1, ViewKept
<1>. QED
  BY <1>3, <1>4, <1>5 DEF OfferInvariant

\* Nothing happens to the submissions; calls are at most sent again, or fail.
LEMMA SameOffers ==
    ASSUME OfferInvariant, PageShape', RowGrows, UNCHANGED <<screen, job>>, CallsCalm,
           \A t \in Pages : ListKept(t) /\ DialogKnows(t)
    PROVE  OfferInvariant'
<1>1. IsRow(row)'
  BY DEF PageShape, PageTypes
<1>2. ASSUME NEW c \in Calls PROVE JobKnows(c)' /\ RejectedHasCause(c)'
  <2>1. call'[c].at = "rejected" => call[c].at = "rejected"
    BY DEF CallsCalm
  <2>2. job'[c] = job[c]
    OBVIOUS
  <2>. QED
    BY <1>1, <2>1, <2>2, OldJob
<1>. QED
  BY <1>2, OffersKept

LEMMA CalmOffers == ASSUME OfferInvariant, PageShape', Calm PROVE OfferInvariant'
<1>1. PageTypes /\ row' = row
  BY DEF OfferInvariant, PageShape, Calm
<1>2. RowGrows
  BY <1>1, SameRow
<1>3. ASSUME NEW t \in Pages PROVE ListKept(t) /\ DialogKnows(t)
  <2>1. ListKept(t)
    BY <1>1 DEF ListKept, Calm
  <2>2. form'[t] = form[t] \/ form'[t] = Closed
    BY <1>1, LeaveEffect DEF Calm
  <2>. QED
    BY <2>1, <2>2, OldDialog
<1>. QED
  BY <1>2, <1>3, SameOffers DEF Calm

LEMMA FetchOffers ==
    ASSUME OfferInvariant, PageShape', Still, NEW t \in Pages, Fetch(t)
    PROVE  OfferInvariant'
<1>1. PageTypes /\ SessionShape /\ UNCHANGED <<row, form>> /\ view' = [view EXCEPT ![t] = Current]
  BY DEF OfferInvariant, PageShape, Fetch
<1>2. RowGrows /\ CallsCalm /\ UNCHANGED <<screen, job>>
  BY <1>1, SameRow, CallsSame DEF Still
<1>3. ASSUME NEW u \in Pages PROVE ListKept(u) /\ DialogKnows(u)
  <2>1. view'[u] = IF u = t THEN Current ELSE view[u]
    BY <1>1, ViewEffect
  <2>2. ListKept(u)
    BY <1>1, <2>1 DEF ListKept
  <2>. QED
    BY <1>1, <2>2, OldDialog
<1>. QED
  BY <1>2, <1>3, SameOffers

LEMMA CloseOffers ==
    ASSUME OfferInvariant, PageShape', Still, NEW t \in Pages, CloseForm(t)
    PROVE  OfferInvariant'
<1>1. PageTypes /\ SessionShape /\ UNCHANGED <<row, view>> /\ form' = [form EXCEPT ![t] = Closed]
  BY DEF OfferInvariant, PageShape, CloseForm
<1>2. RowGrows /\ CallsCalm /\ UNCHANGED <<screen, job>>
  BY <1>1, SameRow, CallsSame DEF Still
<1>3. ASSUME NEW u \in Pages PROVE ListKept(u) /\ DialogKnows(u)
  <2>1. form'[u] = IF u = t THEN Closed ELSE form[u]
    BY <1>1, FormEffect, ClosedFacts
  <2>2. ListKept(u)
    BY <1>1 DEF ListKept
  <2>. QED
    BY <2>1, <2>2, OldDialog
<1>. QED
  BY <1>2, <1>3, SameOffers

LEMMA UnchangedOffers == ASSUME OfferInvariant, PageShape', UNCHANGED webVars PROVE OfferInvariant'
<1>1. UNCHANGED <<row, view, form, screen, job, call>>
  BY DEF webVars, pageVars, sessionVars
<1>2. RowGrows /\ CallsCalm
  BY <1>1, SameRow, CallsSame DEF OfferInvariant, PageShape
<1>3. ASSUME NEW u \in Pages PROVE ListKept(u) /\ DialogKnows(u)
  <2>1. ListKept(u)
    BY <1>1 DEF ListKept
  <2>. QED
    BY <1>1, <2>1, OldDialog
<1>. QED
  BY <1>1, <1>2, <1>3, SameOffers

\* What is offered for a row is accepted, as far as the list tells.
LEMMA OfferedKnows ==
    ASSUME OfferInvariant, NEW t \in Pages, Offered(t)
    PROVE  KnowsRow(view[t].version, row.told[t])
<1>1. PageTypes /\ ViewForm(t)
  BY DEF OfferInvariant, PageShape
<1>2. view[t].version <= row.version
  BY <1>1 DEF ViewForm
<1>3. ASSUME ~Untargets
      PROVE  /\ row.told[t] <= view[t].version
             /\ view[t].version = row.version => Seen(row.status) \in Asked.offered
  <2>1. view[t].status \in Asked.offered
    BY <1>3 DEF Offered, Untargets
  <2>2. "UNKNOWN" \notin Asked.offered
    BY <1>1, <1>3, AskedFacts DEF TargetForm
  <2>. QED
    BY <1>1, <2>1, <2>2 DEF ViewForm
<1>. QED
  BY <1>2, <1>3 DEF KnowsRow

LEMMA OpenOffers ==
    ASSUME OfferInvariant, PageShape', Still, NEW t \in Pages, OpenForm(t)
    PROVE  OfferInvariant'
<1>1. PageTypes /\ SessionShape /\ UNCHANGED <<row, view>> /\ Asked.dialog /\ Offered(t)
  BY DEF OfferInvariant, PageShape, OpenForm
<1>2. RowGrows /\ CallsCalm /\ UNCHANGED <<screen, job>>
  BY <1>1, SameRow, CallsSame DEF Still
<1>3. KnowsRow(view[t].version, row.told[t])
  BY <1>1, OfferedKnows
<1>4. /\ \A u \in Pages \ {t} : form'[u] = form[u]
      /\ form'[t].known = view[t].version /\ form'[t].told = row.told[t] /\ form'[t].saved = FALSE
  BY <1>1, OpenedForm
<1>5. DialogKnows(t)
  BY <1>1, <1>3, <1>4, PageFacts DEF DialogKnows
<1>6. ASSUME NEW u \in Pages PROVE ListKept(u) /\ DialogKnows(u)
  <2>1. ListKept(u)
    BY <1>1 DEF ListKept
  <2>2. u # t => DialogKnows(u)
    BY <1>4, OldDialog
  <2>. QED
    BY <1>5, <2>1, <2>2
<1>. QED
  BY <1>2, <1>6, SameOffers

\* Nobody moves the row that no dialog asks for.
LEMMA MovedGrows ==
    ASSUME PageTypes, NEW to, NEW own, row' = Moved(to, own), Untargets => to = row.status
    PROVE  RowGrows /\ row'.told = row.told
<1>1. row'.told = row.told /\ IF to = row.status THEN row' = row
                              ELSE row'.version = row.version + 1 /\ row'.status = to
  BY MovedFacts
<1>. QED
  BY <1>1, PageFacts DEF RowGrows

LEMMA ElsewhereOffers ==
    ASSUME OfferInvariant, PageShape', Still, Elsewhere
    PROVE  OfferInvariant'
<1>1. PageTypes /\ SessionShape /\ UNCHANGED <<view, form>>
  BY DEF OfferInvariant, PageShape, Elsewhere
<1>2. CallsCalm /\ UNCHANGED <<screen, job>>
  BY <1>1, CallsSame DEF Still
<1>3. PICK to : row' = Moved(to, FALSE) /\ ~Untargets
  <2>1. PICK m \in RowOf(screen).moves \cup RowOf(screen).cancels : row' = Moved(m[2], FALSE)
    BY DEF Elsewhere
  <2>2. ~Untargets
    BY <1>1, <2>1, AskedFacts, UntargetedFacts
  <2>. QED
    BY <2>1, <2>2
<1>4. RowGrows /\ row'.told = row.told
  BY <1>1, <1>3, MovedGrows
<1>5. ASSUME NEW u \in Pages PROVE ListKept(u) /\ DialogKnows(u)
  <2>1. ListKept(u)
    BY <1>1, <1>4 DEF ListKept
  <2>. QED
    BY <1>1, <2>1, OldDialog
<1>. QED
  BY <1>2, <1>4, <1>5, SameOffers

\* The submission of one call is made, goes on, or is over.
LEMMA OneOffer ==
    ASSUME OfferInvariant, PageShape', RowGrows, screen' = screen,
           \A t \in Pages : ListKept(t) /\ DialogKnows(t),
           NEW c \in Calls, OneCall(c), NEW j, JobReplaced(c, j),
           j.on => /\ j.step \in 1..Len(Asked.calls)
                   /\ KnowsRow(j.known, j.told)
                   /\ j.since <= row'.version
                   /\ j.since >= j.known \/ ~Asked.dialog
                   /\ Untargets => j.since = row'.version,
           j.on /\ call'[c].at = "rejected" =>
             \/ j.against.version > j.known /\ j.against.version > j.told
             \/ j.against.status = "CONFIRMED WITH DRAFT RECEIPT"
    PROVE  OfferInvariant'
<1>1. PageTypes /\ IsRow(row)' /\ Asked' = Asked /\ (Untargets' <=> Untargets)
  BY DEF OfferInvariant, PageShape, PageTypes, Asked, Untargets
<1>2. job'[c] = j
  BY DEF JobReplaced
<1>3. j.known \in Nat /\ j.told \in Nat
  BY <1>2 DEF JobReplaced, IsJob
<1>4. ASSUME j.on PROVE KnowsRow(job[c].known, job[c].told)'
  <2>1. PICK k \in Nat, n \in Nat : k = j.known /\ n = j.told
    BY <1>3
  <2>2. KnowsRow(k, n)'
    BY <1>1, <1>4, <2>1, KnowsKept
  <2>. QED
    BY <1>2, <2>1, <2>2 DEF KnowsRow
<1>5. JobKnows(c)'
  BY <1>1, <1>2, <1>4 DEF JobKnows
<1>6. RejectedHasCause(c)'
  BY <1>2 DEF RejectedHasCause
<1>7. ASSUME NEW d \in Calls, d # c PROVE JobKnows(d)' /\ RejectedHasCause(d)'
  <2>1. job'[d] = job[d] /\ call'[d] = call[d]
    BY <1>7 DEF JobReplaced, OneCall
  <2>. QED
    BY <1>1, <2>1, OldJob
<1>. QED
  BY <1>5, <1>6, <1>7, OffersKept

LEMMA SameLists ==
    ASSUME OfferInvariant, UNCHANGED <<row, view, form>>
    PROVE  RowGrows /\ \A t \in Pages : ListKept(t) /\ DialogKnows(t)
<1>1. RowGrows
  BY SameRow DEF OfferInvariant, PageShape
<1>2. ASSUME NEW t \in Pages PROVE ListKept(t) /\ DialogKnows(t)
  <2>1. ListKept(t)
    BY DEF ListKept
  <2>. QED
    BY <2>1, OldDialog
<1>. QED
  BY <1>1, <1>2

LEMMA SubmitOffers ==
    ASSUME OfferInvariant, PageShape', NEW t \in Pages, NEW c \in Calls, Submit(t, c)
    PROVE  OfferInvariant'
<1>1. PageTypes /\ SessionShape /\ ViewForm(t) /\ form[t].open # 0
      /\ UNCHANGED <<screen, row, view, form>>
  BY DEF OfferInvariant, PageShape, Submit, Submittable
<1>2. OneCall(c) /\ call'[c].at = "sent"
  BY <1>1, SubmitEffect
<1>3. PICK j : /\ JobReplaced(c, j) /\ j.on = TRUE /\ j.opening = form[t].open
               /\ j.step = (IF form[t].saved THEN 2 ELSE 1)
               /\ j.since = row.version /\ j.known = form[t].known /\ j.told = form[t].told
  BY <1>1, SubmitJob
<1>4. KnowsRow(form[t].known, form[t].told)
  BY <1>1 DEF ViewForm
<1>5. j.since <= row'.version /\ j.since >= j.known /\ j.since = row'.version
  BY <1>1, <1>3, <1>4, PageFacts DEF KnowsRow
<1>6. j.step \in 1..Len(Asked.calls)
  <2>1. Len(Asked.calls) \in {1, 2} /\ (Asked.remembers => Len(Asked.calls) = 2)
    BY <1>1, AskedFacts
  <2>2. PICK n \in {1, 2} : n = Len(Asked.calls)
    BY <2>1
  <2>3. CASE form[t].saved
    <3>1. n = 2 /\ j.step = 2
      BY <1>1, <1>3, <2>1, <2>2, <2>3 DEF ViewForm
    <3>. QED
      BY <2>2, <3>1
  <2>4. CASE ~form[t].saved
    <3>1. j.step = 1
      BY <1>3, <2>4
    <3>2. 1 \in 1..n
      OBVIOUS
    <3>. QED
      BY <2>2, <3>1, <3>2, Zenon
  <2>. QED
    BY <2>3, <2>4
<1>. QED
  BY <1>1, <1>2, <1>3, <1>4, <1>5, <1>6, SameLists, OneOffer

LEMMA ClickOffers ==
    ASSUME OfferInvariant, PageShape', NEW t \in Pages, NEW c \in Calls, Click(t, c)
    PROVE  OfferInvariant'
<1>1. PageTypes /\ SessionShape /\ Offered(t) /\ ~Asked.dialog
      /\ UNCHANGED <<screen, row, view, form>>
  BY DEF OfferInvariant, PageShape, Click
<1>2. OneCall(c) /\ call'[c].at = "sent"
  BY <1>1, SubmitEffect
<1>3. PICK j : /\ JobReplaced(c, j) /\ j.on = TRUE /\ j.opening = 0 /\ j.step = 1
               /\ j.since = 0 /\ j.known = view[t].version /\ j.told = row.told[t]
  BY <1>1, ClickJob
<1>4. KnowsRow(view[t].version, row.told[t])
  BY <1>1, OfferedKnows
<1>5. j.since <= row'.version /\ ~Untargets
  <2>1. row.version \in Nat
    BY <1>1, PageFacts
  <2>2. ~Untargets
    BY <1>1, AskedFacts
  <2>. QED
    BY <1>1, <1>3, <2>1, <2>2
<1>6. j.step \in 1..Len(Asked.calls)
  <2>1. PICK n \in {1, 2} : n = Len(Asked.calls)
    BY <1>1, AskedFacts
  <2>2. 1 \in 1..n
    OBVIOUS
  <2>. QED
    BY <1>3, <2>1, <2>2, Zenon
<1>. QED
  BY <1>1, <1>2, <1>3, <1>4, <1>5, <1>6, SameLists, OneOffer

LEMMA DoneOffers ==
    ASSUME OfferInvariant, PageShape', NEW c \in Calls, Failed(c) \/ Drop(c)
    PROVE  OfferInvariant'
<1>1. PageShape /\ UNCHANGED <<screen, row, view, form>>
  BY DEF OfferInvariant, Failed, Drop
<1>2. OneCall(c) /\ JobReplaced(c, NoJob) /\ ~NoJob.on
  BY <1>1, DoneShape, NoJobFacts
<1>. QED
  BY <1>1, <1>2, SameLists, OneOffer

LEMMA LoseOffers ==
    ASSUME OfferInvariant, PageShape', NEW c \in Calls, LoseAnswer(c)
    PROVE  OfferInvariant'
<1>1. PageShape /\ PageTypes /\ SessionShape /\ UNCHANGED <<screen, row, view, form, job>>
  BY DEF OfferInvariant, PageShape, LoseAnswer
<1>2. OneCall(c) /\ call'[c].at = call[c].at
  BY <1>1, LoseAnswerEffect
<1>3. RowGrows /\ \A t \in Pages : ListKept(t) /\ DialogKnows(t)
  BY <1>1, SameLists
<1>4. ASSUME NEW d \in Calls PROVE JobKnows(d)' /\ RejectedHasCause(d)'
  <2>1. job'[d] = job[d] /\ call'[d].at = call[d].at
    BY <1>1, <1>2 DEF OneCall
  <2>2. IsRow(row)'
    BY DEF PageShape, PageTypes
  <2>. QED
    BY <1>1, <1>3, <2>1, <2>2, OldJob
<1>. QED
  BY <1>1, <1>3, <1>4, OffersKept

\* What is asked of no row moves none and is refused by none.
LEMMA UntargetedOutcomes ==
    ASSUME OfferInvariant, Untargets, NEW c \in Calls, job[c].on
    PROVE  Outcomes(c) = {row.status} /\ ~Refuses(c)
<1>1. PageTypes /\ JobKnows(c) /\ row.status = "NONE"
  BY DEF OfferInvariant, PageShape
<1>2. RowOf(screen).moves = {} /\ RowOf(screen).accepts = NoTarget /\ screen # "inspection"
  BY <1>1, AskedFacts, UntargetedFacts
<1>3. CallOf(c) \in {"create", "finish"}
  BY <1>1, AskedFacts DEF CallOf, JobKnows
<1>4. {m[2] : m \in {n \in RowOf(screen).moves : n[1] = row.status}} = {}
  BY <1>2
<1>5. Outcomes(c) = {row.status}
  <2>1. PICK M : M = {m[2] : m \in {n \in RowOf(screen).moves : n[1] = row.status}}
    OBVIOUS
  <2>2. M = {}
    BY <1>4, <2>1
  <2>3. Outcomes(c) = CASE CallOf(c) \notin {"create", "finish", "update"} -> {CallOf(c)}
          [] screen = "inspection" -> IF CallOf(c) = "create" THEN M ELSE {row.status}
          [] CallOf(c) # "update" /\ LastOf(c) -> M \cup {row.status}
          [] OTHER -> {row.status}
    BY <2>1 DEF Outcomes
  <2>. QED
    BY <1>2, <1>3, <2>2, <2>3
<1>6. ~Refuses(c)
  <2>1. CASE CallOf(c) = "finish"
    BY <1>1, <2>1 DEF Refuses, JobKnows
  <2>2. CASE CallOf(c) # "finish"
    BY <1>1, <1>2, <2>2 DEF Refuses, NoTarget
  <2>. QED
    BY <2>1, <2>2
<1>. QED
  BY <1>5, <1>6

\* What was offered is refused when the row moved since, by others.
LEMMA RefusedMoved ==
    ASSUME OfferInvariant, NEW c \in Calls, job[c].on, Refuses(c)
    PROVE  \/ row.version > job[c].known /\ row.version > job[c].told
           \/ row.status = "CONFIRMED WITH DRAFT RECEIPT"
<1>1. PageTypes /\ JobKnows(c) /\ ~Untargets
  BY UntargetedOutcomes DEF OfferInvariant, PageShape
<1>2. job[c].known \in Nat /\ job[c].told \in Nat /\ job[c].since \in Nat /\ row.version \in Nat
  BY <1>1, PageFacts DEF IsJob
<1>3. /\ job[c].known <= row.version /\ job[c].told <= job[c].known
      /\ job[c].since <= row.version
      /\ Asked.dialog => job[c].since >= job[c].known
  BY <1>1 DEF JobKnows, KnowsRow
<1>11. job[c].known = row.version => Seen(row.status) \in Asked.offered
  BY <1>1 DEF JobKnows, KnowsRow
<1>4. TargetForm(Asked, RowOf(screen))
  BY <1>1, AskedFacts
<1>12. job[c].known # row.version => row.version > job[c].known /\ row.version > job[c].told
  <2>1. PICK k \in Nat, n \in Nat, v \in Nat :
          k = job[c].known /\ n = job[c].told /\ v = row.version
    BY <1>2
  <2>2. k <= v /\ n <= k
    BY <1>3, <2>1
  <2>3. k # v => v > k /\ v > n
    BY <2>2
  <2>. QED
    BY <2>1, <2>3
<1>5. SUFFICES ASSUME job[c].known = row.version, row.status # "CONFIRMED WITH DRAFT RECEIPT"
               PROVE  FALSE
  BY <1>12, Zenon
<1>6. row.status \in RowOf(screen).accepts
  BY <1>11, <1>4, <1>5 DEF Seen, TargetForm
<1>7. CallOf(c) = "finish" /\ row.version # job[c].since
  BY <1>6 DEF Refuses
<1>8. ~Asked.dialog
  <2>1. PICK v \in Nat, w \in Nat : w = job[c].since /\ v = row.version
    BY <1>2
  <2>2. w <= v /\ w # v /\ (Asked.dialog => w >= v)
    BY <1>3, <1>5, <1>7, <2>1
  <2>3. ~(w >= v)
    BY <2>2
  <2>. QED
    BY <2>2, <2>3
<1>9. Len(Asked.calls) = 1 /\ Asked.calls[1] # "finish"
  BY <1>4, <1>8 DEF TargetForm
<1>10. job[c].step = 1
  <2>1. job[c].step \in 1..1
    BY <1>1, <1>9 DEF JobKnows
  <2>. QED
    BY <2>1
<1>. QED
  BY <1>7, <1>9, <1>10 DEF CallOf

LEMMA HandleOffers ==
    ASSUME OfferInvariant, PageShape', NEW c \in Calls, Handle(c)
    PROVE  OfferInvariant'
<1>1. PageTypes /\ SessionShape /\ JobKnows(c) /\ job[c].on /\ UNCHANGED <<screen, view, form>>
  BY DEF OfferInvariant, PageShape, Handle
<1>2. job[c].known \in Nat /\ job[c].told \in Nat /\ job[c].since \in Nat /\ row.version \in Nat
  BY <1>1, PageFacts DEF IsJob
<1>3. OneCall(c)
  BY <1>1, HandleEffect
<1>4. /\ job[c].step \in 1..Len(Asked.calls)
      /\ KnowsRow(job[c].known, job[c].told)
      /\ job[c].since <= row.version
      /\ job[c].since >= job[c].known \/ ~Asked.dialog
      /\ Untargets => job[c].since = row.version
      /\ job[c].known <= row.version
  BY <1>1 DEF JobKnows, KnowsRow
<1>5. CASE /\ call'[c].at = "accepted"
           /\ \E to \in Outcomes(c) :
                /\ row' = Moved(to, TRUE)
                /\ job' = [job EXCEPT ![c].moved = IF to # row.status THEN row.version + 1 ELSE @,
                                      ![c].since = row'.version]
  <2>1. PICK to \in Outcomes(c) :
          /\ row' = Moved(to, TRUE)
          /\ job' = [job EXCEPT ![c].moved = IF to # row.status THEN row.version + 1 ELSE @,
                                ![c].since = row'.version]
    BY <1>5
  <2>2. Untargets => to = row.status
    BY <1>1, <2>1, UntargetedOutcomes
  <2>3. RowGrows /\ row'.told = row.told
    BY <1>1, <2>1, <2>2, MovedGrows
  <2>4. ASSUME NEW t \in Pages PROVE ListKept(t) /\ DialogKnows(t)
    <3>1. ListKept(t)
      BY <1>1, <2>3 DEF ListKept
    <3>. QED
      BY <1>1, <3>1, OldDialog
  <2>5. PICK j : /\ JobReplaced(c, j) /\ j.on = job[c].on /\ j.opening = job[c].opening
                 /\ j.step = job[c].step /\ j.known = job[c].known /\ j.told = job[c].told
                 /\ j.since = row'.version /\ j.against = job[c].against
    BY <1>1, <2>1, HandleJob
  <2>6. row'.version \in Nat
    BY <2>1, <1>1, MovedFacts DEF IsRow
  <2>7. j.since <= row'.version /\ j.since >= j.known
    BY <1>2, <1>4, <2>3, <2>5, <2>6 DEF RowGrows
  <2>. QED
    BY <1>1, <1>3, <1>4, <1>5, <2>3, <2>4, <2>5, <2>7, OneOffer
<1>6. CASE /\ Refuses(c) /\ call'[c].at = "rejected"
           /\ job' = [job EXCEPT ![c].against = row]
           /\ row' = row
  <2>1. RowGrows /\ \A t \in Pages : ListKept(t) /\ DialogKnows(t)
    BY <1>1, <1>6, SameLists
  <2>2. PICK j : /\ JobReplaced(c, j) /\ j.on = job[c].on /\ j.opening = job[c].opening
                 /\ j.step = job[c].step /\ j.known = job[c].known /\ j.told = job[c].told
                 /\ j.since = job[c].since /\ j.against = row
    BY <1>1, <1>6, RejectJob
  <2>3. \/ row.version > job[c].known /\ row.version > job[c].told
        \/ row.status = "CONFIRMED WITH DRAFT RECEIPT"
    BY <1>1, <1>6, RefusedMoved
  <2>. QED
    BY <1>1, <1>3, <1>4, <1>6, <2>1, <2>2, <2>3, OneOffer
<1>7. \/ /\ call'[c].at = "accepted"
         /\ \E to \in Outcomes(c) :
              /\ row' = Moved(to, TRUE)
              /\ job' = [job EXCEPT ![c].moved = IF to # row.status THEN row.version + 1 ELSE @,
                                    ![c].since = row'.version]
      \/ /\ Refuses(c) /\ call'[c].at = "rejected"
         /\ job' = [job EXCEPT ![c].against = row]
         /\ row' = row
  BY <1>1, HandleEffect
<1>. QED
  BY <1>5, <1>6, <1>7

LEMMA SucceededOffers ==
    ASSUME OfferInvariant, PageShape', NEW c \in Calls, Succeeded(c)
    PROVE  OfferInvariant'
<1>1. PageShape /\ PageTypes /\ SessionShape /\ JobKnows(c) /\ job[c].on /\ screen' = screen
  BY DEF OfferInvariant, PageShape, Succeeded
<1>2. OneCall(c)
  BY <1>1, SucceededEffect
<1>3. /\ row'.version = row.version /\ row'.status = row.status
      /\ \A u \in Pages : \/ row'.told[u] = row.told[u]
                          \/ u = call[c].tab /\ row'.told[u] = row.version
      /\ \/ \A u \in Pages : view'[u] = IF u = call[c].tab THEN Current ELSE view[u]
         \/ row' = row /\ view' = view
  BY <1>1, SucceededRow
<1>4. RowGrows
  BY <1>1, <1>3, PageFacts DEF RowGrows
<1>5. ASSUME NEW u \in Pages PROVE ListKept(u) /\ DialogKnows(u)
  <2>1. ListKept(u)
    BY <1>3 DEF ListKept
  <2>2. DialogKnows(u)
    <3>1. CASE LastOf(c)
      <4>1. form'[u] = form[u] \/ form'[u] = Closed
        BY <1>1, <3>1, SucceededForm
      <4>. QED
        BY <4>1, OldDialog
    <3>2. CASE ~LastOf(c)
      <4>1. /\ form'[u].open = form[u].open /\ form'[u].known = form[u].known
            /\ form'[u].told = form[u].told
            /\ form'[u].saved => form[u].saved \/ Asked.remembers
        BY <1>1, <3>2, SucceededForm
      <4>. QED
        BY <4>1, OldDialog
    <3>. QED
      BY <3>1, <3>2
  <2>. QED
    BY <2>1, <2>2
<1>6. CASE LastOf(c)
  <2>1. JobReplaced(c, NoJob) /\ ~NoJob.on
    BY <1>1, <1>6, SucceededJob, NoJobFacts
  <2>. QED
    BY <1>1, <1>2, <1>4, <1>5, <2>1, OneOffer
<1>7. CASE ~LastOf(c)
  <2>1. PICK j : /\ JobReplaced(c, j) /\ j.on = job[c].on /\ j.opening = job[c].opening
                 /\ j.step = job[c].step + 1 /\ j.known = job[c].known
                 /\ j.told = job[c].told /\ j.since = job[c].since
                 /\ j.against = job[c].against
    BY <1>1, <1>7, SucceededJob
  <2>2. call'[c].at = "sent"
    BY <1>1, <1>7, SucceededJob
  <2>3. /\ job[c].step \in 1..Len(Asked.calls)
        /\ KnowsRow(j.known, j.told)
        /\ j.since <= row'.version
        /\ j.since >= j.known \/ ~Asked.dialog
        /\ Untargets => j.since = row'.version
    BY <1>1, <1>3, <2>1 DEF JobKnows
  <2>4. j.step \in 1..Len(Asked.calls)
    <3>1. PICK n \in {1, 2} : n = Len(Asked.calls)
      BY <1>1, AskedFacts
    <3>2. job[c].step \in 1..n /\ job[c].step # n
      BY <1>7, <2>3, <3>1 DEF LastOf
    <3>3. job[c].step + 1 \in 1..n
      BY <3>2
    <3>. QED
      BY <2>1, <3>1, <3>3
  <2>. QED
    BY <1>1, <1>2, <1>4, <1>5, <2>1, <2>2, <2>3, <2>4, OneOffer
<1>. QED
  BY <1>6, <1>7

LEMMA OfferInductive ==
    ASSUME OpeningInvariant, OfferInvariant, [WebNext]_webVars
    PROVE  OfferInvariant'
<1>1. PageShape /\ PageShape'
  <2>1. PageShape /\ \A t \in Pages : form[t].open <= Len(docs)
    BY DEF OpeningInvariant, FormForm
  <2>. QED
    BY <2>1, PageShapeInductive
<1>2. CASE Calm
  BY <1>1, <1>2, CalmOffers
<1>3. ASSUME Still, NEW t \in Pages, Fetch(t) \/ OpenForm(t) \/ CloseForm(t) PROVE OfferInvariant'
  BY <1>1, <1>3, FetchOffers, OpenOffers, CloseOffers
<1>4. CASE Still /\ Elsewhere
  BY <1>1, <1>4, ElsewhereOffers
<1>5. ASSUME NEW t \in Pages, NEW c \in Calls, Submit(t, c) \/ Click(t, c) PROVE OfferInvariant'
  BY <1>1, <1>5, SubmitOffers, ClickOffers
<1>6. ASSUME NEW c \in Calls, Handle(c) \/ Succeeded(c) \/ Failed(c) \/ LoseAnswer(c) \/ Drop(c)
      PROVE  OfferInvariant'
  BY <1>1, <1>6, HandleOffers, SucceededOffers, DoneOffers, LoseOffers
<1>7. CASE UNCHANGED webVars
  BY <1>1, <1>7, UnchangedOffers
<1>. QED
  BY <1>1, <1>2, <1>3, <1>4, <1>5, <1>6, <1>7, CalmSteps

LEMMA OfferInit == ASSUME WebInit PROVE OfferInvariant
<1>1. PageShape /\ PageTypes
  BY PageInit DEF PageShape
<1>2. PICK s \in Statuses(screen) : row = FirstRow(s)
  BY DEF WebInit, FirstRow
<1>3. row.status = s /\ row.version = 1 /\ \A t \in Pages : row.told[t] = 0
  BY <1>2, RowInit
<1>4. ASSUME Untargets PROVE row.status = "NONE"
  <2>1. RowOf(screen).accepts = NoTarget /\ RowOf(screen).moves = {} /\ RowOf(screen).cancels = {}
        /\ Screens[screen].offered = NoTarget
    BY <1>1, <1>4, AskedFacts, UntargetedFacts DEF Untargets, Asked
  <2>2. UNION {{m[1], m[2]} : m \in RowOf(screen).moves \cup RowOf(screen).cancels} = {}
    BY <2>1
  <2>3. Statuses(screen) = NoTarget
    BY <2>1, <2>2 DEF Statuses
  <2>. QED
    BY <1>3, <2>3 DEF NoTarget
<1>5. ASSUME NEW t \in Pages PROVE ViewForm(t)
  <2>1. view[t] = Unknown /\ form[t] = Closed
    BY DEF WebInit
  <2>2. view[t].version = 0 /\ view[t].status = "UNKNOWN" /\ form[t].open = 0 /\ form[t].saved = FALSE
    BY <2>1, ClosedFacts DEF Unknown
  <2>. QED
    BY <1>3, <2>2 DEF ViewForm
<1>6. ASSUME NEW c \in Calls PROVE JobKnows(c) /\ RejectedHasCause(c)
  <2>1. ~job[c].on
    BY NoJobFacts DEF WebInit
  <2>. QED
    BY <2>1 DEF JobKnows, RejectedHasCause
<1>. QED
  BY <1>1, <1>3, <1>4, <1>5, <1>6 DEF OfferInvariant

\* What the page offers for a row is refused only when the row moved since its list
\* was fetched, and not by a submission it had heard of, as the hooks fetch the lists
\* again after every mutation; except for the draft receipt the list does not tell of.
THEOREM RefusedWhenMoved == WebSpec => []RefusedOnlyIfMoved
<1>1. WebInit => OpeningInvariant /\ OfferInvariant
  BY OpeningInit, OfferInit
<1>2. OpeningInvariant /\ OfferInvariant /\ [WebNext]_webVars => OpeningInvariant' /\ OfferInvariant'
  BY OpeningInductive, OfferInductive
<1>3. OpeningInvariant /\ OfferInvariant => RefusedOnlyIfMoved
  <2> SUFFICES ASSUME OfferInvariant, NEW c \in Calls, job[c].on, call[c].at = "rejected"
               PROVE  LET met == job[c].against IN
                        \/ met.version > job[c].known /\ ~(met.own /\ met.version <= job[c].told)
                        \/ met.status = "CONFIRMED WITH DRAFT RECEIPT"
    BY DEF RefusedOnlyIfMoved
  <2>1. RejectedHasCause(c) /\ IsJob(job[c])
    BY PageFacts DEF OfferInvariant, PageShape
  <2>2. PICK v \in Nat, n \in Nat : v = job[c].against.version /\ n = job[c].told
    BY <2>1 DEF IsJob, IsRow
  <2>3. v > n => ~(v <= n)
    OBVIOUS
  <2>. QED
    BY <2>1, <2>2, <2>3 DEF RejectedHasCause
<1>. QED
  BY <1>1, <1>2, <1>3, PTL DEF WebSpec
=============================================================================
