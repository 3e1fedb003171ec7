---------------------------- MODULE SalesProofs ----------------------------
(***************************************************************************)
(* Proofs about sales, for any orders, items, documents and requests.      *)
(*                                                                         *)
(* A quota is kept although nothing reserves it: what the order counts as  *)
(* issued and what is left of the quota change together, in the one        *)
(* transaction that compares them, and a document moves only items of its  *)
(* own order, whatever its handler read before.                            *)
(*                                                                         *)
(* The books follow: what orders count as issued and what documents are    *)
(* charged are sums over the posted documents, and each transaction that   *)
(* writes one of them posts one document.                                  *)
(***************************************************************************)
EXTENDS SalesLedger, TotalProofs

Within(qty, o) == \A i \in Item : OrderOf[i] # o => qty[i] = 0

\* The row has the columns of an issue, and lists items of its order.
IssueKept(row) ==
    /\ row = [status |-> row.status, order |-> row.order, items |-> row.items,
              qty |-> row.qty, revenue |-> row.revenue, located |-> row.located]
    /\ row.status # "ABSENT" =>
          row.order \in Order /\ row.items \subseteq ItemsOf(row.order)
    /\ row.qty \in Quantity
    /\ row.status # "ABSENT" => Within(row.qty, row.order)

ReturnKept(row) == row = [status |-> row.status, issue |-> row.issue, qty |-> row.qty]

Rows ==
    /\ issue = [s \in Issue |-> issue[s]] /\ \A s \in Issue : IssueKept(issue[s])
    /\ ret = [t \in Return |-> ret[t]] /\ \A t \in Return : ReturnKept(ret[t])

\* A handler that will write an issue writes items of its order.
RequestKept(row) ==
    /\ row.op = "createIssue" =>
          row.id \in Order /\ row.qty \in Quantity /\ Within(row.qty, row.id)
    /\ row.op \in {"updateIssue", "postIssue"} =>
          /\ row.id \in Issue /\ issue[row.id].status # "ABSENT"
          /\ row.qty \in Quantity /\ Within(row.qty, issue[row.id].order)

Requests == proc = [p \in Process |-> proc[p]] /\ \A p \in Process : RequestKept(proc[p])

\* What was issued is within the order and, on a quota, what is gone of it.
Counted ==
    /\ issued \in [Item -> Nat] /\ quota \in [Item -> Int]
    /\ Fits(issued, Ordered)
    /\ \A i \in Item : OrderOf[i] \in Virtual =>
          quota[i] = Quota[i] - issued[i] /\ quota[i] >= 0

SalesInv == Rows /\ Requests /\ Counted

\* What may become of an issue.
Continues(s) ==
    issue[s].status # "ABSENT" =>
        issue'[s].status # "ABSENT" /\ issue'[s].order = issue[s].order

StatusStays(s) ==
    issue[s].status \in {"POSTED", "CANCELLED"} => issue'[s].status = issue[s].status

IssuesGoOn ==
    /\ issue' = [s \in Issue |-> issue'[s]]
    /\ \A s \in Issue : IssueKept(issue'[s]) /\ Continues(s) /\ StatusStays(s)

(***************************************************************************)
(* Rows.                                                                   *)
(***************************************************************************)

\* A new document with items of its order is a row like any other.
LEMMA DraftRow ==
    ASSUME NEW o \in Order, NEW qty \in Quantity, NEW loc, Within(qty, o)
    PROVE  IssueKept(Draft(o, qty, loc))
<1> DEFINE amount == Amount(qty)
<1>1. Draft(o, qty, loc) = [status |-> "DRAFT", order |-> o, items |-> {i \in Item : qty[i] > 0},
                            qty |-> qty, revenue |-> amount, located |-> loc]
  BY DEF Draft
<1> HIDE DEF amount
<1>2. {i \in Item : qty[i] > 0} \subseteq ItemsOf(o)
  BY DEF Within, ItemsOf
<1>. QED
  BY <1>1, <1>2 DEF IssueKept

\* A quantity of one item of the order.
LEMMA OneItem ==
    ASSUME NEW o, NEW i \in ItemsOf(o), NEW n \in Nat
    PROVE  OnlyItem(i, n) \in Quantity /\ Within(OnlyItem(i, n), o)
BY DEF OnlyItem, Zero, Quantity, Within, ItemsOf

\* Drafts take unused identities; every other issue is what it was in rows.
LEMMA DraftsMade ==
    ASSUME NEW rows, NEW o \in Order, NEW I \in SUBSET ItemsOf(o), NEW qty, NEW loc,
           \A i \in I : qty[i] \in Nat,
           \A s \in Issue : IssueKept(rows[s]),
           CreateDrafts(rows, o, I, qty, loc)
    PROVE  /\ issue' = [s \in Issue |-> issue'[s]]
           /\ \A s \in Issue : IssueKept(issue'[s])
           /\ \A s \in Issue : issue[s].status # "ABSENT" => issue'[s] = rows[s]
<1>1. PICK f \in [I -> AbsentIssues] :
        issue' = [s \in Issue |->
                     IF \E i \in I : f[i] = s
                     THEN LET i == CHOOSE j \in I : f[j] = s
                          IN Draft(o, OnlyItem(i, qty[i]), loc)
                     ELSE rows[s]]
  BY DEF CreateDrafts
<1>2. \A s \in Issue : IssueKept(issue'[s])
  <2> SUFFICES ASSUME NEW s \in Issue
               PROVE  IssueKept(issue'[s])
    OBVIOUS
  <2>1. CASE \E i \in I : f[i] = s
    <3>1. PICK i \in I : issue'[s] = Draft(o, OnlyItem(i, qty[i]), loc)
      BY <1>1, <2>1
    <3>2. OnlyItem(i, qty[i]) \in Quantity /\ Within(OnlyItem(i, qty[i]), o)
      BY OneItem
    <3>. QED
      BY <3>1, <3>2, DraftRow
  <2>2. CASE ~ \E i \in I : f[i] = s
    BY <1>1, <2>2
  <2>. QED
    BY <2>1, <2>2
<1>3. \A s \in Issue : issue[s].status # "ABSENT" => issue'[s] = rows[s]
  BY <1>1 DEF AbsentIssues
<1>. QED
  BY <1>1, <1>2, <1>3

(***************************************************************************)
(* Issues.                                                                 *)
(***************************************************************************)

\* What a post leaves to be issued is a quantity.
LEMMA PostCounts ==
    ASSUME SalesInv, NEW p \in Process, PostIssue(p)
    PROVE  LET s == proc[p].id
               o == issue[s].order
               now == Plus(issued, proc[p].qty)
           IN /\ s \in Issue /\ o \in Order /\ issue[s].status = "DRAFT"
              /\ proc[p].qty \in Quantity /\ Within(proc[p].qty, o)
              /\ now \in [Item -> Nat] /\ Fits(now, Ordered)
              /\ \A i \in Item : Minus(Ordered, now)[i] \in Nat
<1> DEFINE s == proc[p].id
           o == issue[s].order
           now == Plus(issued, proc[p].qty)
<1>1. /\ s \in Issue /\ issue[s].status = "DRAFT" /\ o \in Order
      /\ proc[p].qty \in Quantity /\ Within(proc[p].qty, o)
  BY DEF SalesInv, Rows, Requests, RequestKept, PostIssue, IssueKept, StillDraft
<1>2. now \in [Item -> Nat]
  BY <1>1 DEF SalesInv, Counted, Plus, Quantity
<1>3. Fits(now, Ordered)
  BY DEF PostIssue, Overissues
<1>4. \A i \in Item : Minus(Ordered, now)[i] \in Nat
  BY <1>2, <1>3, SalesAssumption DEF Minus, Fits
<1>. QED
  BY <1>1, <1>2, <1>3, <1>4

\* A post completes its draft and makes others for what remains.
LEMMA PostGoesOn ==
    ASSUME SalesInv, NEW p \in Process, PostIssue(p)
    PROVE  IssuesGoOn /\ issue'[proc[p].id].status = "POSTED"
<1> DEFINE s == proc[p].id
           o == issue[s].order
           now == Plus(issued, proc[p].qty)
           rows == [issue EXCEPT ![s].status = "POSTED"]
           I == FollowUps(o, proc[p].qty, now)
<1>1. /\ s \in Issue /\ o \in Order /\ issue[s].status = "DRAFT"
      /\ \A i \in Item : Minus(Ordered, now)[i] \in Nat
  BY PostCounts
<1>2. CreateDrafts(rows, o, I, Minus(Ordered, now), TRUE)
  BY DEF PostIssue
<1>3. I \in SUBSET ItemsOf(o) /\ \A i \in I : Minus(Ordered, now)[i] \in Nat
  BY <1>1 DEF FollowUps, ItemsOf
<1>4. \A x \in Issue : /\ IssueKept(rows[x]) /\ rows[x].order = issue[x].order
                       /\ x # s => rows[x] = issue[x]
                       /\ x = s => rows[x].status = "POSTED"
  BY <1>1 DEF SalesInv, Rows, IssueKept
<1> HIDE DEF s, o, now, rows, I
<1>5. /\ issue' = [x \in Issue |-> issue'[x]]
      /\ \A x \in Issue : IssueKept(issue'[x])
      /\ \A x \in Issue : issue[x].status # "ABSENT" => issue'[x] = rows[x]
  BY <1>1, <1>2, <1>3, <1>4, DraftsMade
<1>6. issue'[s].status = "POSTED"
  BY <1>1, <1>4, <1>5
<1>. QED
  BY <1>1, <1>4, <1>5, <1>6 DEF IssuesGoOn, Continues, StatusStays, s

\* Steps that leave the issues alone.
LEMMA IssuesUnchanged ==
    ASSUME SalesInv, UNCHANGED issue
    PROVE  IssuesGoOn
BY DEF SalesInv, Rows, IssuesGoOn, Continues, StatusStays

\* The steps that write issues.
LEMMA IssueActions ==
    ASSUME [Next]_vars
    PROVE  \/ \E o \in Order : CreateOrder(o)
           \/ \E p \in Process : CancelOrder(p) \/ CreateIssue(p) \/ UpdateIssue(p) \/ PostIssue(p)
           \/ UNCHANGED issue
<1>1. ASSUME NEW p \in Process, OrderStep(p)
      PROVE  UNCHANGED issue \/ CancelOrder(p)
  BY <1>1 DEF OrderStep, LoadConfirm, LoadCancel, ConfirmOrder, documents
<1>2. ASSUME NEW p \in Process, IssueStep(p)
      PROVE  UNCHANGED issue \/ CreateIssue(p) \/ UpdateIssue(p) \/ PostIssue(p)
  BY <1>2 DEF IssueStep, LoadCreateIssue, LoadUpdateIssue, LoadPostIssue, PostIssueRefused,
              documents
<1>3. ASSUME NEW p \in Process, ReturnStep(p)
      PROVE  UNCHANGED issue
  BY <1>3 DEF ReturnStep, LoadCreateReturn, LoadPostReturn, CreateReturn, PostReturn,
              PostReturnRefused, documents
<1>4. ASSUME NEW s \in Issue, NEW amount, PostReceipt(s, amount)
      PROVE  UNCHANGED issue
  BY <1>4 DEF PostReceipt, documents
<1>. QED
  BY <1>1, <1>2, <1>3, <1>4 DEF Next, vars

\* Every step keeps the rows of the issues, the order of each and what is settled.
LEMMA IssuesStep == SalesInv /\ [Next]_vars => IssuesGoOn
<1> SUFFICES ASSUME SalesInv, [Next]_vars
             PROVE  IssuesGoOn
  OBVIOUS
<1>1. ASSUME NEW o \in Order, CreateOrder(o)
      PROVE  IssuesGoOn
  <2>1. ItemsOf(o) \in SUBSET ItemsOf(o) /\ \A i \in ItemsOf(o) : Ordered[i] \in Nat
    BY SalesAssumption DEF ItemsOf
  <2>2. CreateDrafts(issue, o, ItemsOf(o), Ordered, o \in Located)
    BY <1>1 DEF CreateOrder
  <2>3. \A s \in Issue : IssueKept(issue[s])
    BY DEF SalesInv, Rows
  <2>4. /\ issue' = [s \in Issue |-> issue'[s]]
        /\ \A s \in Issue : IssueKept(issue'[s])
        /\ \A s \in Issue : issue[s].status # "ABSENT" => issue'[s] = issue[s]
    BY <2>1, <2>2, <2>3, DraftsMade
  <2>. QED
    BY <2>4 DEF IssuesGoOn, Continues, StatusStays
<1>2. ASSUME NEW p \in Process, CancelOrder(p)
      PROVE  IssuesGoOn
  BY <1>2 DEF CancelOrder, IssuesGoOn, Continues, StatusStays, SalesInv, Rows, IssueKept
<1>3. ASSUME NEW p \in Process, CreateIssue(p)
      PROVE  IssuesGoOn
  <2>1. IssueKept(Draft(proc[p].id, proc[p].qty, TRUE))
    BY <1>3, DraftRow DEF CreateIssue, SalesInv, Requests, RequestKept
  <2>. DEFINE draft == Draft(proc[p].id, proc[p].qty, TRUE)
  <2>2. PICK s \in AbsentIssues : issue' = [issue EXCEPT ![s] = draft]
    BY <1>3 DEF CreateIssue
  <2>. HIDE DEF draft
  <2>. QED
    BY <2>1, <2>2 DEF AbsentIssues, IssuesGoOn, Continues, StatusStays, SalesInv, Rows, draft
<1>4. ASSUME NEW p \in Process, UpdateIssue(p)
      PROVE  IssuesGoOn
  <2>. DEFINE s == proc[p].id
              amount == Amount(proc[p].qty)
  <2>1. /\ s \in Issue /\ issue[s].status # "ABSENT"
        /\ proc[p].qty \in Quantity /\ Within(proc[p].qty, issue[s].order)
    BY <1>4 DEF UpdateIssue, SalesInv, Requests, RequestKept
  <2>2. issue' = [issue EXCEPT ![s].qty = proc[p].qty, ![s].revenue = amount,
                               ![s].located = TRUE]
    BY <1>4 DEF UpdateIssue
  <2>. HIDE DEF s, amount
  <2>3. issue' = [x \in Issue |-> issue'[x]] /\ \A x \in Issue : x # s => issue'[x] = issue[x]
    BY <2>1, <2>2 DEF SalesInv, Rows
  <2>4. issue'[s] = [status |-> issue[s].status, order |-> issue[s].order,
                     items |-> issue[s].items, qty |-> proc[p].qty,
                     revenue |-> amount, located |-> TRUE]
    <3>1. issue[s] = [status |-> issue[s].status, order |-> issue[s].order,
                      items |-> issue[s].items, qty |-> issue[s].qty,
                      revenue |-> issue[s].revenue, located |-> issue[s].located]
      BY <2>1 DEF SalesInv, Rows, IssueKept
    <3>2. issue'[s] = [[[issue[s] EXCEPT !.qty = proc[p].qty] EXCEPT !.revenue = amount]
                         EXCEPT !.located = TRUE]
      <4>1. s \in DOMAIN issue
        BY <2>1 DEF SalesInv, Rows
      <4>. QED
        BY <2>2, <4>1
    <3>. QED
      BY <3>1, <3>2
  <2>5. IssueKept(issue'[s])
    BY <2>1, <2>4 DEF SalesInv, Rows, IssueKept
  <2>6. issue'[s].status = issue[s].status /\ issue'[s].order = issue[s].order
    BY <2>4
  <2>7. \A x \in Issue : IssueKept(issue'[x])
    BY <2>3, <2>5 DEF SalesInv, Rows
  <2>. QED
    BY <2>1, <2>3, <2>6, <2>7 DEF IssuesGoOn, Continues, StatusStays
<1>5. ASSUME NEW p \in Process, PostIssue(p)
      PROVE  IssuesGoOn
  BY <1>5, PostGoesOn
<1>6. CASE UNCHANGED issue
  BY <1>6, IssuesUnchanged
<1>. QED
  BY <1>1, <1>2, <1>3, <1>4, <1>5, <1>6, IssueActions

(***************************************************************************)
(* Returns.                                                                *)
(***************************************************************************)

\* What may become of a return.
ReturnsGoOn ==
    /\ ret' = [t \in Return |-> ret'[t]]
    /\ \A t \in Return : ReturnKept(ret'[t])
    /\ \A t \in Return : ret[t].status = "POSTED" => ret'[t] = ret[t]

\* The steps that write returns.
LEMMA ReturnActions ==
    ASSUME [Next]_vars
    PROVE  (\E p \in Process : CreateReturn(p) \/ PostReturn(p)) \/ UNCHANGED ret
<1>1. ASSUME NEW p \in Process, OrderStep(p)
      PROVE  UNCHANGED ret
  BY <1>1 DEF OrderStep, LoadConfirm, LoadCancel, ConfirmOrder, CancelOrder, documents
<1>2. ASSUME NEW p \in Process, IssueStep(p)
      PROVE  UNCHANGED ret
  BY <1>2 DEF IssueStep, LoadCreateIssue, LoadUpdateIssue, LoadPostIssue, PostIssueRefused,
              CreateIssue, UpdateIssue, PostIssue, documents
<1>3. ASSUME NEW p \in Process, ReturnStep(p)
      PROVE  UNCHANGED ret \/ CreateReturn(p) \/ PostReturn(p)
  BY <1>3 DEF ReturnStep, LoadCreateReturn, LoadPostReturn, PostReturnRefused, documents
<1>4. UNCHANGED vars => UNCHANGED ret
  BY DEF vars
<1>5. ASSUME NEW o \in Order, CreateOrder(o)
      PROVE  UNCHANGED ret
  BY <1>5 DEF CreateOrder
<1>6. ASSUME NEW s \in Issue, NEW amount, PostReceipt(s, amount)
      PROVE  UNCHANGED ret
  BY <1>6 DEF PostReceipt, documents
<1>. QED
  BY <1>1, <1>2, <1>3, <1>4, <1>5, <1>6 DEF Next

\* A return is created under an unused identity, and posted once.
LEMMA ReturnsStep == SalesInv /\ [Next]_vars => ReturnsGoOn
<1> SUFFICES ASSUME SalesInv, [Next]_vars
             PROVE  ReturnsGoOn
  OBVIOUS
<1> USE DEF SalesInv, Rows, ReturnKept, ReturnsGoOn
<1>1. ASSUME NEW p \in Process, CreateReturn(p)
      PROVE  ReturnsGoOn
  BY <1>1 DEF CreateReturn
<1>2. ASSUME NEW p \in Process, PostReturn(p)
      PROVE  ReturnsGoOn
  BY <1>2 DEF PostReturn, StillDraft
<1>3. CASE UNCHANGED ret
  BY <1>3
<1>. QED
  BY <1>1, <1>2, <1>3, ReturnActions

(***************************************************************************)
(* Requests.                                                               *)
(***************************************************************************)

\* What a client may ask for is a quantity of items of the order.
LEMMA AskedFor ==
    ASSUME NEW o \in Order, NEW qty \in SomeOf(o)
    PROVE  qty \in Quantity /\ Within(qty, o)
<1> DEFINE most == Max({Ordered[i] : i \in Item})
<1>1. qty \in [Item -> 0..most] /\ \A i \in Item : OrderOf[i] # o => qty[i] = 0
  BY DEF SomeOf
<1> HIDE DEF most
<1>2. \A n \in 0..most : n \in Nat
  OBVIOUS
<1>. QED
  BY <1>1, <1>2 DEF Quantity, Within

\* A request that goes on as it was still writes what it may: issues go on too.
LEMMA RequestStays ==
    ASSUME SalesInv, IssuesGoOn, NEW p \in Process
    PROVE  /\ RequestKept(proc[p])
           /\ proc[p].op \in {"updateIssue", "postIssue"} =>
                 /\ proc[p].id \in Issue
                 /\ issue'[proc[p].id].status # "ABSENT"
                 /\ Within(proc[p].qty, issue'[proc[p].id].order)
BY DEF SalesInv, Requests, RequestKept, IssuesGoOn, Continues

\* A request reads its quantity with the row, or is given one of items of the order.
LEMMA RequestsStep == SalesInv /\ [Next]_vars => Requests'
<1> SUFFICES ASSUME SalesInv, [Next]_vars
             PROVE  Requests'
  OBVIOUS
<1>0. IssuesGoOn
  BY IssuesStep
<1> DEFINE Kept(row) ==
              /\ row.op = "createIssue" =>
                    row.id \in Order /\ row.qty \in Quantity /\ Within(row.qty, row.id)
              /\ row.op \in {"updateIssue", "postIssue"} =>
                    /\ row.id \in Issue /\ issue'[row.id].status # "ABSENT"
                    /\ row.qty \in Quantity /\ Within(row.qty, issue'[row.id].order)
<1>1. \A p \in Process : Kept(proc[p])
  BY <1>0, RequestStays DEF RequestKept
<1>2. \A row : row.op \notin {"createIssue", "updateIssue", "postIssue"} => Kept(row)
  OBVIOUS
<1>3. \A p \in Process : \A row :
         Kept(row) /\ proc' = [proc EXCEPT ![p] = row] => Requests'
  BY <1>1 DEF Requests, RequestKept, SalesInv
<1>4. UNCHANGED proc => Requests'
  BY <1>1 DEF Requests, RequestKept, SalesInv
<1>5. Kept(IdleProc)
  BY DEF IdleProc
<1>6. \A p \in Process : Ends(p) => Requests'
  BY <1>3, <1>5 DEF Ends
<1> HIDE DEF Kept
<1>7. \A p \in Process : \A op, id, qty :
         /\ op \notin {"createIssue", "updateIssue", "postIssue"}
         /\ Loads(p, op, id, qty)
         => Requests'
  BY <1>2, <1>3 DEF Loads, IdleProc
<1>8. ASSUME NEW p \in Process, NEW o \in Order, NEW qty \in SomeOf(o), LoadCreateIssue(p, o, qty)
      PROVE  Requests'
  <2>. DEFINE row == [IdleProc EXCEPT !.op = "createIssue", !.id = o, !.qty = qty]
  <2>1. Kept(row)
    BY AskedFor DEF Kept, IdleProc
  <2>. QED
    BY <1>3, <1>8, <2>1 DEF LoadCreateIssue, Loads
<1>9. ASSUME NEW p \in Process, NEW s \in Issue, NEW i \in Item, NEW n \in 0..Ordered[i],
             LoadUpdateIssue(p, s, i, n)
      PROVE  Requests'
  <2>. DEFINE row == [IdleProc EXCEPT !.op = "updateIssue", !.id = s, !.qty = OnlyItem(i, n)]
  <2>1. issue[s].status # "ABSENT" /\ i \in ItemsOf(issue[s].order)
    BY <1>9 DEF LoadUpdateIssue, SalesInv, Rows, IssueKept
  <2>2. OnlyItem(i, n) \in Quantity /\ Within(OnlyItem(i, n), issue[s].order)
    BY <2>1, OneItem, SalesAssumption
  <2>3. issue'[s].status # "ABSENT" /\ issue'[s].order = issue[s].order
    BY <1>0, <2>1 DEF IssuesGoOn, Continues
  <2>4. Kept(row)
    BY <2>2, <2>3 DEF Kept, IdleProc
  <2>. QED
    BY <1>3, <1>9, <2>4 DEF LoadUpdateIssue, Loads
<1>10. ASSUME NEW p \in Process, NEW s \in Issue, NEW k \in Key, LoadPostIssue(p, s, k)
       PROVE  Requests'
  <2>. DEFINE row == [IdleProc EXCEPT !.op = "postIssue", !.id = s, !.key = k,
                                      !.qty = issue[s].qty, !.revenue = issue[s].revenue]
  <2>1. /\ issue[s].status # "ABSENT"
        /\ issue[s].qty \in Quantity /\ Within(issue[s].qty, issue[s].order)
    BY <1>10 DEF LoadPostIssue, PostAdmitted, SalesInv, Rows, IssueKept
  <2>2. issue'[s].status # "ABSENT" /\ issue'[s].order = issue[s].order
    BY <1>0, <2>1 DEF IssuesGoOn, Continues
  <2>3. Kept(row)
    BY <2>1, <2>2 DEF Kept, IdleProc
  <2>. QED
    BY <1>3, <1>10, <2>3 DEF LoadPostIssue
<1>11. ASSUME NEW p \in Process, NEW t \in Return, NEW k \in Key, LoadPostReturn(p, t, k)
       PROVE  Requests'
  <2>. DEFINE row == [IdleProc EXCEPT !.op = "postReturn", !.id = t, !.key = k, !.qty = ret[t].qty,
                                      !.due = receivable[ret[t].issue].outstanding]
  <2>1. Kept(row)
    BY <1>2 DEF IdleProc
  <2>. QED
    BY <1>3, <1>11, <2>1 DEF LoadPostReturn
<1>12. ASSUME NEW p \in Process, OrderStep(p)
       PROVE  Requests'
  BY <1>6, <1>7, <1>12 DEF OrderStep, LoadConfirm, LoadCancel, ConfirmOrder, CancelOrder
<1>13. ASSUME NEW p \in Process, IssueStep(p)
       PROVE  Requests'
  BY <1>6, <1>8, <1>9, <1>10, <1>13 DEF IssueStep, CreateIssue, UpdateIssue, PostIssue,
                                        PostIssueRefused
<1>14. ASSUME NEW p \in Process, ReturnStep(p)
       PROVE  Requests'
  BY <1>6, <1>7, <1>11, <1>14 DEF ReturnStep, LoadCreateReturn, CreateReturn, PostReturn,
                                  PostReturnRefused
<1>15. ASSUME NEW o \in Order, CreateOrder(o)
       PROVE  Requests'
  BY <1>4, <1>15 DEF CreateOrder
<1>16. ASSUME NEW s \in Issue, NEW amount, PostReceipt(s, amount)
       PROVE  Requests'
  BY <1>4, <1>16 DEF PostReceipt
<1>17. UNCHANGED vars => UNCHANGED proc
  BY DEF vars
<1>. QED
  BY <1>4, <1>12, <1>13, <1>14, <1>15, <1>16, <1>17 DEF Next

(***************************************************************************)
(* What is issued and what is left of the quotas.                          *)
(***************************************************************************)

\* The steps that write what was posted.
LEMMA PostingActions ==
    ASSUME [Next]_vars
    PROVE  \/ \E p \in Process : PostIssue(p) \/ PostReturn(p)
           \/ \E s \in Issue : \E amount \in 1..receivable[s].outstanding : PostReceipt(s, amount)
           \/ UNCHANGED posted
<1>1. ASSUME NEW p \in Process, OrderStep(p)
      PROVE  UNCHANGED posted
  BY <1>1 DEF OrderStep, LoadConfirm, LoadCancel, ConfirmOrder, CancelOrder
<1>2. ASSUME NEW p \in Process, IssueStep(p)
      PROVE  UNCHANGED posted \/ PostIssue(p)
  BY <1>2 DEF IssueStep, LoadCreateIssue, LoadUpdateIssue, LoadPostIssue, PostIssueRefused,
              CreateIssue, UpdateIssue
<1>3. ASSUME NEW p \in Process, ReturnStep(p)
      PROVE  UNCHANGED posted \/ PostReturn(p)
  BY <1>3 DEF ReturnStep, LoadCreateReturn, LoadPostReturn, CreateReturn, PostReturnRefused
<1>4. ASSUME NEW o \in Order, CreateOrder(o)
      PROVE  UNCHANGED posted
  BY <1>4 DEF CreateOrder
<1>5. UNCHANGED vars => UNCHANGED posted
  BY DEF vars, posted
<1>. QED
  BY <1>1, <1>2, <1>3, <1>4, <1>5 DEF Next

\* Only a post changes what is issued, together with the quota that it compares.
LEMMA CountedStep == SalesInv /\ [Next]_vars => Counted'
<1> SUFFICES ASSUME SalesInv, [Next]_vars
             PROVE  Counted'
  OBVIOUS
<1>1. UNCHANGED <<issued, quota>> => Counted'
  BY DEF SalesInv, Counted, Fits
<1>2. ASSUME NEW p \in Process, PostIssue(p)
      PROVE  Counted'
  <2>. DEFINE o == issue[proc[p].id].order
              qty == proc[p].qty
              now == Plus(issued, qty)
  <2>1. /\ o \in Order /\ qty \in Quantity /\ Within(qty, o)
        /\ now \in [Item -> Nat] /\ Fits(now, Ordered)
    BY <1>2, PostCounts
  <2>2. /\ issued' = now
        /\ quota' = IF o \in Virtual THEN Minus(quota, qty) ELSE quota
        /\ o \in Virtual => Fits(qty, quota)
    BY <1>2 DEF PostIssue, QuotaAllows
  <2>. HIDE DEF o, qty
  <2>3. quota' \in [Item -> Int]
    BY <2>1, <2>2 DEF SalesInv, Counted, Minus, Quantity
  <2>4. ASSUME NEW i \in Item, OrderOf[i] \in Virtual
        PROVE  quota'[i] = Quota[i] - issued'[i] /\ quota'[i] >= 0
    <3>1. /\ issued[i] \in Nat /\ quota[i] \in Int /\ qty[i] \in Nat /\ Quota[i] \in Nat
          /\ quota[i] = Quota[i] - issued[i] /\ quota[i] >= 0
      BY <2>1, <2>4, SalesAssumption DEF SalesInv, Counted, Quantity
    <3>2. issued'[i] = issued[i] + qty[i]
      BY <2>2 DEF Plus
    <3>3. CASE o \in Virtual
      <4>1. quota'[i] = quota[i] - qty[i] /\ qty[i] <= quota[i]
        BY <2>2, <3>3 DEF Minus, Fits
      <4>. QED
        BY <3>1, <3>2, <4>1
    <3>4. CASE o \notin Virtual
      <4>1. quota'[i] = quota[i] /\ qty[i] = 0
        BY <2>1, <2>2, <2>4, <3>4 DEF Within
      <4>. QED
        BY <3>1, <3>2, <4>1
    <3>. QED
      BY <3>3, <3>4
  <2>. QED
    BY <2>1, <2>2, <2>3, <2>4 DEF Counted
<1>3. UNCHANGED posted => UNCHANGED <<issued, quota>>
  BY DEF posted
<1>4. ASSUME NEW p \in Process, PostReturn(p)
      PROVE  UNCHANGED <<issued, quota>>
  BY <1>4 DEF PostReturn
<1>5. ASSUME NEW s \in Issue, NEW amount, PostReceipt(s, amount)
      PROVE  UNCHANGED <<issued, quota>>
  BY <1>5 DEF PostReceipt
<1>. QED
  BY <1>1, <1>2, <1>3, <1>4, <1>5, PostingActions

(***************************************************************************)
(* The specification.                                                      *)
(***************************************************************************)

\* At the start there are no documents, and quotas are whole.
LEMMA SalesInit == Init => SalesInv
<1> SUFFICES ASSUME Init
             PROVE  SalesInv
  OBVIOUS
<1>1. Zero \in Quantity
  BY DEF Zero, Quantity
<1>2. Rows
  BY <1>1 DEF Init, Rows, IssueKept, ReturnKept, NoIssue, NoReturn
<1>3. Requests
  BY DEF Init, Requests, RequestKept, IdleProc
<1>4. Counted
  BY SalesAssumption DEF Init, Counted, Zero, Fits
<1>. QED
  BY <1>2, <1>3, <1>4 DEF SalesInv

LEMMA SalesStep == SalesInv /\ [Next]_vars => SalesInv'
<1> SUFFICES ASSUME SalesInv, [Next]_vars
             PROVE  SalesInv'
  OBVIOUS
<1>1. Rows'
  BY IssuesStep, ReturnsStep DEF Rows, IssuesGoOn, ReturnsGoOn, IssueKept, ReturnKept
<1>. QED
  BY <1>1, RequestsStep, CountedStep DEF SalesInv

\* The invariant of sales.
THEOREM SalesInvariant == Spec => []SalesInv
BY SalesInit, SalesStep, PTL DEF Spec

\* What is left of the quota of a channel is what was allocated less what its
\* orders were issued, and never below 0: no step of any other document reaches
\* it (assertVirtualAllocation, consumeVirtualAllocation).
THEOREM QuotasCover == Spec => []QuotaCovers
<1>1. ASSUME SalesInv
      PROVE  QuotaCovers
  BY <1>1 DEF SalesInv, Counted, QuotaCovers, ItemsOf
<1>. QED
  BY <1>1, SalesInvariant, PTL

\* A posted or cancelled document stays so, whatever a request had read of it
\* before (postIssue, cancelOrder, postReturn).
THEOREM SettledStay == Spec => SettledDocumentsStay
<1>1. ASSUME SalesInv, [Next]_vars
      PROVE  /\ \A s \in Issue : issue[s].status \in {"POSTED", "CANCELLED"} =>
                                    issue'[s].status = issue[s].status
             /\ \A t \in Return : ret[t].status = "POSTED" => ret'[t] = ret[t]
  BY <1>1, IssuesStep, ReturnsStep DEF IssuesGoOn, StatusStays, ReturnsGoOn
<1>. QED
  BY <1>1, SalesInvariant, PTL DEF Spec, SettledDocumentsStay

(***************************************************************************)
(* Amounts, and what documents moved.                                      *)
(***************************************************************************)

\* What an order pays for a quantity, and for two quantities.
LEMMA Amounts ==
    /\ Zero \in Quantity /\ Amount(Zero) = 0
    /\ \A q \in Quantity : Amount(q) \in Nat
    /\ \A q, r \in Quantity :
          Plus(q, r) \in Quantity /\ Amount(Plus(q, r)) = Amount(q) + Amount(r)
<1>1. Zero \in Quantity /\ \A i \in Item : Zero[i] = 0
  BY DEF Zero, Quantity
<1>2. Amount(Zero) = 0
  BY <1>1, PriceAssumption, WorthZero DEF Amount, Quantity
<1>3. ASSUME NEW q \in Quantity
      PROVE  Amount(q) \in Nat
  BY PriceAssumption, WorthNat DEF Amount, Quantity
<1>4. ASSUME NEW q \in Quantity, NEW r \in Quantity
      PROVE  Plus(q, r) \in Quantity /\ Amount(Plus(q, r)) = Amount(q) + Amount(r)
  <2>1. Plus(q, r) \in Quantity
    BY DEF Plus, Quantity
  <2>2. [i \in Item |-> Price[i] * Plus(q, r)[i]] = [i \in Item |-> Price[i] * (q[i] + r[i])]
    BY DEF Plus
  <2>3. Total([i \in Item |-> Price[i] * (q[i] + r[i])]) = Amount(q) + Amount(r)
    BY PriceAssumption, WorthPlus DEF Amount, Quantity
  <2>. QED
    BY <2>1, <2>2, <2>3 DEF Amount
<1>. QED
  BY <1>1, <1>2, <1>3, <1>4

\* What the documents of D moved, by the ledger L.
MovedBy(L, D) == Columns(Item, D, L)

\* What the returns of T leave to be refunded.
OwedFor(R, T) == Total([t \in T |-> R[t]])

LEMMA DocsFinite == IsFiniteSet(Doc)
BY SalesAssumption, FS_Union DEF Doc

LEMMA MovedQuantity ==
    ASSUME NEW L \in [Doc -> Quantity], NEW D \in SUBSET Doc
    PROVE  MovedBy(L, D) \in Quantity
<1>1. Quantity = Counts(Item)
  BY DEF Quantity, Counts
<1>. QED
  BY <1>1, DocsFinite, ColumnsNat DEF MovedBy

\* A document that had moved nothing moves something, or enters or leaves the group.
LEMMA MovedMore ==
    ASSUME NEW L \in [Doc -> Quantity], NEW d \in Doc, L[d] = Zero,
           NEW M \in [Doc -> Quantity], M = [L EXCEPT ![d] = M[d]],
           NEW D \in SUBSET Doc, NEW E \in SUBSET Doc, E \ {d} = D \ {d}
    PROVE  /\ d \in E => MovedBy(M, E) = Plus(MovedBy(L, D), M[d])
           /\ d \notin E => MovedBy(M, E) = MovedBy(L, D)
<1>1. Quantity = Counts(Item) /\ Zero = [i \in Item |-> 0]
  BY DEF Quantity, Counts, Zero
<1>2. /\ d \in E => Columns(Item, E, M) = [i \in Item |-> Columns(Item, D, L)[i] + M[d][i]]
      /\ d \notin E => Columns(Item, E, M) = Columns(Item, D, L)
  BY <1>1, DocsFinite, ColumnsMore
<1>. QED
  BY <1>2 DEF MovedBy, Plus

\* A return that had nothing to refund is given something, or enters or leaves the group.
LEMMA OwedMore ==
    ASSUME NEW R \in [Return -> Nat], NEW t \in Return, R[t] = 0,
           NEW Q \in [Return -> Nat], Q = [R EXCEPT ![t] = Q[t]],
           NEW T \in SUBSET Return, NEW U \in SUBSET Return, U \ {t} = T \ {t}
    PROVE  /\ OwedFor(R, T) \in Int
           /\ t \in U => OwedFor(Q, U) = OwedFor(R, T) + Q[t]
           /\ t \notin U => OwedFor(Q, U) = OwedFor(R, T)
<1>1. OwedFor(R, T) = Total(Restrict(R, T)) /\ OwedFor(Q, U) = Total(Restrict(Q, U))
  BY DEF OwedFor, Restrict
<1>2. /\ Total(Restrict(R, T)) \in Int
      /\ Total(Restrict(Q, U)) = Total(Restrict(R, T)) + (IF t \in U THEN Q[t] ELSE 0)
                                                       - (IF t \in T THEN R[t] ELSE 0)
  BY SalesAssumption, TotalOfGroup
<1>. QED
  BY <1>1, <1>2

(***************************************************************************)
(* Documents and requests.                                                 *)
(***************************************************************************)

\* What the documents are, whatever order they were made in: an issue is worth
\* what it lists, and a return is of a posted issue.
Documents ==
    /\ orderStatus \in [Order -> {"ABSENT", "DRAFT", "CONFIRMED",
                                  "PARTIALLY_ISSUED", "ISSUED", "CANCELLED"}]
    /\ issue \in [Issue -> IssueRow]
    /\ \A s \in Issue : issue[s].revenue = Amount(issue[s].qty)
    /\ ret \in [Return -> ReturnRow]
    /\ \A t \in Return : ret[t].status # "ABSENT" =>
          ret[t].issue \in Issue /\ issue[ret[t].issue].status = "POSTED"

\* What a request holds of the document it names.
HandlerKept(row) ==
    /\ row \in ProcRow
    /\ row.op \in {"confirmOrder", "cancelOrder"} => row.id \in Order
    /\ row.op = "postIssue" => row.revenue = Amount(row.qty)
    /\ row.op \in {"postIssue", "postReturn"} => row.key \in Key
    /\ row.op = "createReturn" =>
          row.id \in Issue /\ issue[row.id].status = "POSTED"
    /\ row.op = "postReturn" =>
          row.id \in Return /\ ret[row.id].status # "ABSENT"

Handlers == proc \in [Process -> ProcRow] /\ \A p \in Process : HandlerKept(proc[p])

\* Only posted documents have moved stock or money.
Books ==
    /\ stock \in Quantity
    /\ returned \in [Issue -> Quantity]
    /\ ledger \in [Doc -> Quantity]
    /\ receivable \in [Issue -> ReceivableRow]
    /\ refund \in [Return -> Nat]
    /\ idem \in [Doc -> [Key -> Quantity \cup {None}]]
    /\ \A s \in Issue : issue[s].status # "POSTED" =>
          ledger[s] = Zero /\ receivable[s] = NoReceivable
    /\ \A t \in Return : ret[t].status # "POSTED" => ledger[t] = Zero /\ refund[t] = 0

Charged ==
    /\ issued = Moved(Issue)
    /\ ReceivablePerIssue
    /\ ReturnsSettled

SalesBooks == Documents /\ Handlers /\ Books /\ Charged

\* The row of an issue, worth what it lists.
Priced(row) == row \in IssueRow /\ row.revenue = Amount(row.qty)

LEMMA DraftPriced ==
    ASSUME NEW o \in Order, NEW qty \in Quantity, NEW loc \in BOOLEAN
    PROVE  Priced(Draft(o, qty, loc))
<1>. DEFINE amount == Amount(qty)
<1>1. amount \in Nat
  BY Amounts
<1>2. Draft(o, qty, loc) = [status |-> "DRAFT", order |-> o, items |-> {i \in Item : qty[i] > 0},
                            qty |-> qty, revenue |-> amount, located |-> loc]
  BY DEF Draft
<1>. HIDE DEF amount
<1>3. Draft(o, qty, loc) \in IssueRow /\ Draft(o, qty, loc).revenue = amount
      /\ Draft(o, qty, loc).qty = qty
  BY <1>1, <1>2 DEF IssueRow, Status
<1>. QED
  BY <1>3 DEF Priced, amount

LEMMA DraftsPriced ==
    ASSUME NEW rows, NEW o \in Order, NEW I \in SUBSET ItemsOf(o), NEW qty, NEW loc \in BOOLEAN,
           \A i \in I : qty[i] \in Nat,
           \A s \in Issue : Priced(rows[s]),
           CreateDrafts(rows, o, I, qty, loc)
    PROVE  \A s \in Issue : Priced(issue'[s])
<1>1. PICK f \in [I -> AbsentIssues] :
        issue' = [s \in Issue |->
                     IF \E i \in I : f[i] = s
                     THEN LET i == CHOOSE j \in I : f[j] = s
                          IN Draft(o, OnlyItem(i, qty[i]), loc)
                     ELSE rows[s]]
  BY DEF CreateDrafts
<1>. SUFFICES ASSUME NEW s \in Issue
              PROVE  Priced(issue'[s])
  OBVIOUS
<1>2. CASE \E i \in I : f[i] = s
  <2>1. PICK i \in I : issue'[s] = Draft(o, OnlyItem(i, qty[i]), loc)
    BY <1>1, <1>2
  <2>2. OnlyItem(i, qty[i]) \in Quantity
    BY OneItem
  <2>. QED
    BY <2>1, <2>2, DraftPriced
<1>3. CASE ~ \E i \in I : f[i] = s
  BY <1>1, <1>3
<1>. QED
  BY <1>2, <1>3

\* Every step leaves issues worth what they list.
LEMMA PricedStep ==
    ASSUME SalesInv, Documents, Handlers, [Next]_vars
    PROVE  \A s \in Issue : Priced(issue'[s])
<1>0. \A s \in Issue : Priced(issue[s])
  BY DEF Documents, Priced
<1>1. ASSUME NEW o \in Order, CreateOrder(o)
      PROVE  \A s \in Issue : Priced(issue'[s])
  <2>1. ItemsOf(o) \in SUBSET ItemsOf(o) /\ \A i \in ItemsOf(o) : Ordered[i] \in Nat
    BY SalesAssumption DEF ItemsOf
  <2>2. CreateDrafts(issue, o, ItemsOf(o), Ordered, o \in Located)
    BY <1>1 DEF CreateOrder
  <2>. DEFINE loc == o \in Located
  <2>3. loc \in BOOLEAN
    OBVIOUS
  <2>. HIDE DEF loc
  <2>4. CreateDrafts(issue, o, ItemsOf(o), Ordered, loc)
    BY <2>2 DEF loc
  <2>. QED
    BY <1>0, <2>1, <2>3, <2>4, DraftsPriced
<1>2. ASSUME NEW p \in Process, CancelOrder(p)
      PROVE  \A s \in Issue : Priced(issue'[s])
  <2>1. \A row \in IssueRow : /\ [row EXCEPT !.status = "CANCELLED"] \in IssueRow
                              /\ [row EXCEPT !.status = "CANCELLED"].qty = row.qty
                              /\ [row EXCEPT !.status = "CANCELLED"].revenue = row.revenue
    BY DEF IssueRow, Status
  <2>. SUFFICES ASSUME NEW s \in Issue
                PROVE  Priced(issue'[s])
    OBVIOUS
  <2>2. issue'[s] = issue[s] \/ issue'[s] = [issue[s] EXCEPT !.status = "CANCELLED"]
    BY <1>2 DEF CancelOrder
  <2>. QED
    BY <1>0, <2>1, <2>2 DEF Priced
<1>3. ASSUME NEW p \in Process, CreateIssue(p)
      PROVE  \A s \in Issue : Priced(issue'[s])
  <2>. DEFINE draft == Draft(proc[p].id, proc[p].qty, TRUE)
  <2>1. Priced(draft)
    BY <1>3, DraftPriced DEF CreateIssue, SalesInv, Requests, RequestKept
  <2>2. PICK s \in AbsentIssues : issue' = [issue EXCEPT ![s] = draft]
    BY <1>3 DEF CreateIssue
  <2>. HIDE DEF draft
  <2>. QED
    BY <1>0, <2>1, <2>2 DEF Documents
<1>4. ASSUME NEW p \in Process, UpdateIssue(p)
      PROVE  \A s \in Issue : Priced(issue'[s])
  <2>. DEFINE s == proc[p].id
              amount == Amount(proc[p].qty)
  <2>1. s \in Issue /\ proc[p].qty \in Quantity
    BY <1>4 DEF UpdateIssue, SalesInv, Requests, RequestKept
  <2>2. amount \in Nat
    BY <2>1, Amounts
  <2>3. issue' = [issue EXCEPT ![s].qty = proc[p].qty, ![s].revenue = amount,
                               ![s].located = TRUE]
    BY <1>4 DEF UpdateIssue
  <2>. HIDE DEF s, amount
  <2>4. \A x \in Issue : x # s => issue'[x] = issue[x]
    BY <2>1, <2>3 DEF Documents
  <2>5. issue'[s] = [[[issue[s] EXCEPT !.qty = proc[p].qty] EXCEPT !.revenue = amount]
                       EXCEPT !.located = TRUE]
    BY <2>1, <2>3 DEF Documents
  <2>6. /\ issue'[s] \in IssueRow /\ issue'[s].qty = proc[p].qty
        /\ issue'[s].revenue = amount
    <3>1. issue[s] \in IssueRow
      BY <2>1 DEF Documents
    <3>. QED
      BY <2>1, <2>2, <2>5, <3>1 DEF IssueRow
  <2>7. Priced(issue'[s])
    BY <2>6 DEF Priced, amount
  <2>. QED
    BY <1>0, <2>4, <2>7
<1>5. ASSUME NEW p \in Process, PostIssue(p)
      PROVE  \A s \in Issue : Priced(issue'[s])
  <2>. DEFINE s == proc[p].id
              o == issue[s].order
              now == Plus(issued, proc[p].qty)
              rows == [issue EXCEPT ![s].status = "POSTED"]
              I == FollowUps(o, proc[p].qty, now)
  <2>1. /\ s \in Issue /\ o \in Order
        /\ \A i \in Item : Minus(Ordered, now)[i] \in Nat
    BY <1>5, PostCounts
  <2>2. CreateDrafts(rows, o, I, Minus(Ordered, now), TRUE)
    BY <1>5 DEF PostIssue
  <2>3. I \in SUBSET ItemsOf(o) /\ \A i \in I : Minus(Ordered, now)[i] \in Nat
    BY <2>1 DEF FollowUps, ItemsOf
  <2>4. \A x \in Issue : Priced(rows[x])
    <3>1. ASSUME NEW x \in Issue
          PROVE  /\ rows[x] \in IssueRow
                 /\ rows[x].qty = issue[x].qty /\ rows[x].revenue = issue[x].revenue
      BY <2>1 DEF Documents, IssueRow, Status
    <3>. QED
      BY <1>0, <3>1 DEF Priced
  <2>. HIDE DEF s, o, now, rows, I
  <2>. QED
    BY <2>1, <2>2, <2>3, <2>4, DraftsPriced
<1>6. CASE UNCHANGED issue
  BY <1>0, <1>6
<1>. QED
  BY <1>1, <1>2, <1>3, <1>4, <1>5, <1>6, IssueActions

\* An order has a status whatever is done to it.
LEMMA OrdersStep ==
    ASSUME SalesInv, Documents, Handlers, [Next]_vars
    PROVE  orderStatus' \in [Order -> {"ABSENT", "DRAFT", "CONFIRMED", "PARTIALLY_ISSUED",
                                       "ISSUED", "CANCELLED"}]
<1>. DEFINE Statuses == [Order -> {"ABSENT", "DRAFT", "CONFIRMED", "PARTIALLY_ISSUED",
                                   "ISSUED", "CANCELLED"}]
<1>0. orderStatus \in Statuses
  BY DEF Documents
<1>1. ASSUME NEW p \in Process, PostIssue(p)
      PROVE  orderStatus' \in Statuses
  BY <1>0, <1>1 DEF PostIssue, StatusAfter
<1>2. ASSUME NEW p \in Process, OrderStep(p)
      PROVE  orderStatus' \in Statuses
  BY <1>0, <1>2 DEF OrderStep, LoadConfirm, LoadCancel, ConfirmOrder, CancelOrder
<1>3. ASSUME NEW p \in Process, IssueStep(p)
      PROVE  UNCHANGED orderStatus \/ PostIssue(p)
  BY <1>3 DEF IssueStep, LoadCreateIssue, LoadUpdateIssue, LoadPostIssue, PostIssueRefused,
              CreateIssue, UpdateIssue
<1>4. ASSUME NEW p \in Process, ReturnStep(p)
      PROVE  UNCHANGED orderStatus
  BY <1>4 DEF ReturnStep, LoadCreateReturn, LoadPostReturn, CreateReturn, PostReturn,
              PostReturnRefused
<1>5. ASSUME NEW o \in Order, CreateOrder(o)
      PROVE  orderStatus' \in Statuses
  BY <1>0, <1>5 DEF CreateOrder
<1>6. ASSUME NEW s \in Issue, NEW amount, PostReceipt(s, amount)
      PROVE  UNCHANGED orderStatus
  BY <1>6 DEF PostReceipt
<1>7. UNCHANGED vars => UNCHANGED orderStatus
  BY DEF vars
<1>. QED
  BY <1>0, <1>1, <1>2, <1>3, <1>4, <1>5, <1>6, <1>7 DEF Next

\* A return keeps the issue it was created for, and that issue was posted.
ReturnsTraced ==
    /\ ret' \in [Return -> ReturnRow]
    /\ \A t \in Return : ret'[t].status # "ABSENT" =>
          ret'[t].issue \in Issue /\ issue[ret'[t].issue].status = "POSTED"
    /\ \A t \in Return : ret[t].status # "ABSENT" =>
          ret'[t].status # "ABSENT" /\ ret'[t].issue = ret[t].issue

LEMMA ReturnsTracedStep ==
    ASSUME SalesInv, Documents, Handlers, [Next]_vars
    PROVE  ReturnsTraced
<1>1. ASSUME NEW p \in Process, CreateReturn(p)
      PROVE  ReturnsTraced
  <2>1. proc[p] \in ProcRow /\ proc[p].id \in Issue /\ issue[proc[p].id].status = "POSTED"
    BY <1>1 DEF CreateReturn, Handlers, HandlerKept
  <2>. DEFINE row == [status |-> "DRAFT", issue |-> proc[p].id, qty |-> proc[p].qty]
  <2>2. row \in ReturnRow
    BY <2>1 DEF ProcRow, ReturnRow, Status
  <2>3. PICK t \in Return : ret[t].status = "ABSENT" /\ ret' = [ret EXCEPT ![t] = row]
    BY <1>1 DEF CreateReturn
  <2>. QED
    BY <2>1, <2>2, <2>3 DEF ReturnsTraced, Documents
<1>2. ASSUME NEW p \in Process, PostReturn(p)
      PROVE  ReturnsTraced
  <2>. DEFINE t == proc[p].id
  <2>1. t \in Return /\ ret[t].status # "ABSENT" /\ ret' = [ret EXCEPT ![t].status = "POSTED"]
    BY <1>2 DEF PostReturn, Handlers, HandlerKept
  <2>. HIDE DEF t
  <2>2. \A row \in ReturnRow : /\ [row EXCEPT !.status = "POSTED"] \in ReturnRow
                               /\ [row EXCEPT !.status = "POSTED"].issue = row.issue
                               /\ [row EXCEPT !.status = "POSTED"].status = "POSTED"
    BY DEF ReturnRow, Status
  <2>3. ret' = [ret EXCEPT ![t] = [ret[t] EXCEPT !.status = "POSTED"]]
    BY <2>1
  <2>. QED
    BY <2>1, <2>2, <2>3 DEF ReturnsTraced, Documents
<1>3. CASE UNCHANGED ret
  BY <1>3 DEF ReturnsTraced, Documents
<1>. QED
  BY <1>1, <1>2, <1>3, ReturnActions

\* Every step keeps the documents.
LEMMA DocumentsStep ==
    ASSUME SalesInv, Documents, Handlers, [Next]_vars
    PROVE  Documents'
<1>1. /\ issue' \in [Issue -> IssueRow]
      /\ \A s \in Issue : issue'[s].revenue = Amount(issue'[s].qty)
  BY IssuesStep, PricedStep DEF IssuesGoOn, Priced
<1>2. \A t \in Return : ret'[t].status # "ABSENT" =>
         ret'[t].issue \in Issue /\ issue'[ret'[t].issue].status = "POSTED"
  BY IssuesStep, ReturnsTracedStep DEF IssuesGoOn, StatusStays, ReturnsTraced
<1>. QED
  BY <1>1, <1>2, OrdersStep, ReturnsTracedStep DEF Documents, ReturnsTraced

\* A request names the documents it read, and reads their amounts with their quantities.
LEMMA HandlersStep ==
    ASSUME SalesInv, Documents, Handlers, Books, [Next]_vars
    PROVE  Handlers'
<1>. DEFINE Kept(row) ==
              /\ row \in ProcRow
              /\ row.op \in {"confirmOrder", "cancelOrder"} => row.id \in Order
              /\ row.op = "postIssue" => row.revenue = Amount(row.qty)
              /\ row.op \in {"postIssue", "postReturn"} => row.key \in Key
              /\ row.op = "createReturn" =>
                    row.id \in Issue /\ issue'[row.id].status = "POSTED"
              /\ row.op = "postReturn" =>
                    row.id \in Return /\ ret'[row.id].status # "ABSENT"
<1>0. /\ \A s \in Issue : issue[s].status = "POSTED" => issue'[s].status = "POSTED"
      /\ \A t \in Return : ret[t].status # "ABSENT" => ret'[t].status # "ABSENT"
  BY IssuesStep, ReturnsTracedStep DEF IssuesGoOn, StatusStays, ReturnsTraced
<1>1. \A p \in Process : Kept(proc[p])
  BY <1>0 DEF Handlers, HandlerKept
<1>2. \A p \in Process : \A row :
         Kept(row) /\ proc' = [proc EXCEPT ![p] = row] => Handlers'
  BY <1>1 DEF Handlers, HandlerKept
<1>3. UNCHANGED proc => Handlers'
  BY <1>1 DEF Handlers, HandlerKept
<1>4. Kept(IdleProc) /\ IdleProc \in ProcRow
  BY Amounts DEF IdleProc, ProcRow, Op
<1>5. \A p \in Process : Ends(p) => Handlers'
  BY <1>2, <1>4 DEF Ends
<1>. HIDE DEF Kept
<1>6. ASSUME NEW p \in Process, NEW op \in Op, NEW id \in Order \cup Doc, NEW qty \in Quantity,
             Loads(p, op, id, qty),
             op \notin {"postIssue", "postReturn"},
             op \in {"confirmOrder", "cancelOrder"} => id \in Order,
             op = "createReturn" => id \in Issue /\ issue[id].status = "POSTED"
      PROVE  Handlers'
  <2>. DEFINE row == [IdleProc EXCEPT !.op = op, !.id = id, !.qty = qty]
  <2>1. row \in ProcRow /\ row.op = op /\ row.id = id
    BY <1>4 DEF IdleProc, ProcRow
  <2>2. proc' = [proc EXCEPT ![p] = row]
    BY <1>6 DEF Loads
  <2>. HIDE DEF row
  <2>3. Kept(row)
    BY <1>0, <1>6, <2>1 DEF Kept
  <2>. QED
    BY <1>2, <2>2, <2>3
<1>7. ASSUME NEW p \in Process, NEW o \in Order, LoadConfirm(p, o) \/ LoadCancel(p, o)
      PROVE  Handlers'
  BY <1>6, <1>7, Amounts DEF LoadConfirm, LoadCancel, Op
<1>8. ASSUME NEW p \in Process, NEW o \in Order, NEW qty \in SomeOf(o), LoadCreateIssue(p, o, qty)
      PROVE  Handlers'
  <2>1. qty \in Quantity
    BY AskedFor
  <2>. QED
    BY <1>6, <1>8, <2>1 DEF LoadCreateIssue, Op
<1>9. ASSUME NEW p \in Process, NEW s \in Issue, NEW i \in Item, NEW n \in 0..Ordered[i],
             LoadUpdateIssue(p, s, i, n)
      PROVE  Handlers'
  <2>1. n \in Nat
    BY SalesAssumption
  <2>2. OnlyItem(i, n) \in Quantity
    BY <2>1 DEF OnlyItem, Zero, Quantity
  <2>. QED
    BY <1>6, <1>9, <2>2 DEF LoadUpdateIssue, Op, Doc
<1>10. ASSUME NEW p \in Process, NEW s \in Issue, NEW k \in Key, LoadPostIssue(p, s, k)
       PROVE  Handlers'
  <2>. DEFINE row == [IdleProc EXCEPT !.op = "postIssue", !.id = s, !.key = k,
                                      !.qty = issue[s].qty, !.revenue = issue[s].revenue]
  <2>1. issue[s].qty \in Quantity /\ issue[s].revenue \in Nat
        /\ issue[s].revenue = Amount(issue[s].qty)
    BY DEF Documents, IssueRow
  <2>2. /\ row \in ProcRow /\ row.op = "postIssue" /\ row.key = k
        /\ row.revenue = issue[s].revenue /\ row.qty = issue[s].qty
    BY <1>4, <2>1 DEF IdleProc, ProcRow, Op, Doc
  <2>3. proc' = [proc EXCEPT ![p] = row]
    BY <1>10 DEF LoadPostIssue
  <2>. HIDE DEF row
  <2>4. Kept(row)
    BY <2>1, <2>2 DEF Kept
  <2>. QED
    BY <1>2, <2>3, <2>4
<1>11. ASSUME NEW p \in Process, NEW s \in Issue, issue[s].status # "ABSENT",
              NEW qty \in SomeOf(issue[s].order), LoadCreateReturn(p, s, qty)
       PROVE  Handlers'
  <2>1. issue[s].order \in Order
    BY <1>11 DEF SalesInv, Rows, IssueKept
  <2>2. qty \in Quantity
    BY <2>1, AskedFor
  <2>. QED
    BY <1>6, <1>11, <2>2 DEF LoadCreateReturn, Op, Doc
<1>12. ASSUME NEW p \in Process, NEW t \in Return, NEW k \in Key, LoadPostReturn(p, t, k)
       PROVE  Handlers'
  <2>. DEFINE row == [IdleProc EXCEPT !.op = "postReturn", !.id = t, !.key = k, !.qty = ret[t].qty,
                                      !.due = receivable[ret[t].issue].outstanding]
  <2>1. ret[t].status # "ABSENT" /\ ret[t].qty \in Quantity /\ ret[t].issue \in Issue
    BY <1>12 DEF LoadPostReturn, Documents, ReturnRow
  <2>2. receivable[ret[t].issue].outstanding \in Nat
    BY <2>1 DEF Books, ReceivableRow
  <2>3. row \in ProcRow /\ row.op = "postReturn" /\ row.key = k /\ row.id = t
    BY <1>4, <2>1, <2>2 DEF IdleProc, ProcRow, Op, Doc
  <2>4. proc' = [proc EXCEPT ![p] = row]
    BY <1>12 DEF LoadPostReturn
  <2>. HIDE DEF row
  <2>5. Kept(row)
    BY <1>0, <2>1, <2>3 DEF Kept
  <2>. QED
    BY <1>2, <2>4, <2>5
<1>13. ASSUME NEW p \in Process, OrderStep(p)
       PROVE  Handlers'
  BY <1>5, <1>7, <1>13 DEF OrderStep, ConfirmOrder, CancelOrder
<1>14. ASSUME NEW p \in Process, IssueStep(p)
       PROVE  Handlers'
  BY <1>5, <1>8, <1>9, <1>10, <1>14 DEF IssueStep, CreateIssue, UpdateIssue, PostIssue,
                                        PostIssueRefused
<1>15. ASSUME NEW p \in Process, ReturnStep(p)
       PROVE  Handlers'
  BY <1>5, <1>11, <1>12, <1>15 DEF ReturnStep, CreateReturn, PostReturn, PostReturnRefused
<1>16. ASSUME NEW o \in Order, CreateOrder(o)
       PROVE  Handlers'
  BY <1>3, <1>16 DEF CreateOrder
<1>17. ASSUME NEW s \in Issue, NEW amount, PostReceipt(s, amount)
       PROVE  Handlers'
  BY <1>3, <1>17 DEF PostReceipt
<1>18. UNCHANGED vars => UNCHANGED proc
  BY DEF vars
<1>. QED
  BY <1>3, <1>13, <1>14, <1>15, <1>16, <1>17, <1>18 DEF Next

(***************************************************************************)
(* The books.                                                              *)
(***************************************************************************)

\* What Charged says of the ledger, the receivables and the refunds.
LEMMA ChargedIs ==
    Charged <=> /\ issued = MovedBy(ledger, Issue)
                /\ \A s \in Issue : receivable[s].original = Amount(ledger[s])
                /\ \A s \in Issue : receivable[s].adjusted + OwedFor(refund, ReturnsOf(s))
                                       = Amount(MovedBy(ledger, ReturnsOf(s)))
BY DEF Charged, Moved, MovedBy, Columns, OwedFor, ReceivablePerIssue, ReturnsSettled

LEMMA ChargedNext ==
    ASSUME issued' = MovedBy(ledger', Issue),
           \A s \in Issue : receivable'[s].original = Amount(ledger'[s]),
           \A s \in Issue : receivable'[s].adjusted + OwedFor(refund', ReturnsOf(s)')
                               = Amount(MovedBy(ledger', ReturnsOf(s)'))
    PROVE  Charged'
BY DEF Charged, Moved, MovedBy, Columns, OwedFor, ReceivablePerIssue, ReturnsSettled

\* Posting an issue moves and charges what the request read.
LEMMA PostIssueBooks ==
    ASSUME SalesInv, SalesBooks, NEW p \in Process, PostIssue(p), IssuesGoOn
    PROVE  Books' /\ Charged'
<1>. DEFINE s == proc[p].id
            qty == proc[p].qty
            row == Receivable(Revenue(p))
<1>1. s \in Issue /\ issue[s].status = "DRAFT" /\ qty \in Quantity /\ issue'[s].status = "POSTED"
  BY PostCounts, PostGoesOn
<1>2. ledger[s] = Zero /\ receivable[s] = NoReceivable
  BY <1>1 DEF SalesBooks, Books
<1>3. row = [original |-> Amount(qty), received |-> 0, adjusted |-> 0, outstanding |-> Amount(qty)]
  BY DEF Receivable, Revenue, PostIssue, SalesBooks, Handlers, HandlerKept
<1>4. /\ Fits(qty, stock) /\ stock' = Minus(stock, qty) /\ ledger' = [ledger EXCEPT ![s] = qty]
      /\ issued' = Plus(issued, qty) /\ receivable' = [receivable EXCEPT ![s] = row]
      /\ idem' = [idem EXCEPT ![s][proc[p].key] = qty]
      /\ UNCHANGED <<ret, returned, refund>>
  BY DEF PostIssue
<1>5. Amount(qty) \in Nat
  BY <1>1, Amounts
<1>6. s \in Doc /\ s \notin Return
  BY <1>1, SalesAssumption DEF Doc
<1>. HIDE DEF s, qty, row
<1>7. row \in ReceivableRow /\ row.original = Amount(qty) /\ row.adjusted = 0
  BY <1>3, <1>5 DEF ReceivableRow
<1>8. Books'
  <2>1. stock' \in Quantity
    BY <1>1, <1>4 DEF SalesBooks, Books, Quantity, Minus, Fits
  <2>2. ledger' \in [Doc -> Quantity] /\ receivable' \in [Issue -> ReceivableRow]
    BY <1>1, <1>4, <1>7 DEF SalesBooks, Books
  <2>3. idem' \in [Doc -> [Key -> Quantity \cup {None}]]
    BY <1>1, <1>4 DEF SalesBooks, Books
  <2>4. \A x \in Issue : issue'[x].status # "POSTED" =>
           ledger'[x] = Zero /\ receivable'[x] = NoReceivable
    BY <1>1, <1>4 DEF SalesBooks, Books, IssuesGoOn, StatusStays, Doc
  <2>5. \A t \in Return : ret'[t].status # "POSTED" => ledger'[t] = Zero /\ refund'[t] = 0
    BY <1>4, <1>6 DEF SalesBooks, Books, Doc
  <2>. QED
    BY <1>4, <2>1, <2>2, <2>3, <2>4, <2>5 DEF SalesBooks, Books
<1>9. /\ ledger \in [Doc -> Quantity] /\ Issue \in SUBSET Doc
      /\ ledger' \in [Doc -> Quantity] /\ ledger' = [ledger EXCEPT ![s] = ledger'[s]]
      /\ ledger'[s] = qty
  BY <1>4, <1>6, <1>8 DEF SalesBooks, Books, Doc
<1>10. issued' = MovedBy(ledger', Issue)
  <2>1. MovedBy(ledger', Issue) = Plus(MovedBy(ledger, Issue), ledger'[s])
    BY <1>1, <1>2, <1>6, <1>9, MovedMore
  <2>. QED
    BY <1>4, <1>9, <2>1, ChargedIs DEF SalesBooks
<1>11. ASSUME NEW x \in Issue
       PROVE  /\ receivable'[x].original = Amount(ledger'[x])
              /\ receivable'[x].adjusted + OwedFor(refund', ReturnsOf(x)')
                    = Amount(MovedBy(ledger', ReturnsOf(x)'))
  <2>1. receivable'[x].original = Amount(ledger'[x])
    BY <1>1, <1>4, <1>7, <1>9, ChargedIs DEF SalesBooks, Books
  <2>2. receivable'[x].adjusted = receivable[x].adjusted
    BY <1>1, <1>2, <1>4, <1>7 DEF SalesBooks, Books, NoReceivable
  <2>3. ReturnsOf(x)' = ReturnsOf(x) /\ ReturnsOf(x) \in SUBSET Doc /\ s \notin ReturnsOf(x)
    BY <1>4, <1>6 DEF ReturnsOf, Doc
  <2>4. MovedBy(ledger', ReturnsOf(x)) = MovedBy(ledger, ReturnsOf(x))
    BY <1>1, <1>2, <1>6, <1>9, <2>3, MovedMore
  <2>. QED
    BY <1>4, <2>1, <2>2, <2>3, <2>4, ChargedIs DEF SalesBooks
<1>. QED
  BY <1>8, <1>10, <1>11, ChargedNext

\* Posting a return settles, and may refund, what the request read.
LEMMA PostReturnBooks ==
    ASSUME SalesInv, SalesBooks, NEW p \in Process, PostReturn(p)
    PROVE  Books' /\ Charged'
<1>. DEFINE t == proc[p].id
            s == ret[t].issue
            qty == proc[p].qty
            due == proc[p].due
            amount == Amount(qty)
            paid == Smaller(due, amount)
            row == Settled(receivable[s], due, amount)
<1>1. /\ t \in Return /\ ret[t].status = "DRAFT" /\ qty \in Quantity /\ due \in Nat
      /\ s \in Issue /\ issue[s].status = "POSTED"
  BY DEF SalesBooks, Documents, Handlers, HandlerKept, ProcRow, PostReturn, StillDraft
<1>2. ledger[t] = Zero /\ refund[t] = 0
  BY <1>1 DEF SalesBooks, Books
<1>3. /\ returned' = [returned EXCEPT ![s] = Plus(returned[s], qty)]
      /\ ledger' = [ledger EXCEPT ![t] = qty]
      /\ receivable' = [receivable EXCEPT ![s] = row]
      /\ refund' = [refund EXCEPT ![t] = amount - paid]
      /\ ret' = [ret EXCEPT ![t].status = "POSTED"]
      /\ idem' = [idem EXCEPT ![t][proc[p].key] = qty]
      /\ UNCHANGED <<issue, issued, stock>>
  <2>1. s \in DOMAIN returned /\ s \in DOMAIN receivable
    BY <1>1 DEF SalesBooks, Books
  <2>. QED
    BY <2>1 DEF PostReturn
<1>4. t \in Doc /\ t \notin Issue
  BY <1>1, SalesAssumption DEF Doc
<1>5. amount \in Nat /\ paid \in Nat /\ paid <= due /\ amount - paid \in Nat
  <2>1. amount \in Nat
    BY <1>1, Amounts
  <2>. HIDE DEF amount
  <2>. QED
    BY <1>1, <2>1 DEF Smaller
<1>6. /\ row \in ReceivableRow /\ row.original = receivable[s].original
      /\ row.adjusted = receivable[s].adjusted + paid
  <2>1. receivable[s] \in ReceivableRow
    BY <1>1 DEF SalesBooks, Books
  <2>2. row = IF paid > 0 THEN [receivable[s] EXCEPT !.adjusted = receivable[s].adjusted + paid,
                                                     !.outstanding = due - paid]
              ELSE receivable[s]
    BY <2>1 DEF Settled, ReceivableRow
  <2>. HIDE DEF s, due, amount, paid, row
  <2>. DEFINE old == receivable[s]
  <2>3. /\ old \in ReceivableRow
        /\ row = IF paid > 0 THEN [old EXCEPT !.adjusted = old.adjusted + paid,
                                             !.outstanding = due - paid]
                 ELSE old
    BY <2>1, <2>2
  <2>4. due - paid \in Nat
    BY <1>1, <1>5
  <2>. HIDE DEF old, t, qty
  <2>5. old.adjusted \in Nat /\ old.adjusted + paid \in Nat
    BY <1>5, <2>3 DEF ReceivableRow
  <2>6. CASE paid > 0
    <3>1. row = [old EXCEPT !.adjusted = old.adjusted + paid, !.outstanding = due - paid]
      BY <2>3, <2>6
    <3>2. /\ row \in ReceivableRow /\ row.original = old.original
          /\ row.adjusted = old.adjusted + paid
      BY <2>3, <2>4, <2>5, <3>1 DEF ReceivableRow
    <3>. QED
      BY <3>2 DEF old
  <2>7. CASE ~ paid > 0
    <3>1. row = old /\ paid = 0
      BY <1>5, <2>3, <2>7
    <3>. QED
      BY <2>3, <2>5, <3>1 DEF old
  <2>. QED
    BY <2>6, <2>7
<1>. HIDE DEF s, t, qty, due, amount, paid, row
<1>7. Books'
  <2>1. returned' \in [Issue -> Quantity]
    <3>1. Plus(returned[s], qty) \in Quantity
      BY <1>1, Amounts DEF SalesBooks, Books
    <3>. QED
      BY <1>1, <1>3, <3>1 DEF SalesBooks, Books
  <2>2. /\ ledger' \in [Doc -> Quantity] /\ receivable' \in [Issue -> ReceivableRow]
        /\ refund' \in [Return -> Nat]
    BY <1>1, <1>3, <1>5, <1>6 DEF SalesBooks, Books
  <2>3. idem' \in [Doc -> [Key -> Quantity \cup {None}]]
    BY <1>1, <1>3 DEF SalesBooks, Books
  <2>4. \A x \in Issue : issue'[x].status # "POSTED" =>
           ledger'[x] = Zero /\ receivable'[x] = NoReceivable
    BY <1>1, <1>3, <1>4 DEF SalesBooks, Books, Doc
  <2>5. \A u \in Return : ret'[u].status # "POSTED" => ledger'[u] = Zero /\ refund'[u] = 0
    <3>1. \A u \in Return : /\ u # t => ret'[u] = ret[u]
                            /\ u = t => ret'[u].status = "POSTED"
      BY <1>1, <1>3 DEF SalesBooks, Documents, ReturnRow
    <3>. QED
      BY <1>1, <1>3, <1>4, <3>1 DEF SalesBooks, Books, Doc
  <2>. QED
    BY <1>3, <2>1, <2>2, <2>3, <2>4, <2>5 DEF SalesBooks, Books
<1>8. /\ ledger \in [Doc -> Quantity] /\ Issue \in SUBSET Doc
      /\ ledger' \in [Doc -> Quantity] /\ ledger' = [ledger EXCEPT ![t] = ledger'[t]]
      /\ ledger'[t] = qty
      /\ refund \in [Return -> Nat] /\ refund' \in [Return -> Nat]
      /\ refund' = [refund EXCEPT ![t] = refund'[t]] /\ refund'[t] = amount - paid
  BY <1>1, <1>3, <1>4, <1>7 DEF SalesBooks, Books, Doc
<1>9. issued' = MovedBy(ledger', Issue)
  <2>1. MovedBy(ledger', Issue) = MovedBy(ledger, Issue)
    BY <1>1, <1>2, <1>4, <1>8, MovedMore
  <2>. QED
    BY <1>3, <2>1, ChargedIs DEF SalesBooks
<1>10. ASSUME NEW x \in Issue
       PROVE  /\ receivable'[x].original = Amount(ledger'[x])
              /\ receivable'[x].adjusted + OwedFor(refund', ReturnsOf(x)')
                    = Amount(MovedBy(ledger', ReturnsOf(x)'))
  <2>1. receivable'[x].original = Amount(ledger'[x])
    <3>1. receivable'[x].original = receivable[x].original /\ ledger'[x] = ledger[x]
      BY <1>1, <1>3, <1>4, <1>6 DEF SalesBooks, Books, Doc
    <3>. QED
      BY <3>1, ChargedIs DEF SalesBooks
  <2>2. /\ ReturnsOf(x)' = ReturnsOf(x) /\ ReturnsOf(x) \in SUBSET Return
        /\ t \in ReturnsOf(x) <=> x = s
    <3>1. \A u \in Return : ret'[u].issue = ret[u].issue
      BY <1>1, <1>3 DEF SalesBooks, Documents, ReturnRow
    <3>. QED
      BY <1>1, <3>1 DEF ReturnsOf, s
  <2>. DEFINE R == ReturnsOf(x)
  <2>3. R \in SUBSET Return /\ R \in SUBSET Doc
    BY <2>2 DEF Doc
  <2>. HIDE DEF R
  <2>4. /\ t \in R => MovedBy(ledger', R) = Plus(MovedBy(ledger, R), ledger'[t])
        /\ t \notin R => MovedBy(ledger', R) = MovedBy(ledger, R)
    BY <1>1, <1>2, <1>4, <1>8, <2>3, MovedMore
  <2>5. /\ OwedFor(refund, R) \in Int
        /\ t \in R => OwedFor(refund', R) = OwedFor(refund, R) + refund'[t]
        /\ t \notin R => OwedFor(refund', R) = OwedFor(refund, R)
    BY <1>1, <1>2, <1>8, <2>3, OwedMore
  <2>6. receivable[x].adjusted + OwedFor(refund, R) = Amount(MovedBy(ledger, R))
    BY ChargedIs DEF SalesBooks, R
  <2>7. receivable[x].adjusted \in Nat
    BY DEF SalesBooks, Books, ReceivableRow
  <2>8. receivable'[x].adjusted + OwedFor(refund', R) = Amount(MovedBy(ledger', R))
    <3>1. CASE x = s
      <4>1. Amount(Plus(MovedBy(ledger, R), qty)) = Amount(MovedBy(ledger, R)) + amount
        BY <1>1, <1>8, <2>3, MovedQuantity, Amounts DEF amount
      <4>2. receivable'[x].adjusted = receivable[x].adjusted + paid
        BY <1>1, <1>3, <1>6, <3>1 DEF SalesBooks, Books
      <4>3. /\ OwedFor(refund', R) = OwedFor(refund, R) + (amount - paid)
            /\ MovedBy(ledger', R) = Plus(MovedBy(ledger, R), qty)
        BY <1>8, <2>2, <2>4, <2>5, <3>1 DEF R
      <4>. QED
        BY <1>5, <2>5, <2>6, <2>7, <4>1, <4>2, <4>3
    <3>2. CASE x # s
      <4>1. receivable'[x].adjusted = receivable[x].adjusted
        BY <1>1, <1>3, <3>2 DEF SalesBooks, Books
      <4>2. OwedFor(refund', R) = OwedFor(refund, R) /\ MovedBy(ledger', R) = MovedBy(ledger, R)
        BY <2>2, <2>4, <2>5, <3>2 DEF R
      <4>. QED
        BY <2>6, <4>1, <4>2
    <3>. QED
      BY <3>1, <3>2
  <2>. QED
    BY <2>1, <2>2, <2>8 DEF R
<1>. QED
  BY <1>7, <1>9, <1>10, ChargedNext

\* A receipt takes off what is outstanding.
LEMMA PostReceiptBooks ==
    ASSUME SalesInv, SalesBooks, NEW s \in Issue, NEW amount \in 1..receivable[s].outstanding,
           PostReceipt(s, amount)
    PROVE  Books' /\ Charged'
<1>. DEFINE old == receivable[s]
            more == old.received + amount
            rest == old.outstanding - amount
            row == [old EXCEPT !.received = more, !.outstanding = rest]
<1>1. old \in ReceivableRow
  BY DEF SalesBooks, Books
<1>2. /\ old.outstanding \in Nat /\ old.received \in Nat /\ amount \in Nat
      /\ amount >= 1 /\ amount <= old.outstanding
  BY <1>1 DEF ReceivableRow
<1>3. /\ receivable' = [receivable EXCEPT ![s] = row]
      /\ UNCHANGED <<issue, ret, issued, stock, returned, ledger, refund, idem>>
  BY DEF PostReceipt, documents, SalesBooks, Books
<1>. HIDE DEF old
<1>4. row \in ReceivableRow /\ row.original = old.original /\ row.adjusted = old.adjusted
  <2>1. more \in Nat /\ rest \in Nat
    BY <1>2
  <2>. HIDE DEF more, rest
  <2>. QED
    BY <1>1, <2>1 DEF ReceivableRow
<1>. HIDE DEF row
<1>5. issue[s].status = "POSTED"
  <2>1. NoReceivable.outstanding = 0
    BY DEF NoReceivable
  <2>2. old # NoReceivable
    BY <1>2, <2>1
  <2>. QED
    BY <2>2 DEF SalesBooks, Books, old
<1>6. \A x \in Issue : /\ receivable'[x] \in ReceivableRow
                       /\ receivable'[x].original = receivable[x].original
                       /\ receivable'[x].adjusted = receivable[x].adjusted
                       /\ x # s => receivable'[x] = receivable[x]
  BY <1>3, <1>4 DEF SalesBooks, Books, old
<1>7. receivable' \in [Issue -> ReceivableRow]
  BY <1>3, <1>6 DEF SalesBooks, Books
<1>8. Books'
  BY <1>3, <1>5, <1>6, <1>7 DEF SalesBooks, Books
<1>9. \A x \in Issue : ReturnsOf(x)' = ReturnsOf(x)
  BY <1>3 DEF ReturnsOf
<1>10. Charged'
  <2>1. issued' = MovedBy(ledger', Issue)
    BY <1>3, ChargedIs DEF SalesBooks
  <2>2. ASSUME NEW x \in Issue
        PROVE  /\ receivable'[x].original = Amount(ledger'[x])
               /\ receivable'[x].adjusted + OwedFor(refund', ReturnsOf(x)')
                     = Amount(MovedBy(ledger', ReturnsOf(x)'))
    BY <1>3, <1>6, <1>9, ChargedIs DEF SalesBooks
  <2>. QED
    BY <2>1, <2>2, ChargedNext
<1>. QED
  BY <1>8, <1>10

\* A return that is created has brought back nothing.
LEMMA CreateReturnBooks ==
    ASSUME SalesInv, SalesBooks, NEW p \in Process, CreateReturn(p), UNCHANGED posted
    PROVE  Charged'
<1>1. PICK t \in Return :
         /\ ret[t].status = "ABSENT"
         /\ ret' = [ret EXCEPT ![t] = [status |-> "DRAFT", issue |-> proc[p].id,
                                       qty |-> proc[p].qty]]
  BY DEF CreateReturn
<1>2. /\ ledger \in [Doc -> Quantity] /\ refund \in [Return -> Nat]
      /\ ledger = [ledger EXCEPT ![t] = ledger[t]] /\ refund = [refund EXCEPT ![t] = refund[t]]
      /\ t \in Doc /\ ledger[t] = Zero /\ refund[t] = 0
  BY <1>1 DEF SalesBooks, Books, Doc
<1>3. UNCHANGED <<ledger, refund, receivable, issued>>
  BY DEF posted
<1>4. ASSUME NEW x \in Issue
      PROVE  /\ OwedFor(refund, ReturnsOf(x)') = OwedFor(refund, ReturnsOf(x))
             /\ MovedBy(ledger, ReturnsOf(x)') = MovedBy(ledger, ReturnsOf(x))
  <2>. DEFINE R == ReturnsOf(x)
              U == ReturnsOf(x)'
  <2>1. /\ R \in SUBSET Return /\ U \in SUBSET Return /\ U \ {t} = R \ {t}
        /\ R \in SUBSET Doc /\ U \in SUBSET Doc
    BY <1>1 DEF ReturnsOf, Doc
  <2>. HIDE DEF R, U
  <2>2. /\ t \in U => MovedBy(ledger, U) = Plus(MovedBy(ledger, R), ledger[t])
        /\ t \notin U => MovedBy(ledger, U) = MovedBy(ledger, R)
    BY <1>2, <2>1, MovedMore
  <2>3. /\ OwedFor(refund, R) \in Int
        /\ t \in U => OwedFor(refund, U) = OwedFor(refund, R) + refund[t]
        /\ t \notin U => OwedFor(refund, U) = OwedFor(refund, R)
    BY <1>2, <2>1, OwedMore
  <2>4. Plus(MovedBy(ledger, R), Zero) = MovedBy(ledger, R)
    <3>1. MovedBy(ledger, R) \in Quantity
      BY <1>2, <2>1, MovedQuantity
    <3>. QED
      BY <3>1 DEF Plus, Zero, Quantity
  <2>. QED
    BY <1>2, <2>2, <2>3, <2>4 DEF R, U
<1>. QED
  BY <1>3, <1>4, ChargedIs, ChargedNext DEF SalesBooks

\* Every step keeps the books.
LEMMA BooksStep ==
    ASSUME SalesInv, SalesBooks, [Next]_vars
    PROVE  Books' /\ Charged'
<1>1. CASE UNCHANGED posted
  <2>1. Books'
    BY <1>1, IssuesStep, ReturnsStep DEF SalesBooks, Books, posted, IssuesGoOn, StatusStays,
                                        ReturnsGoOn
  <2>2. ASSUME UNCHANGED ret
        PROVE  Charged'
    BY <1>1, <2>2 DEF SalesBooks, Charged, Moved, ReceivablePerIssue, ReturnsSettled, ReturnsOf,
                      posted
  <2>3. ASSUME NEW p \in Process, PostReturn(p)
        PROVE  Charged'
    BY <2>3, PostReturnBooks
  <2>. QED
    BY <1>1, <2>1, <2>2, <2>3, CreateReturnBooks, ReturnActions
<1>. QED
  BY <1>1, IssuesStep, PostIssueBooks, PostReturnBooks, PostReceiptBooks, PostingActions

\* At the start nothing was moved.
LEMMA BooksInit == Init => SalesBooks
<1>. SUFFICES ASSUME Init
              PROVE  SalesBooks
  OBVIOUS
<1>1. NoIssue \in IssueRow /\ NoIssue.revenue = Amount(NoIssue.qty) /\ NoReturn \in ReturnRow
      /\ NoReceivable \in ReceivableRow /\ IdleProc \in ProcRow
  BY Amounts DEF NoIssue, NoReturn, NoReceivable, IdleProc, IssueRow, ReturnRow, ReceivableRow,
                 ProcRow, Status, Op
<1>2. Documents
  BY <1>1 DEF Init, Documents, NoReturn
<1>3. Handlers
  BY <1>1 DEF Init, Handlers, HandlerKept, IdleProc
<1>4. Books
  <2>1. stock \in Quantity
    BY SalesAssumption DEF Init, Quantity
  <2>2. returned \in [Issue -> Quantity] /\ ledger \in [Doc -> Quantity]
    BY Amounts DEF Init
  <2>3. receivable \in [Issue -> ReceivableRow] /\ refund \in [Return -> Nat]
    BY <1>1 DEF Init
  <2>4. idem \in [Doc -> [Key -> Quantity \cup {None}]]
    BY DEF Init
  <2>5. /\ \A s \in Issue : ledger[s] = Zero /\ receivable[s] = NoReceivable
        /\ \A t \in Return : ledger[t] = Zero /\ refund[t] = 0
    BY DEF Init, Doc
  <2>. QED
    BY <2>1, <2>2, <2>3, <2>4, <2>5 DEF Books
<1>5. ASSUME NEW D \in SUBSET Doc
      PROVE  MovedBy(ledger, D) = Zero
  <2>1. IsFiniteSet(D) /\ \A d \in D : \A i \in Item : ledger[d][i] = 0
    BY DocsFinite, FS_Subset DEF Init, Zero
  <2>. QED
    BY <2>1, ColumnsZero DEF MovedBy, Zero
<1>6. ASSUME NEW T \in SUBSET Return
      PROVE  OwedFor(refund, T) = 0
  <2>. DEFINE f == [t \in T |-> refund[t]]
  <2>1. f \in [T -> Int] /\ (\A t \in T : f[t] = 0) /\ IsFiniteSet(T)
    BY SalesAssumption, FS_Subset DEF Init
  <2>. HIDE DEF f
  <2>2. Total(f) = 0
    BY <2>1, TotalZero
  <2>. QED
    BY <2>2 DEF f, OwedFor
<1>7. Charged
  <2>1. issued = MovedBy(ledger, Issue)
    BY <1>5 DEF Init, Doc
  <2>2. ASSUME NEW s \in Issue
        PROVE  /\ receivable[s].original = Amount(ledger[s])
               /\ receivable[s].adjusted + OwedFor(refund, ReturnsOf(s))
                     = Amount(MovedBy(ledger, ReturnsOf(s)))
    <3>1. ReturnsOf(s) \in SUBSET Return /\ ReturnsOf(s) \in SUBSET Doc
      BY DEF ReturnsOf, Doc
    <3>2. OwedFor(refund, ReturnsOf(s)) = 0 /\ MovedBy(ledger, ReturnsOf(s)) = Zero
      BY <1>5, <1>6, <3>1
    <3>. QED
      BY <3>2, Amounts DEF Init, NoReceivable, Doc
  <2>. QED
    BY <2>1, <2>2, ChargedIs
<1>. QED
  BY <1>2, <1>3, <1>4, <1>7 DEF SalesBooks

\* The invariant of sales with its books.
THEOREM SalesBooksInvariant == Spec => [](SalesInv /\ SalesBooks)
<1>1. Init => SalesInv /\ SalesBooks
  BY SalesInit, BooksInit
<1>2. SalesInv /\ SalesBooks /\ [Next]_vars => SalesInv' /\ SalesBooks'
  <2>1. ASSUME SalesInv, SalesBooks, [Next]_vars
        PROVE  SalesInv' /\ SalesBooks'
    BY <2>1, SalesStep, DocumentsStep, HandlersStep, BooksStep DEF SalesBooks
  <2>. QED
    BY <2>1
<1>. QED
  BY <1>1, <1>2, PTL DEF Spec

\* What an order counts as issued is what its posted issues took from the stock,
\* and never more than was ordered: the one transaction that adds to it also
\* writes the ledger (finalize of postIssue, "concurrent issues make the
\* quantity exceed the order's").
THEOREM IssuedPosted == Spec => []IssuedIsPosted
<1>1. ASSUME SalesInv, SalesBooks
      PROVE  IssuedIsPosted
  BY <1>1 DEF SalesInv, Counted, Fits, SalesBooks, Charged, IssuedIsPosted
<1>. QED
  BY <1>1, SalesBooksInvariant, PTL

\* Every posted issue is charged once, for exactly what left the stock, and what
\* comes back is taken off the receivable or owed to the customer, never both,
\* out of well-formed rows, with requests that read the receivable before other
\* requests wrote it (finalize of postIssue and postReturn, postReceipt).
THEOREM DocumentsAreCharged == Spec => []DocumentsCharged
<1>1. ASSUME SalesInv, SalesBooks
      PROVE  DocumentsCharged
  <2>1. TypeOK
    BY <1>1 DEF SalesInv, Counted, SalesBooks, Documents, Handlers, Books, TypeOK
  <2>. QED
    BY <1>1, <2>1 DEF SalesBooks, Charged, DocumentsCharged
<1>. QED
  BY <1>1, SalesBooksInvariant, PTL

=============================================================================
