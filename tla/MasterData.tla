----------------------------- MODULE MasterData -----------------------------
(***************************************************************************)
(* MasterDataService: rows that refer to each other are created, updated,  *)
(* deactivated and exported.                                               *)
(*                                                                         *)
(* A request reads and writes in statements of their own, so requests      *)
(* interleave between the checks and the write.  Names and other fields    *)
(* decide nothing; a code that is taken is refused by its unique index and *)
(* changes nothing.  Locations are in the same table of the model: they    *)
(* are the resource "locations" of module LocationTree.                    *)
(***************************************************************************)
EXTENDS Integers, Sequences, SequencesExt, FiniteSets

CONSTANTS
    Row,          \* bound: the rows that may exist
    ResourceOf,   \* the resource of a row
    FirstRows,    \* rows that exist from the start, in the order of their creation
    FirstRefs,    \* what each of them refers to
    Request,      \* bound: requests in progress at a time
    MaxRequests,  \* bound: requests in all
    PageSize,     \* rows in a page of an export
    None

\* The resources a row of a resource refers to.
References(resource) ==
    CASE resource = "products"  -> {"categories"}
      [] resource = "skus"      -> {"products", "units"}
      [] resource = "suppliers" -> {"purchase-channels"}
      [] resource = "customers" -> {"sales-channels"}
      [] resource = "locations" -> {"locations", "sales-channels"}
      [] OTHER                  -> {}

Status == {"ACTIVE", "INACTIVE"}

Record(resource) == [status : Status, refs : [References(resource) -> Row \cup {None}]]

ASSUME MasterAssumption ==
    /\ IsFiniteSet(Row) /\ FirstRows \in Seq(Row) /\ PageSize \in Nat \ {0}
    /\ {None, "keep"} \cap Row = {}
    /\ \A row \in Row : None \notin Record(ResourceOf[row])
    /\ \A row \in Row \cap ToSet(FirstRows) :
          FirstRefs[row] \in [References(ResourceOf[row]) -> Row \cup {None}]

VARIABLES
    rows,      \* None, or the status and the references of a row
    order,     \* the rows in the order of createdAt
    request,   \* what each request is doing
    used,      \* requests so far
    export     \* the export in progress

masterVars == <<rows, order, export>>

Idle == [op |-> "idle"]
NoExport == [pc |-> "idle"]

\* required(): a product and a sku are not created without their references.
Required(resource) == resource \in {"products", "skus"}

Exists(row) == rows[row] # None
Active(row) == Exists(row) /\ rows[row].status = "ACTIVE"
OfResource(resource) == {row \in Row : Exists(row) /\ ResourceOf[row] = resource}

\* The id of a row that is created now.
Unborn(resource) == {row \in Row : ~ Exists(row) /\ ResourceOf[row] = resource}

MasterInit ==
    /\ rows = [row \in Row |-> IF row \in ToSet(FirstRows)
                               THEN [status |-> "ACTIVE", refs |-> FirstRefs[row]]
                               ELSE None]
    /\ order = FirstRows
    /\ request = [r \in Request |-> Idle]
    /\ used = 0
    /\ export = NoExport

-----------------------------------------------------------------------------

\* A request may come.
Ready(r) == request[r] = Idle /\ used < MaxRequests

Begin(r, todo) ==
    /\ used' = used + 1
    /\ request' = [request EXCEPT ![r] = todo]

\* A refusal, or the answer after the write.
End(r) == request' = [request EXCEPT ![r] = Idle]

\* What a payload may say of the references: "keep" is an absent field, None
\* clears the default channel of a supplier or a customer.
RefsPayload(resource, creating) ==
    LET absent == IF creating THEN {None} ELSE {"keep", None}
        choice(t) == OfResource(t) \cup
                     (IF ~ Required(resource) THEN absent
                      ELSE IF creating THEN {} ELSE {"keep"})
    IN {refs \in [References(resource) -> UNION {choice(t) : t \in References(resource)}] :
          \A t \in DOMAIN refs : refs[t] \in choice(t)}

Named(refs) == {refs[t] : t \in DOMAIN refs} \ {"keep", None}

\* create: the payload, and the references that ensureActive has still to look at.
Create(r) ==
    /\ Ready(r)
    /\ \E resource \in {ResourceOf[row] : row \in Row} \ {"locations"} :
          \E refs \in RefsPayload(resource, TRUE) :
             /\ Unborn(resource) # {}
             /\ Begin(r, [op |-> "create", resource |-> resource, refs |-> refs,
                          unchecked |-> Named(refs), lapsed |-> FALSE])
             /\ UNCHANGED masterVars

\* update: detail found the row.
Update(r) ==
    /\ Ready(r)
    /\ \E row \in Row : \E refs \in RefsPayload(ResourceOf[row], FALSE) :
          \E status \in Status \cup {"keep"} :
             /\ Exists(row) /\ ResourceOf[row] # "locations"
             /\ Begin(r, [op |-> "update", row |-> row, refs |-> refs, status |-> status,
                          unchecked |-> Named(refs), lapsed |-> FALSE])
             /\ UNCHANGED masterVars

\* Mutant: the reference has to exist, that is all.
ReferenceExists(row) == Exists(row)

\* ensureActive
ReferenceActive(row) == Active(row)

\* One reference is looked at; the request ends with the first that is inactive.
CheckReference(r) ==
    /\ request[r].op \in {"create", "update"}
    /\ \E row \in request[r].unchecked :
          \/ /\ ReferenceActive(row)
             /\ request' = [request EXCEPT ![r].unchecked = @ \ {row}]
          \/ ~ ReferenceActive(row) /\ End(r)
    /\ UNCHANGED <<masterVars, used>>

\* delegate.create; the row is ACTIVE by default.
WriteCreate(r) ==
    /\ request[r].op = "create"
    /\ request[r].unchecked = {}
    /\ LET row == CHOOSE row \in Unborn(request[r].resource) : TRUE
       IN IF Unborn(request[r].resource) = {} THEN UNCHANGED <<rows, order>>
          ELSE /\ rows' = [rows EXCEPT ![row] = [status |-> "ACTIVE",
                                                 refs |-> request[r].refs]]
               /\ order' = Append(order, row)
    /\ End(r)
    /\ UNCHANGED <<used, export>>

Kept(old, new) == [t \in DOMAIN old |-> IF new[t] = "keep" THEN old[t] ELSE new[t]]

\* A reference that a request has checked may be deactivated before it writes:
\* noted only for the properties.
Lapse(row, requests) ==
    [r \in Request |->
        IF requests[r].op \in {"create", "update"} /\ row \in Named(requests[r].refs)
        THEN [requests[r] EXCEPT !.lapsed = TRUE] ELSE requests[r]]

\* delegate.update with the fields of the payload.
WriteUpdate(r) ==
    /\ request[r].op = "update"
    /\ request[r].unchecked = {}
    /\ LET row    == request[r].row
           status == IF request[r].status = "keep" THEN rows[row].status
                     ELSE request[r].status
           ended  == [request EXCEPT ![r] = Idle]
       IN /\ rows' = [rows EXCEPT ![row] = [status |-> status,
                                            refs |-> Kept(rows[row].refs, request[r].refs)]]
          /\ request' = IF status = "INACTIVE" THEN Lapse(row, ended) ELSE ended
    /\ UNCHANGED <<order, export, used>>

\* deactivate asks for nothing that depends on the row.
Deactivate(r) ==
    /\ Ready(r)
    /\ used' = used + 1
    /\ \E row \in Row :
          /\ Exists(row) /\ ResourceOf[row] # "locations"
          /\ rows' = [rows EXCEPT ![row].status = "INACTIVE"]
          /\ request' = Lapse(row, request)
    /\ UNCHANGED <<order, export>>

-----------------------------------------------------------------------------
(***************************************************************************)
(* list and exportCsv.  An export reads its pages one after the other, and *)
(* the rows may change in between.                                         *)
(***************************************************************************)

\* buildWhere
Matches(query, table, row) == /\ ResourceOf[row] = query.resource
                              /\ query.status \in {None, table[row].status}

\* The rows of "born" that match, in their order.
Matching(query, table, born) ==
    LET found[i \in 0..Len(born)] ==
            IF i = 0 THEN << >>
            ELSE IF Matches(query, table, born[i]) THEN Append(found[i - 1], born[i])
            ELSE found[i - 1]
    IN found[Len(born)]

\* orderBy createdAt, which is the default of sortBy
Listed(query, table, born) ==
    LET matching == Matching(query, table, born)
    IN IF query.ascending THEN matching ELSE Reverse(matching)

Page(listed, page) ==
    SubSeq(listed, (page - 1) * PageSize + 1,
           IF page * PageSize < Len(listed) THEN page * PageSize ELSE Len(listed))

\* Mutant: the last page is not asked for.
HasNextButLast(page, total) == page + 1 < (total + PageSize - 1) \div PageSize

\* paginationMeta
HasNextPage(page, total) == page < (total + PageSize - 1) \div PageSize

BeginExport ==
    /\ export = NoExport
    /\ used < MaxRequests
    /\ used' = used + 1
    /\ \E query \in [resource : {ResourceOf[row] : row \in Row} \ {"locations"},
                     status : Status \cup {None}, ascending : BOOLEAN,
                     limit : {1, Cardinality(Row)}] :
          export' = [pc |-> "reading", query |-> query, page |-> 1,
                     emitted |-> << >>, first |-> ToSet(Listed(query, rows, order))]
    /\ UNCHANGED <<rows, order, request>>

\* findMany and count of one page, which are statements of their own: rows may
\* come in between, here as a total that is larger.  The lines go out up to the limit.
ExportPage ==
    /\ export.pc = "reading"
    /\ LET listed == Listed(export.query, rows, order)
           lines  == export.emitted \o Page(listed, export.page)
           limit  == export.query.limit
           some   == SubSeq(lines, 1, IF Len(lines) < limit THEN Len(lines) ELSE limit)
           more   == Len(some) < limit /\ HasNextPage(export.page, Len(listed))
       IN export' = [export EXCEPT !.emitted = some, !.page = @ + 1,
                                   !.pc = IF more THEN "reading" ELSE "sent"]
    /\ UNCHANGED <<rows, order, request, used>>

MasterNext ==
    \/ \E r \in Request : \/ Create(r) \/ Update(r) \/ Deactivate(r)
                          \/ CheckReference(r) \/ WriteCreate(r) \/ WriteUpdate(r)
    \/ BeginExport \/ ExportPage

=============================================================================
