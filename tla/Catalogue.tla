------------------------------ MODULE Catalogue ------------------------------
(***************************************************************************)
(* Master data, prices and locations together: the prices and locations    *)
(* refer to master data, and requests for all of them interleave.          *)
(***************************************************************************)
EXTENDS PriceBook, LocationTree

catalogueVars == <<masterVars, request, used, prices, raced, locationVars>>

CatalogueInit == MasterInit /\ PriceInit /\ LocationInit

CatalogueNext ==
    \/ MasterNext /\ UNCHANGED <<prices, raced, locationVars>>
    \/ PriceNext /\ UNCHANGED <<masterVars, locationVars>>
    \/ LocationNext /\ UNCHANGED <<prices, raced>>

CatalogueSpec == CatalogueInit /\ [][CatalogueNext]_catalogueVars

-----------------------------------------------------------------------------

\* A request writes a reference only to a record that was active when it wrote, or
\* that was deactivated after the request had checked it: a category that is out of
\* use cannot be chosen for a product (ensureActive, docs/08-master-data.md).
ChosenWhileActive ==
    [][\A row \in Row :
          (Exists(row)' /\ rows'[row] # rows[row] /\ ResourceOf[row] # "locations") =>
             \A t \in DOMAIN rows'[row].refs :
                LET chosen == rows'[row].refs[t]
                IN \/ chosen = None
                   \/ Exists(row) /\ rows[row].refs[t] = chosen
                   \/ Active(chosen)
                   \/ \E r \in Request : request[r] # request'[r] /\ request[r].lapsed]_catalogueVars

\* An export without a filter, in the order of creation, has every record that there
\* was when it began, unless it reached its limit, whatever is created, updated and
\* deactivated between its pages (exportCsv, paginationMeta).
ExportMissesNone ==
    export.pc = "sent" /\ export.query.status = None /\ Len(export.emitted) < export.query.limit
        => export.first \subseteq ToSet(export.emitted)

\* Two active prices of one key are effective at the same time only if one of them was
\* written after the write of another had made its check obsolete (assertNoPriceOverlap).
PricesDisjointUnlessRaced ==
    \A p \in Price : \A q \in Price \ {p} :
        /\ prices[p] # None /\ prices[q] # None
        /\ prices[p].key = prices[q].key
        /\ prices[p].status = "ACTIVE" /\ prices[q].status = "ACTIVE"
        /\ Overlap(prices[p], prices[q])
        => {p, q} \cap raced # {}

\* A resolution does not answer with a price for a key while a price for a key that
\* comes before it was effective all the time it looked, and does not answer that
\* there is none while one was (findPrice, docs/11-sales-management.md).
ResolvedFairly ==
    \A r \in Request : request[r].op = "resolved" =>
        \A key \in request[r].steady : request[r].key # None /\ ~ Beats(key, request[r].key)

\* Prices do not overlap and are resolved by their order, but for what came between
\* a check and the write that relies on it (assertNoPriceOverlap, findPrice).
PricesSound == PricesDisjointUnlessRaced /\ ResolvedFairly

\* Stock is in active leaves, and an inactive location has no active child, unless a
\* posting or another change of the tree came between a check and its write, or the
\* status was written by an update, which asks for neither (deactivateLocation,
\* updateLocation).
ClosedLocationsAreEmpty ==
    \A l \in Location \ (crossed \cup patched) :
        /\ l \in stocked => l \in leaf /\ Active(l)
        /\ Exists(l) /\ ~ Active(l) => \A c \in ActiveChildren(l) : c \in crossed

=============================================================================
