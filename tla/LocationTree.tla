---------------------------- MODULE LocationTree ----------------------------
(***************************************************************************)
(* The locations of InventoryService, beside postings that move stock.     *)
(*                                                                         *)
(* A location is a row of the resource "locations" that refers to its      *)
(* parent and to a sales channel.  Only the postings are serializable      *)
(* transactions; a location is checked and written in separate statements. *)
(***************************************************************************)
EXTENDS MasterData

CONSTANTS
    ExternalLocation,  \* locations of the type EXTERNAL_WAREHOUSE, which does not change here
    ExternalChannel    \* sales channels of that inventory mode

VARIABLES
    leaf,       \* locations with isLeaf
    stocked,    \* locations with a balance that is not zero
    crossed,    \* only for the properties: locations written after a check that was
                \* obsolete by then
    patched     \* only for the properties: locations whose status came with an update

locationVars == <<leaf, stocked, crossed, patched>>

Location == {row \in Row : ResourceOf[row] = "locations"}

Parent(refs) == refs["locations"]
Channel(refs) == refs["sales-channels"]

ActiveChildren(l) == {c \in Location : Active(c) /\ Parent(rows[c].refs) = l}

LocationInit ==
    /\ leaf = Location \cap ToSet(FirstRows)
    /\ stocked = {} /\ crossed = {} /\ patched = {}

\* Ids for a new location: no row and no request has them.
FreshIds == Unborn("locations") \
                {request[r].row : r \in {q \in Request : request[q].op = "createLocation"}}

\* What the references of the row are after the write of a payload.
Merged(row, refs) == IF Exists(row) THEN Kept(rows[row].refs, refs) ELSE refs

\* The locations whose state or stock a request is about.
Around(todo) == ({todo.row} \cup {Parent(todo.refs), Parent(Merged(todo.row, todo.refs))})
                    \cap Location

\* Something happened at these locations: noted only for the properties.
Disturb(requests, where) ==
    [r \in Request |-> IF "disturbed" \in DOMAIN requests[r]
                       THEN [requests[r] EXCEPT !.disturbed = @ \cup where]
                       ELSE requests[r]]

\* validateLocation, as far as it reads nothing: not its own parent, and an external
\* warehouse has a channel of that mode.
Sensible(todo) ==
    LET refs == Merged(todo.row, todo.refs)
    IN /\ Parent(refs) # todo.row
       /\ todo.row \in ExternalLocation => Channel(refs) \in ExternalChannel

CreateLocation(r) ==
    /\ Ready(r)
    /\ \E refs \in RefsPayload("locations", TRUE) : \E isLeaf \in {"yes", "no"} :
          /\ FreshIds # {}
          /\ LET todo == [op |-> "createLocation", row |-> CHOOSE l \in FreshIds : TRUE,
                          refs |-> refs, leaf |-> isLeaf, status |-> "ACTIVE",
                          unchecked |-> Named(refs), counted |-> TRUE, disturbed |-> {}]
             IN Sensible(todo) /\ Begin(r, todo)
          /\ UNCHANGED <<masterVars, locationVars>>

\* updateLocation validates the payload over the row it has read, the references that
\* stay included.  A reference cannot be taken away.
UpdateLocation(r) ==
    /\ Ready(r)
    /\ \E row \in Location : \E refs \in RefsPayload("locations", FALSE) :
       \E isLeaf \in {"yes", "no", "keep"} : \E status \in Status \cup {"keep"} :
          /\ Exists(row)
          /\ None \notin {refs[t] : t \in DOMAIN refs}
          /\ LET todo == [op |-> "updateLocation", row |-> row, refs |-> refs, leaf |-> isLeaf,
                          status |-> status, unchecked |-> Named(Merged(row, refs)), counted |-> isLeaf # "no",
                          disturbed |-> {}]
             IN Sensible(todo) /\ Begin(r, todo)
          /\ UNCHANGED <<masterVars, locationVars>>

\* deactivateLocation reads the location.
DeactivateLocation(r) ==
    /\ Ready(r)
    /\ \E row \in Location :
          /\ Exists(row)
          /\ Begin(r, [op |-> "deactivateLocation", row |-> row,
                       refs |-> [t \in References("locations") |-> "keep"], leaf |-> "keep",
                       status |-> "INACTIVE", unchecked |-> {}, counted |-> FALSE, disturbed |-> {}])
          /\ UNCHANGED <<masterVars, locationVars>>

LocationOps == {"createLocation", "updateLocation", "deactivateLocation"}

\* The parent and the channel are looked at.
CheckPlace(r) ==
    /\ request[r].op \in LocationOps
    /\ \E row \in request[r].unchecked :
          \/ /\ Active(row)
             /\ request' = [request EXCEPT ![r].unchecked = @ \ {row}]
          \/ ~ Active(row) /\ End(r)
    /\ UNCHANGED <<masterVars, locationVars, used>>

\* Mutant: a deactivation only counts the children.
ChildrenOnly(todo) == todo.op = "deactivateLocation" => ActiveChildren(todo.row) = {}

\* No stock, and for a deactivation no active child.
Empty(todo) ==
    /\ todo.row \notin stocked
    /\ todo.op = "deactivateLocation" => ActiveChildren(todo.row) = {}

CountStock(r) ==
    /\ request[r].op \in LocationOps
    /\ request[r].unchecked = {} /\ ~ request[r].counted
    /\ \/ Empty(request[r]) /\ request' = [request EXCEPT ![r].counted = TRUE]
       \/ ~ Empty(request[r]) /\ End(r)
    /\ UNCHANGED <<masterVars, locationVars, used>>

WriteLocation(r) ==
    /\ request[r].op \in LocationOps
    /\ request[r].unchecked = {} /\ request[r].counted
    /\ LET todo   == request[r]
           row    == todo.row
           status == IF todo.status = "keep" THEN rows[row].status ELSE todo.status
       IN /\ rows' = [rows EXCEPT ![row] = [status |-> status,
                                            refs |-> Merged(row, todo.refs)]]
          /\ order' = IF todo.op = "createLocation" THEN Append(order, row) ELSE order
          /\ leaf' = CASE todo.leaf = "yes" -> leaf \cup {row}
                      [] todo.leaf = "no"  -> leaf \ {row}
                      [] OTHER             -> leaf
          /\ crossed' = crossed \cup (todo.disturbed \cap Around(todo))
          /\ patched' = IF todo.op = "updateLocation" /\ todo.status = "INACTIVE"
                        THEN patched \cup {row} ELSE patched
          /\ request' = Disturb([request EXCEPT ![r] = Idle], Around(todo))
    /\ UNCHANGED <<export, used, stocked>>

\* InventoryPostingService.post: stock comes to and goes from active leaves.
Post ==
    /\ \E l \in leaf :
          /\ Active(l)
          /\ stocked' \in {stocked \cup {l}, stocked \ {l}}
          /\ request' = Disturb(request, {l})
    /\ UNCHANGED <<masterVars, used, leaf, crossed, patched>>

LocationNext ==
    \/ \E r \in Request : \/ CreateLocation(r) \/ UpdateLocation(r) \/ DeactivateLocation(r)
                          \/ CheckPlace(r) \/ CountStock(r) \/ WriteLocation(r)
    \/ Post

=============================================================================
