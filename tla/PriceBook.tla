------------------------------ MODULE PriceBook ------------------------------
(***************************************************************************)
(* The prices of SalesService and PurchaseService, which keep their rows   *)
(* the same way: createPrice, updatePrice and, for sales, resolvePrice.    *)
(*                                                                         *)
(* A key is what a price is for: a sku with a customer, a channel, both or *)
(* neither; or a sku with its supplier, buyer and purchase channel.        *)
(***************************************************************************)
EXTENDS MasterData

CONSTANTS
    Price,         \* bound: the prices that may exist
    FirstPrices,   \* prices that exist from the start
    Key,           \* the keys of the configuration
    KeyRows,       \* the rows of any key that have to be active
    Time, Quantity \* bounds: moments of the calendar; minimum quantities

VARIABLES
    prices,   \* None or a row of SalesPrice, PurchasePrice
    raced     \* only for the properties: prices written after a check that the write
              \* of another had made obsolete

\* The order in which findPrice looks: customer and channel, customer, channel, general.
Specificity == <<"customer+channel", "customer", "channel", "general">>

Unlimited == None

\* Two periods, from inclusive, to exclusive.
Before(time, to) == to = Unlimited \/ time < to
Overlap(p, q) == Before(p.from, q.to) /\ Before(q.from, p.to)

\* The prices of the start were checked against each other.
ASSUME PriceBookAssumption ==
    /\ None \notin ToSet(Specificity)
    /\ FirstPrices = [p \in Price |-> FirstPrices[p]]
    /\ \A p \in Price : \A q \in Price \ {p} :
          /\ FirstPrices[p] # None /\ FirstPrices[q] # None
          /\ FirstPrices[p].key = FirstPrices[q].key
          /\ FirstPrices[p].status = "ACTIVE" /\ FirstPrices[q].status = "ACTIVE"
          => ~ Overlap(FirstPrices[p], FirstPrices[q])

Effective(p, key, query) ==
    /\ p # None /\ p.key = key /\ p.status = "ACTIVE"
    /\ p.min <= query.quantity
    /\ p.from <= query.at /\ Before(query.at, p.to)

EffectivePrices(key, query, book) == {p \in Price : Effective(book[p], key, query)}

PriceInit == prices = FirstPrices /\ raced = {}

Period == {p \in Time \X (Time \cup {Unlimited}) : Before(p[1], p[2])}

\* assertNoPriceOverlap: the minimum quantity is not asked for.
Overlaps(new, p) == /\ prices[p] # None /\ prices[p].key = new.key
                    /\ prices[p].status = "ACTIVE" /\ Overlap(new, prices[p])

\* createPrice: the references are active, the period is a period, nothing overlaps.
CreatePrice(r) ==
    /\ Ready(r)
    /\ \E key \in Key : \E period \in Period : \E min \in Quantity :
          LET new == [key |-> key, from |-> period[1], to |-> period[2], min |-> min,
                      status |-> "ACTIVE"]
          IN /\ \A row \in KeyRows[key] : Active(row)
             /\ ~ \E p \in Price : Overlaps(new, p)
             /\ Begin(r, [op |-> "createPrice", new |-> new, obsolete |-> FALSE])
             /\ UNCHANGED <<prices, raced>>

\* updatePrice: an absent period is the one that was read, other absent fields stay as
\* they are at the write; an end cannot be taken away.  The check does not ask for the
\* status that the row has or gets.
UpdatePrice(r) ==
    /\ Ready(r)
    /\ \E p \in Price : \E period \in Period : \E min \in Quantity \cup {None} :
       \E status \in Status \cup {"keep"} :
          LET new == [key |-> prices[p].key, from |-> period[1], to |-> period[2],
                      min |-> min, status |-> status]
          IN /\ prices[p] # None
             /\ prices[p].to # Unlimited => period[2] # Unlimited
             /\ ~ \E q \in Price \ {p} : Overlaps(new, q)
             /\ Begin(r, [op |-> "updatePrice", price |-> p, new |-> new, obsolete |-> FALSE])
             /\ UNCHANGED <<prices, raced>>

Beats(key, other) ==
    \E i, j \in DOMAIN Specificity :
        i < j /\ Specificity[i] = key /\ Specificity[j] = other

\* What a write does to the requests in progress, noted only for the properties:
\* the check of another writer is obsolete, and a resolution keeps the keys that
\* had an effective price all the time.
Notice(requests, book) ==
    [r \in Request |->
        CASE requests[r].op \in {"createPrice", "updatePrice"} ->
                 [requests[r] EXCEPT !.obsolete = TRUE]
          [] requests[r].op = "resolve" ->
                 [requests[r] EXCEPT !.steady =
                     {key \in @ : EffectivePrices(key, requests[r].query, book) # {}}]
          [] OTHER -> requests[r]]

Store(r, p) ==
    LET new  == request[r].new
        kept == [new EXCEPT !.min = IF @ = None THEN prices[p].min ELSE @,
                            !.status = IF @ = "keep" THEN prices[p].status ELSE @]
        book == [prices EXCEPT ![p] = kept]
    IN /\ prices' = book
       /\ raced' = IF request[r].obsolete THEN raced \cup {p} ELSE raced
       /\ request' = Notice([request EXCEPT ![r] = Idle], book)

WritePrice(r) ==
    /\ \/ /\ request[r].op = "createPrice"
          /\ \E p \in Price : prices[p] = None
          /\ Store(r, CHOOSE p \in Price : prices[p] = None)
       \/ request[r].op = "updatePrice" /\ Store(r, request[r].price)
    /\ UNCHANGED used

\* resolvePrice looks at one key after the other, without a customer from the third.
FirstPlace(query) == IF query.customer THEN 1 ELSE 3

Candidates(query) == {Specificity[n] : n \in FirstPlace(query)..4}

Resolve(r) ==
    /\ Ready(r)
    /\ \E query \in [customer : BOOLEAN, quantity : Quantity, at : Time] :
          /\ \A row \in KeyRows[IF query.customer THEN "customer+channel" ELSE "channel"] :
                Active(row)
          /\ Begin(r, [op |-> "resolve", query |-> query, next |-> FirstPlace(query),
                       steady |-> {key \in Key \cap Candidates(query) :
                                     EffectivePrices(key, query, prices) # {}}])
          /\ UNCHANGED <<prices, raced>>

\* Mutant: the general price is asked for first.
GeneralFirst(n) == Specificity[5 - n]

Candidate(n) == Specificity[n]

\* One findFirst of findPrice.  Which of several prices of a key it takes is not told
\* apart.
LookUp(r) ==
    /\ request[r].op = "resolve"
    /\ LET next  == request[r].next
           key   == Candidate(next)
           found == EffectivePrices(key, request[r].query, prices)
       IN request' = [request EXCEPT ![r] =
             IF found = {} /\ next < 4 THEN [@ EXCEPT !.next = next + 1]
             ELSE [op |-> "resolved", key |-> IF found = {} THEN None ELSE key,
                   steady |-> @.steady]]
    /\ UNCHANGED <<prices, raced, used>>

Answer(r) ==
    /\ request[r].op = "resolved"
    /\ End(r)
    /\ UNCHANGED <<prices, raced, used>>

PriceNext ==
    \E r \in Request : \/ CreatePrice(r) \/ UpdatePrice(r) \/ WritePrice(r)
                       \/ Resolve(r) \/ LookUp(r) \/ Answer(r)

=============================================================================
