---------------------------- MODULE StockLedger -----------------------------
(***************************************************************************)
(* What the posting kernel promises its callers: a stock ledger in which a *)
(* document is posted at most once, wholly or not at all, and no posting   *)
(* leaves a cell with less than nothing on hand.                           *)
(***************************************************************************)
EXTENDS Integers

CONSTANTS Cell, Doc,
          Net     \* Net[d][c]: what document d moves in cell c, all its lines together

VARIABLES onHand, posted

Init ==
    /\ onHand = [c \in Cell |-> 0]
    /\ posted = {}

Post(d) ==
    /\ d \notin posted
    /\ posted' = posted \cup {d}
    /\ onHand' = [c \in Cell |-> onHand[c] + Net[d][c]]
    /\ \A c \in Cell : onHand'[c] >= 0

Next == \E d \in Doc : Post(d)

Spec == Init /\ [][Next]_<<onHand, posted>>

=============================================================================
