----------------------------- MODULE DebtLedger -----------------------------
(***************************************************************************)
(* What settling promises: a document settles debts at most once, all of   *)
(* its lines together, and no debt is settled beyond what is still due.    *)
(***************************************************************************)
EXTENDS Integers

CONSTANTS Debt, Document,
          Original   \* Original[o]: the amount debt o was raised with

VARIABLES
    due,      \* what is still to be settled of a debt
    settled   \* settled[d]: what document d has settled, debt by debt

Unsettled == [o \in {} |-> 0]

Init ==
    /\ due = Original
    /\ settled = [d \in Document |-> Unsettled]

\* The lines a document settles are whatever it leaves in settled[d].
Settle(d) ==
    LET lines == settled'[d] IN
    /\ settled[d] = Unsettled
    /\ DOMAIN lines \subseteq Debt
    /\ \A o \in DOMAIN lines : lines[o] \in 1..due[o]
    /\ settled' = [settled EXCEPT ![d] = lines]
    /\ due' = [o \in Debt |-> IF o \in DOMAIN lines THEN due[o] - lines[o]
                                                    ELSE due[o]]

Next == \E d \in Document : Settle(d)

Spec == Init /\ [][Next]_<<due, settled>>

=============================================================================
