-------------------------------- MODULE MCWeb --------------------------------
EXTENDS WebSafety, TLC

\* A dialog and a button, which sends calls side by side, while the tabs ask
\* /auth, tokens expire and requests fail; every dialog and button while others work
\* on its row.
ButtonBudgets ==
  {[asks |-> 2, expiries |-> 2, faults |-> 0, openings |-> 0, elsewhere |-> 0],
   [asks |-> 2, expiries |-> 1, faults |-> 1, openings |-> 0, elsewhere |-> 0]}
DialogBudgets ==
  {[asks |-> 3, expiries |-> 2, faults |-> 0, openings |-> 1, elsewhere |-> 0],
   [asks |-> 1, expiries |-> 1, faults |-> 1, openings |-> 1, elsewhere |-> 0]}
ScreenBudget == [asks |-> 1, expiries |-> 0, faults |-> 1, openings |-> 2, elsewhere |-> 1]
BudgetsUsed == ButtonBudgets \cup DialogBudgets \cup {ScreenBudget}

\* Of screens that do the same one is enough.
Alike(s) == {x \in DOMAIN Screens : Screens[x] = Screens[s] /\ RowOf(x) = RowOf(s)}
Representatives == {CHOOSE x \in Alike(s) : TRUE : s \in DOMAIN Screens}

ScreensUsed(b) == CASE b \in ButtonBudgets -> {"postExpense"}
                     [] b \in DialogBudgets -> {"expense"}
                     [] OTHER -> Representatives

Symmetric == Permutations(Calls)
=============================================================================
