\* Two tabs of one browser; the user submits in one of them.
CONSTANTS
  Tabs = {t1, t2}
  Pages = {t1}
  Calls = {c1, c2}
  Budgets <- BudgetsUsed
  ChosenScreens <- ScreensUsed
SPECIFICATION WebSpec
SYMMETRY Symmetric
INVARIANTS
  RefusedHasCause
  EndedUnlessRaced
  DonePerOpening
  RefusedOnlyIfMoved
\* With the bounds used up nothing may be left to do.
CHECK_DEADLOCK FALSE
