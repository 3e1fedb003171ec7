------------------------------ MODULE WebClient ------------------------------
(***************************************************************************)
(* The pages of the web client over the browser of Session: one dialog or  *)
(* row button of Screens, the row it is about, the list the page shows,    *)
(* the form the user has open and the submissions under way.               *)
(*                                                                         *)
(* A submission is a chain of calls; what a call gets from the server is   *)
(* decided when it is handled, what the page makes of it when the answer   *)
(* is heard.  The hook of a mutation fetches the lists again before the    *)
(* chain goes on.  That this fetch fails, and what a form contains, is     *)
(* left out; that the user goes to another page of the tab is an outcome   *)
(* of what it changes, the closing of the dialog and what a success finds. *)
(***************************************************************************)
EXTENDS Session, Screens

CONSTANTS
  Pages,         \* the tabs in which the user submits
  ChosenScreens(_) \* the dialogs and buttons looked at with a budget, which bounds here
                   \* the openings of dialogs and the moves of the row by others too

ASSUME WebBounds ==
  /\ Pages \subseteq Tabs
  /\ \A b \in Budgets : /\ ChosenScreens(b) \subseteq DOMAIN Screens
                        /\ b.openings \in Nat /\ b.elsewhere \in Nat

VARIABLES
  screen, \* the dialog or button
  row,    \* status and version; own and told (per page) are only for the properties
  view,   \* per page: status and version of the row in its list
  form,   \* per page: the dialog that is open; known and told are only for the properties
  docs,   \* per opening: the documents done and the answers lost
  job     \* per call: the submission it serves

pageVars == <<screen, row, view, form, docs, job>>
webVars == <<sessionVars, pageVars>>

Asked == Screens[screen]
NoRow == [status |-> "NONE", version |-> 0, own |-> FALSE, told |-> [t \in Pages |-> 0]]
Unknown == [status |-> "UNKNOWN", version |-> 0]
Closed == [open |-> 0, known |-> 0, told |-> 0, saved |-> FALSE]
NoJob == [on |-> FALSE, opening |-> 0, step |-> 0, known |-> 0, told |-> 0, moved |-> 0,
          since |-> 0, against |-> NoRow]

WebInit ==
  /\ SessionInit
  /\ screen \in ChosenScreens(left)
  /\ \E s \in Statuses(screen) :
       row = [NoRow EXCEPT !.status = s, !.version = 1]
  /\ view = [t \in Pages |-> Unknown]
  /\ form = [t \in Pages |-> Closed]
  /\ docs = <<>>
  /\ job = [c \in Calls |-> NoJob]

-----------------------------------------------------------------------------
(* The page.                                                               *)

Current == [status |-> Seen(row.status), version |-> row.version]

\* The list is fetched, or fetched again when it is stale.
Fetch(t) ==
  /\ shown[t] /\ access[t] = "fresh"
  /\ view[t] # Current
  /\ view' = [view EXCEPT ![t] = Current]
  /\ UNCHANGED <<sessionVars, screen, row, form, docs, job>>

Offered(t) == Asked.offered = NoTarget \/ view[t].status \in Asked.offered

OpenForm(t) ==
  /\ shown[t] /\ Asked.dialog /\ Offered(t)
  /\ form[t].open = 0
  /\ Spend("openings")
  /\ docs' = Append(docs, [done |-> 0, lost |-> 0])
  /\ form' = [form EXCEPT ![t] =
       [open |-> Len(docs) + 1, known |-> view[t].version, told |-> row.told[t], saved |-> FALSE]]
  /\ UNCHANGED <<sessions, cookie, access, shown, refreshing, request, call,
                 screen, row, view, job>>

\* Closing does not stop the submission.
CloseForm(t) ==
  /\ form[t].open # 0
  /\ form' = [form EXCEPT ![t] = Closed]
  /\ UNCHANGED <<sessionVars, screen, row, view, docs, job>>

Free(c) == ~job[c].on /\ call[c].at = "idle"

Send(c, t, j) ==
  /\ call' = [call EXCEPT ![c] = Called(c, t)]
  /\ job' = [job EXCEPT ![c] = j]
  /\ UNCHANGED <<sessions, cookie, access, shown, refreshing, request, left>>

\* The submit button is disabled while the dialog waits for an answer.
\* Mutant: it is not.
AlwaysSubmittable(o) == o # 0
Submittable(o) == o # 0 /\ \A c \in Calls : ~(job[c].on /\ call[c].heard /\ job[c].opening = o)

Submit(t, c) ==
  /\ Submittable(form[t].open) /\ Free(c)
  /\ Asked.rechecks => Offered(t)
  /\ Send(c, t, [NoJob EXCEPT !.on = TRUE, !.opening = form[t].open,
                              !.step = IF form[t].saved THEN 2 ELSE 1,
                              !.since = row.version,
                              !.known = form[t].known, !.told = form[t].told])
  /\ UNCHANGED <<screen, row, view, form, docs>>

Click(t, c) ==
  /\ shown[t] /\ ~Asked.dialog /\ Offered(t)
  /\ Free(c)
  /\ Send(c, t, [NoJob EXCEPT !.on = TRUE, !.step = 1,
                              !.known = view[t].version, !.told = row.told[t]])
  /\ UNCHANGED <<screen, row, view, form, docs>>

-----------------------------------------------------------------------------
(* The server.                                                             *)

CallOf(c) == Asked.calls[job[c].step]
LastOf(c) == job[c].step = Len(Asked.calls)

\* A created document is finished as it was checked, unless the row moved since.
Accepts(c) == IF CallOf(c) = "finish" THEN TRUE ELSE row.status \in RowOf(screen).accepts
Refuses(c) == IF CallOf(c) = "finish" THEN row.version # job[c].since
              ELSE row.status \notin RowOf(screen).accepts

\* A status is given to the row; a document that takes effect may move it.  The
\* inspection moves its return with its draft.
Outcomes(c) ==
  LET moves == {m[2] : m \in {n \in RowOf(screen).moves : n[1] = row.status}} IN
  CASE CallOf(c) \notin {"create", "finish", "update"} -> {CallOf(c)}
    [] screen = "inspection" -> IF CallOf(c) = "create" THEN moves ELSE {row.status}
    [] CallOf(c) # "update" /\ LastOf(c) -> moves \cup {row.status}
    [] OTHER -> {row.status}

Moved(to, own) ==
  IF to = row.status THEN row
  ELSE [status |-> to, version |-> row.version + 1, own |-> own, told |-> row.told]

Answer(c, at) == call' = [call EXCEPT ![c].at = at]

Handle(c) ==
  /\ Admitted(c) /\ job[c].on
  /\ \/ /\ Accepts(c)
        /\ \E to \in Outcomes(c) :
             /\ row' = Moved(to, TRUE)
             /\ job' = [job EXCEPT ![c].moved = IF to # row.status THEN row.version + 1 ELSE @,
                                   ![c].since = row'.version]
        /\ docs' = IF LastOf(c) /\ job[c].opening # 0
                   THEN [docs EXCEPT ![job[c].opening].done = @ + 1] ELSE docs
        /\ Answer(c, "accepted")
     \/ /\ Refuses(c)
        /\ job' = [job EXCEPT ![c].against = row]
        /\ Answer(c, "rejected")
        /\ UNCHANGED <<row, docs>>
  /\ UNCHANGED <<sessions, cookie, access, shown, refreshing, request, left,
                 screen, view, form>>

\* Others work on the row.
Elsewhere ==
  /\ Spend("elsewhere")
  /\ \E m \in RowOf(screen).moves \cup RowOf(screen).cancels :
       m[1] = row.status /\ row' = Moved(m[2], FALSE)
  /\ UNCHANGED <<sessions, cookie, access, shown, refreshing, request, call,
                 screen, view, form, docs, job>>

-----------------------------------------------------------------------------
(* The answers.                                                            *)

\* Mutant: the hook forgets to fetch the lists again.
NeverRefreshes(t) == view[t]
Refreshes(t) == Current

\* The page is there to hear of it: the lists it shows are fetched again.
Heard(c) ==
  LET t == call[c].tab IN
  /\ shown[t]
  /\ view' = [view EXCEPT ![t] = Refreshes(t)]
  /\ row' = IF job[c].moved = row.version THEN [row EXCEPT !.told[t] = row.version] ELSE row

\* The user went to another page, which closes the dialog: a list that is not
\* mounted is marked stale, and fetched when the user comes back.
Away(c) == form[call[c].tab].open = 0 /\ UNCHANGED <<view, row>>

\* What a success makes of the dialog that is open by now.  It is the one that was
\* submitted, also when it was closed and opened again, unless the user left the
\* page in between.
Reached(c) ==
  LET t == call[c].tab
      over == IF LastOf(c) THEN Closed
              ELSE [form[t] EXCEPT !.saved = @ \/ (Asked.remembers /\ form[t].open # 0)]
  IN
  {over} \cup (IF form[t].open = job[c].opening THEN {} ELSE {form[t]})

\* The next call of the chain, or the end.
Succeeded(c) ==
  /\ job[c].on /\ call[c].at = "accepted" /\ call[c].heard
  /\ Heard(c) \/ Away(c)
  /\ \E f \in Reached(c) : form' = [form EXCEPT ![call[c].tab] = f]
  /\ IF LastOf(c)
     THEN /\ call' = [call EXCEPT ![c] = NotCalled]
          /\ job' = [job EXCEPT ![c] = NoJob]
          /\ UNCHANGED <<sessions, cookie, access, shown, refreshing, request, left>>
     ELSE Send(c, call[c].tab, [job[c] EXCEPT !.step = @ + 1])
  /\ UNCHANGED <<screen, docs>>

\* A message is shown; the dialog stays open and can be submitted again.
Failed(c) ==
  /\ job[c].on /\ call[c].at \in {"rejected", "failed"}
  /\ call' = [call EXCEPT ![c] = NotCalled]
  /\ job' = [job EXCEPT ![c] = NoJob]
  /\ UNCHANGED <<sessions, cookie, access, shown, refreshing, request, left,
                 screen, row, view, form, docs>>

\* The timeout of the client, or the network: the page is told of an error, the
\* server may still handle the call.
LoseAnswer(c) ==
  /\ job[c].on /\ call[c].heard /\ call[c].at \in {"sent", "accepted", "rejected"}
  /\ Spend("faults")
  /\ call' = [call EXCEPT ![c].heard = FALSE]
  /\ docs' = IF job[c].opening # 0
             THEN [docs EXCEPT ![job[c].opening].lost = @ + 1] ELSE docs
  /\ UNCHANGED <<sessions, cookie, access, shown, refreshing, request,
                 screen, row, view, form, job>>

\* Nobody hears that the server accepted the call.
Drop(c) ==
  /\ job[c].on /\ call[c].at = "accepted" /\ ~call[c].heard
  /\ call' = [call EXCEPT ![c] = NotCalled]
  /\ job' = [job EXCEPT ![c] = NoJob]
  /\ UNCHANGED <<sessions, cookie, access, shown, refreshing, request, left,
                 screen, row, view, form, docs>>

\* Without a session the pages and their dialogs are gone, what was fetched stays.
LeavePages == form' = [t \in Pages |-> IF shown'[t] THEN form[t] ELSE Closed]

\* What the page had fetched goes with the memory of its tab.
ReloadTab(t) ==
  /\ Reload(t)
  /\ view' = [p \in Pages |-> IF p = t THEN Unknown ELSE view[p]]
  /\ LeavePages
  /\ UNCHANGED <<screen, row, docs, job>>

WebNext ==
  \/ /\ SessionNext /\ LeavePages
     /\ UNCHANGED <<screen, row, view, docs, job>>
  \/ \E t \in Pages : Fetch(t) \/ OpenForm(t) \/ CloseForm(t)
  \/ \E t \in Pages, c \in Calls : Submit(t, c) \/ Click(t, c)
  \/ \E c \in Calls : Handle(c) \/ Succeeded(c) \/ Failed(c) \/ LoseAnswer(c) \/ Drop(c)
  \/ Elsewhere
  \/ \E t \in Tabs : ReloadTab(t)

WebSpec == WebInit /\ [][WebNext]_webVars
=============================================================================
