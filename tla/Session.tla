------------------------------- MODULE Session -------------------------------
(***************************************************************************)
(* The refresh sessions of the server (auth.service.ts, auth.guard.ts) and *)
(* the browser that holds their tokens: one cookie shared by the tabs, an  *)
(* access token in the memory of each tab, and the interceptor of          *)
(* lib/axios/client.ts that renews a refused one and sends the call again. *)
(*                                                                         *)
(* A session is a row of RefreshSession, its token its number.  The        *)
(* handlers of /auth read, write and answer in separate steps.  That a     *)
(* refresh token expires after thirty days is left out: it refuses the way *)
(* a revocation does.  A requester whose answer was lost asks again only   *)
(* when the server is done with the first request.                         *)
(***************************************************************************)
EXTENDS Naturals, Sequences, FiniteSets

CONSTANTS
  Tabs,         \* the tabs of the browser
  Calls,        \* the submissions of the tabs, each one call to the API at a time
  Budgets       \* bounds: how often the user asks /auth, a token expires, something
                \* fails; an instance may look at several combinations

NoCall == "no call"

ASSUME SessionBounds ==
  /\ Calls \cap Tabs = {} /\ NoCall \notin Calls \cup Tabs /\ IsFiniteSet(Calls)
  /\ \A b \in Budgets : b.asks \in Nat /\ b.expiries \in Nat /\ b.faults \in Nat

VARIABLES
  sessions,   \* RefreshSession; parent, fates and met are only for the properties
  cookie,     \* perp_refresh in the browser, 0 when there is none
  access,     \* per tab: the access token in memory
  shown,      \* per tab: the session query has data, the application is shown
  refreshing, \* per tab: refreshRequest, named by the call that started it
  request,    \* per tab or call: its request to /auth
  call,       \* per call: its present request to the API
  left        \* what is left of the budget

sessionVars == <<sessions, cookie, access, shown, refreshing, request, call, left>>

Requesters == Tabs \cup Calls

Idle == [kind |-> "none", at |-> "idle", token |-> 0, fresh |-> 0, met |-> FALSE,
         heard |-> TRUE]

NotCalled == [tab |-> NoCall, at |-> "idle", bearer |-> "none", retried |-> FALSE,
              awaits |-> NoCall, heard |-> TRUE]

NewSession(parent, met) ==
  [revoked |-> FALSE, parent |-> parent, fates |-> {}, met |-> met]

\* The browser holds a session of an earlier day; its tabs are being opened.
SessionInit ==
  /\ sessions = <<NewSession(0, FALSE)>>
  /\ cookie = 1
  /\ access = [t \in Tabs |-> "none"]
  /\ shown = [t \in Tabs |-> FALSE]
  /\ refreshing = [t \in Tabs |-> NoCall]
  /\ request = [r \in Requesters |-> Idle]
  /\ call = [c \in Calls |-> NotCalled]
  /\ left \in Budgets

TabOf(r) == IF r \in Tabs THEN r ELSE call[r].tab
InFlight == {r \in Requesters : request[r].at # "idle"}
Live(s) == s \in DOMAIN sessions /\ ~sessions[s].revoked

-----------------------------------------------------------------------------
(* The browser asks /auth.                                                 *)

\* Only for the properties: a request meets those in flight with its token;
\* renewals a tab listens to ought not to meet at all.
Meets(r, o) == /\ o \in InFlight
               /\ request[o].token = cookie
               /\ ~(r \in Calls /\ o \in Calls /\ TabOf(r) = TabOf(o) /\ request[o].heard)

Met(r) == [s \in DOMAIN sessions |->
  [sessions[s] EXCEPT !.met = @ \/ \E o \in Requesters : Meets(r, o) /\ request[o].fresh = s]]

\* request with the one r sends: the cookie goes with it.
Sent(r, kind) ==
  [o \in Requesters |->
     IF o = r THEN [Idle EXCEPT !.kind = kind, !.at = "sent", !.token = cookie,
                                !.met = \E x \in Requesters : Meets(r, x)]
     ELSE IF kind # "login" /\ Meets(r, o) THEN [request[o] EXCEPT !.met = TRUE]
     ELSE request[o]]

Spend(what) == left[what] > 0 /\ left' = [left EXCEPT ![what] = @ - 1]

Ask(t, kind) ==
  /\ request[t].at = "idle"
  /\ Spend("asks")
  /\ request' = Sent(t, kind)
  /\ sessions' = IF kind = "login" THEN sessions ELSE Met(t)
  /\ UNCHANGED <<cookie, access, shown, refreshing, call>>

\* App asks for a session when it is loaded; without one it shows the login page.
Load(t) == ~shown[t] /\ cookie # 0 /\ Ask(t, "refresh")
Login(t) == ~shown[t] /\ Ask(t, "login")
Logout(t) == shown[t] /\ Ask(t, "logout")

-----------------------------------------------------------------------------
(* The server.                                                             *)

Step(r, at) == request' = [request EXCEPT ![r].at = at]
ServerOnly == UNCHANGED <<cookie, access, shown, refreshing, call, left>>

\* refresh refuses a missing or a revoked session; login verifies the password.
Find(r) ==
  /\ request[r].at = "sent"
  /\ request[r].kind \in {"refresh", "login"}
  /\ Step(r, IF request[r].kind = "login" \/ Live(request[r].token)
             THEN "found" ELSE "refused")
  /\ UNCHANGED sessions
  /\ ServerOnly

\* refresh revokes by id, whatever happened to the session since it was found.
Revoke(r) ==
  /\ request[r].at = "found" /\ request[r].kind = "refresh"
  /\ sessions' = [sessions EXCEPT ![request[r].token].revoked = TRUE]
  /\ Step(r, "revoked")
  /\ ServerOnly

\* logout revokes the session of the cookie it was sent with, if that is live.
\* What is done stands when the record of it fails: the client is told of an error.
\* Mutant: the token is compared with another row.
EndsOther(r, s) == s = request[r].token - 1
Ends(r, s) == s = request[r].token

HandleLogout(r) ==
  /\ request[r].at = "sent" /\ request[r].kind = "logout"
  /\ sessions' = [s \in DOMAIN sessions |->
       [sessions[s] EXCEPT !.revoked = @ \/ Ends(r, s),
                           !.fates = IF s = request[r].token THEN @ \cup {"logout"} ELSE @]]
  /\ \/ Step(r, "answered") /\ UNCHANGED left
     \/ Step(r, "failed") /\ Spend("faults")
  /\ UNCHANGED <<cookie, access, shown, refreshing, call>>

CreateSession(r) ==
  /\ \/ request[r].at = "revoked"
     \/ request[r].at = "found" /\ request[r].kind = "login"
  /\ sessions' = Append(sessions,
       NewSession(IF request[r].kind = "login" THEN 0 ELSE request[r].token, request[r].met))
  /\ request' = [request EXCEPT ![r].at = "answered", ![r].fresh = Len(sessions) + 1]
  /\ ServerOnly

\* changePassword, one transaction.  No page calls it; the holder of an access
\* token may.
ChangePassword(t) ==
  /\ access[t] = "fresh"
  /\ \A s \in DOMAIN sessions : "password" \notin sessions[s].fates
  /\ sessions' = [s \in DOMAIN sessions |->
       IF Live(s) THEN [sessions[s] EXCEPT !.revoked = TRUE, !.fates = @ \cup {"password"}]
       ELSE sessions[s]]
  /\ request' = [r \in Requesters |-> [request[r] EXCEPT !.met = @ \/ r \in InFlight]]
  /\ ServerOnly

Lost(s) == [x \in DOMAIN sessions |->
              IF x = s THEN [sessions[x] EXCEPT !.fates = @ \cup {"lost"}] ELSE sessions[x]]

\* The server fails between two statements, or before the first of a logout.
Fail(r) ==
  /\ \/ request[r].at \in {"found", "revoked"}
     \/ request[r].at = "sent" /\ request[r].kind = "logout"
  /\ Spend("faults")
  /\ sessions' = IF request[r].at = "revoked" THEN Lost(request[r].token) ELSE sessions
  /\ Step(r, "failed")
  /\ UNCHANGED <<cookie, access, shown, refreshing, call>>

-----------------------------------------------------------------------------
(* The answers.                                                            *)

\* The calls that waited for the refresh of r.
Waiting(r) == {c \in Calls : call[c].at = "waiting" /\ call[c].awaits = r}

RefreshOver(r) == [t \in Tabs |-> IF refreshing[t] = r THEN NoCall ELSE refreshing[t]]

WaitingFail(r) ==
  call' = [c \in Calls |-> IF c \in Waiting(r) THEN [call[c] EXCEPT !.at = "failed"]
                          ELSE call[c]]

\* Without a new token the calls that waited fail; a page does not notice.  After a
\* logout that failed the application is shown as before.
Refused(r) ==
  /\ request[r].at \in {"refused", "failed"} /\ request[r].heard
  /\ request' = [request EXCEPT ![r] = Idle]
  /\ WaitingFail(r)
  /\ refreshing' = RefreshOver(r)
  /\ UNCHANGED <<sessions, cookie, access, shown, left>>

\* The timeout of the client: it hears nothing more, the server goes on.
TimesOut(r) ==
  /\ r \in InFlight /\ request[r].heard
  /\ Spend("faults")
  /\ request' = [request EXCEPT ![r].heard = FALSE]
  /\ WaitingFail(r)
  /\ refreshing' = RefreshOver(r)
  /\ UNCHANGED <<sessions, cookie, access, shown>>

\* The cookie is replaced for all tabs; the calls that waited go out again.
Accepted(r) ==
  /\ request[r].at = "answered" /\ request[r].kind # "logout" /\ request[r].heard
  /\ cookie' = request[r].fresh
  /\ access' = [access EXCEPT ![TabOf(r)] = "fresh"]
  /\ shown' = IF r \in Tabs THEN [shown EXCEPT ![r] = TRUE] ELSE shown
  /\ request' = [request EXCEPT ![r] = Idle]
  /\ call' = [c \in Calls |->
       IF c \in Waiting(r) THEN [call[c] EXCEPT !.at = "sent", !.bearer = "fresh"]
       ELSE call[c]]
  /\ refreshing' = RefreshOver(r)
  /\ UNCHANGED <<sessions, left>>

LoggedOut(t) ==
  /\ request[t].at = "answered" /\ request[t].kind = "logout" /\ request[t].heard
  /\ cookie' = 0
  /\ access' = [access EXCEPT ![t] = "none"]
  /\ shown' = [shown EXCEPT ![t] = FALSE]
  /\ request' = [request EXCEPT ![t] = Idle]
  /\ UNCHANGED <<sessions, refreshing, call, left>>

\* Nobody is left to hear the answer.
Unheard(r) ==
  /\ request[r].at \in {"refused", "failed", "answered"} /\ ~request[r].heard
  /\ sessions' = IF request[r].fresh # 0 THEN Lost(request[r].token) ELSE sessions
  /\ request' = [request EXCEPT ![r] = Idle]
  /\ UNCHANGED <<cookie, access, shown, refreshing, call, left>>

-----------------------------------------------------------------------------
(* Calls to the API, for the pages that make them.                         *)

\* The request interceptor: the token of the tab goes with the call.
Called(c, t) == [NotCalled EXCEPT !.tab = t, !.at = "sent", !.bearer = access[t]]

\* auth.guard: a revocation does not reach an access token.
Admitted(c) == call[c].at = "sent" /\ call[c].bearer = "fresh"

\* Mutant: every refused call starts a refresh of its own.
AlwaysStarts(t) == TRUE
StartsRefresh(t) == refreshing[t] = NoCall

\* The guard refuses with 401: one refresh for all calls of the tab, each call
\* is tried once more.
Unauthorized(c) ==
  LET t == call[c].tab
      renews == ~call[c].retried /\ call[c].heard /\ StartsRefresh(t)
  IN
  /\ call[c].at = "sent" /\ call[c].bearer # "fresh"
  /\ renews => request[c].at = "idle"
  /\ request' = IF renews THEN Sent(c, "refresh") ELSE request
  /\ sessions' = IF renews THEN Met(c) ELSE sessions
  /\ refreshing' = IF renews THEN [refreshing EXCEPT ![t] = c] ELSE refreshing
  /\ call' = [call EXCEPT ![c] =
       IF @.retried \/ ~@.heard THEN [@ EXCEPT !.at = "failed"]
       ELSE [@ EXCEPT !.at = "waiting", !.retried = TRUE,
                      !.awaits = IF renews THEN c ELSE refreshing[t]]]
  /\ UNCHANGED <<cookie, access, shown, left>>

Expire(t) ==
  /\ access[t] = "fresh"
  /\ Spend("expiries")
  /\ access' = [access EXCEPT ![t] = "expired"]
  /\ UNCHANGED <<sessions, cookie, shown, refreshing, request, call>>

\* The browser forgets the memory of the tab; the server goes on.
Forgotten(t) ==
  /\ request' = [r \in Requesters |->
       IF TabOf(r) = t /\ r \in InFlight THEN [request[r] EXCEPT !.heard = FALSE] ELSE request[r]]
  /\ call' = [c \in Calls |->
       IF call[c].tab # t THEN call[c]
       ELSE [call[c] EXCEPT !.heard = FALSE, !.at = IF @ = "waiting" THEN "failed" ELSE @]]
  /\ access' = [access EXCEPT ![t] = "none"]
  /\ shown' = [shown EXCEPT ![t] = FALSE]
  /\ refreshing' = [refreshing EXCEPT ![t] = NoCall]

Reload(t) ==
  /\ shown[t]
  /\ Spend("faults")
  /\ Forgotten(t)
  /\ UNCHANGED <<sessions, cookie>>

SessionNext ==
  \/ \E t \in Tabs : \/ Load(t) \/ Login(t) \/ Logout(t) \/ LoggedOut(t)
                     \/ ChangePassword(t) \/ Expire(t)
  \/ \E r \in Requesters : \/ Find(r) \/ Revoke(r) \/ CreateSession(r) \/ Fail(r)
                           \/ Refused(r) \/ Accepted(r) \/ Unheard(r)
                           \/ TimesOut(r)
  \/ \E t \in Tabs : HandleLogout(t)
  \/ \E c \in Calls : Unauthorized(c)
=============================================================================
