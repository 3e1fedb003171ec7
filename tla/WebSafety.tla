------------------------------ MODULE WebSafety ------------------------------
(***************************************************************************)
(* What the web client and the sessions promise each other and the user.   *)
(***************************************************************************)
EXTENDS WebClient

\* lib/axios/client.ts shares one renewal among the calls of a tab
\* (refreshRequest): the server refuses a refresh token only when another request
\* with the same token was under way, or the session had been ended or lost.
RefusedHasCause ==
  \A r \in Requesters :
    request[r].kind = "refresh" /\ request[r].at = "refused" /\ request[r].token # 0 =>
      request[r].met \/ sessions[request[r].token].fates # {}

\* Over the chain of rotations: a session ended by the user, or renewed from one.
Ended == LET ended[s \in 0..Len(sessions)] ==
               IF s = 0 THEN FALSE
               ELSE LET p == sessions[s].parent IN
                    \/ sessions[s].fates \cap {"logout", "password"} # {}
                    \/ /\ p # 0 /\ ended[p]
                       /\ ~sessions[s].met /\ "lost" \notin sessions[p].fates
         IN ended

\* logout and changePassword (auth.service.ts) end what they name: no session lives
\* on that was renewed from an ended one, unless a request with the same token was
\* under way or the answer of a renewal had been lost.
EndedUnlessRaced == \A s \in DOMAIN sessions : Live(s) => ~Ended[s]

\* The dialogs disable their submit button until the answer is there and close on
\* success: one opening makes one document, and one more per answer that was lost.
DonePerOpening == \A o \in DOMAIN docs : docs[o].done <= 1 + docs[o].lost

\* The hooks fetch the lists again after a mutation: what is offered for a row is
\* refused only when the row moved since the list was fetched, and not by a
\* submission whose success the page was there to hear of; except that the list of
\* purchase orders does not tell of a draft receipt.
RefusedOnlyIfMoved ==
  \A c \in Calls :
    LET met == job[c].against IN
    job[c].on /\ call[c].at = "rejected" =>
      \/ met.version > job[c].known /\ ~(met.own /\ met.version <= job[c].told)
      \/ met.status = "CONFIRMED WITH DRAFT RECEIPT"
=============================================================================
