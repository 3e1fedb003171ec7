------------------------- MODULE OneDriveConnection -------------------------
(***************************************************************************)
(* What the connection with OneDrive promises.                             *)
(***************************************************************************)
EXTENDS OneDrive

DriveTypeOK ==
    /\ setting \in BOOLEAN /\ account \in BOOLEAN
    /\ cached \in Cached
    /\ authorization \in {Nothing, "STARTING", "CODE"}
    /\ {task, cancel} \subseteq Attempt \cup {Nothing}
    /\ cancelled \subseteq Attempt
    /\ flow \in [Attempt -> {"new", "requested", "code", "token", "drive", "root",
                         "ended", "lost"}]
    /\ runtimeError \in GraphError \cup {Nothing}
    /\ probe \in [pc : {"idle", "accounts", "drive", "save"}, metadata : BOOLEAN]
    /\ disconnecting \in {"idle", "accounts", "cache", "setting"}
    /\ page \in [code : StatusCode, account : BOOLEAN]
    /\ verified \in BOOLEAN /\ adrift \in BOOLEAN
    /\ left \in {"no", "going", "left"}

\* Connection metadata exists only if some attempt saw a personal drive before the
\* metadata was saved, however attempts, probes,
\* disconnects and restarts interleave (completeConnection).
VerifiedConnection == setting => verified

\* At most one device authorisation is in flight: a second start gets the code of
\* the first or is refused (startConnection).  A disconnect resets the service under
\* an attempt that it could not stop or that was begun meanwhile; from then on there
\* may be two, until the server restarts.
SingleFlow ==
    ~ adrift => Cardinality({a \in Attempt : Live(a)}) <= 1

\* One flow at a time, and only a drive that it saw is saved (startConnection,
\* completeConnection), out of well-formed state.
ConnectionSound == DriveTypeOK /\ VerifiedConnection /\ SingleFlow

\* After a disconnect during which nothing else was in progress there is no
\* metadata and no account, whatever the page asks and however often the server
\* restarts, until somebody connects again (disconnect).
DisconnectHolds == left = "left" => ~ setting /\ ~ HasAccount

\* A page that shows an authorisation in progress ends up showing something
\* else: every attempt ends, and the page keeps asking (finally of
\* startConnection, refetchInterval of useOneDriveStatus).
PageLeavesAuthorizing == page.code = "AUTHORIZING" ~> page.code # "AUTHORIZING"

=============================================================================
