------------------------------ MODULE OneDrive ------------------------------
(***************************************************************************)
(* OneDriveService, the MSAL cache plugin and the settings page: the drive *)
(* is connected by a device code, asked for its state, and disconnected.   *)
(*                                                                         *)
(* MICROSOFT_CLIENT_ID is set: without it every operation refuses.  The    *)
(* service keeps its state in memory and runs other requests between two   *)
(* awaits; an attempt to authorise runs on in the background after the     *)
(* request that began it was answered.  MSAL and Graph are external: they  *)
(* answer, refuse or fail.                                                 *)
(***************************************************************************)
EXTENDS Integers, FiniteSets

CONSTANTS
    Attempt,      \* bound: authorisations that users may begin
    MaxRestarts,  \* bound: how often the server restarts, here or on another machine
    Nothing

ASSUME OneDriveAssumption ==
    /\ IsFiniteSet(Attempt)
    /\ MaxRestarts \in Nat
    /\ Nothing \notin Attempt

VARIABLES
    setting,        \* the connection metadata is in the database
    cached,         \* the encrypted cache in the database
    account,        \* the cache of MSAL in memory holds an account
    authorization,  \* authorizationState: Nothing, "STARTING" or "CODE"
    task,           \* authorizationTask, by its attempt
    cancel,         \* the attempt that cancelDeviceCode would cancel
    cancelled,      \* attempts with deviceRequest.cancel
    flow,           \* where each attempt is
    runtimeError,   \* lastRuntimeError
    probe,          \* a status request in progress
    disconnecting,  \* a disconnect request in progress
    page,           \* what the settings page shows
    restarts,
    verified,       \* only for the properties: somebody saw a personal drive
    adrift,         \* only for the properties: a disconnect has let go of an attempt
    left            \* only for the properties: a disconnect without attempts in progress
                    \* is "going" or has "left", and nothing was begun since

database == <<setting, cached>>
service == <<account, authorization, task, cancel, runtimeError>>
msal == <<cancelled, flow>>
ghosts == <<verified, adrift, left>>
driveVars == <<database, service, msal, probe, disconnecting, page, restarts, ghosts>>

GraphError == {"REAUTH_REQUIRED", "GRAPH_UNREACHABLE", "STORAGE_FULL", "GRAPH_ERROR"}

StatusCode == {"NOT_CONNECTED", "AUTHORIZING", "CONNECTED", "REAUTH_REQUIRED",
               "GRAPH_UNREACHABLE", "STORAGE_FULL"}

\* "NONE": no row; "EMPTY", "ACCOUNT": what was serialised; "FOREIGN": the row
\* was encrypted on another machine, decrypt throws.
Cached == {"NONE", "EMPTY", "ACCOUNT", "FOREIGN"}

IdleProbe == [pc |-> "idle", metadata |-> FALSE]

\* The server starts without a connection or with the one of an earlier run.
DriveInit ==
    /\ setting \in BOOLEAN /\ verified = setting
    /\ cached = IF setting THEN "ACCOUNT" ELSE "NONE"
    /\ account = FALSE
    /\ authorization = Nothing /\ task = Nothing /\ cancel = Nothing
    /\ cancelled = {} /\ flow = [a \in Attempt |-> "new"]
    /\ runtimeError = Nothing
    /\ probe = IdleProbe /\ disconnecting = "idle"
    /\ page = [code |-> "NOT_CONNECTED", account |-> FALSE]
    /\ restarts = 0
    /\ adrift = FALSE /\ left = "no"

(***************************************************************************)
(* The cache of MSAL and its plugin.                                       *)
(***************************************************************************)

\* beforeCacheAccess throws for a row that cannot be decrypted.
CacheReadable == cached # "FOREIGN"

\* getAllAccounts, after beforeCacheAccess loaded the row if there is one.
HasAccount == IF cached = "NONE" THEN account ELSE cached = "ACCOUNT"

\* afterCacheAccess writes the cache that has changed.
CacheAccount == account' = TRUE /\ cached' = "ACCOUNT"

RemoveAccounts ==
    /\ account' = FALSE
    /\ cached' = IF HasAccount THEN "EMPTY" ELSE cached

(***************************************************************************)
(* Calls of Graph.  accessToken refuses before the call without a usable   *)
(* account, and that error is not kept; every other error is.              *)
(***************************************************************************)

GraphMayAnswer == CacheReadable /\ HasAccount

GraphRefuses(e) ==
    \/ e = "REAUTH_REQUIRED" /\ ~ GraphMayAnswer /\ UNCHANGED runtimeError
    \/ GraphMayAnswer /\ e \in GraphError /\ runtimeError' = e

(***************************************************************************)
(* startConnection and what runs on in the background.                     *)
(***************************************************************************)

Live(a) == flow[a] \notin {"new", "ended", "lost"}

\* Mutant: a start does not ask for the task, only for the code.
StartAgain(a) ==
    /\ flow[a] = "new"
    /\ authorization # "CODE"
    /\ authorization' = "STARTING" /\ task' = a /\ cancel' = a
    /\ flow' = [flow EXCEPT ![a] = "requested"]
    /\ left' = "no"
    /\ UNCHANGED <<database, account, runtimeError, cancelled, probe, disconnecting,
                   page, restarts, verified, adrift>>

\* A start while a code waits is answered with that code, and one while a task
\* runs is refused; neither changes the service.
Start(a) ==
    /\ flow[a] = "new"
    /\ authorization # "CODE"
    /\ task = Nothing
    /\ authorization' = "STARTING" /\ task' = a /\ cancel' = a
    /\ flow' = [flow EXCEPT ![a] = "requested"]
    /\ left' = "no"
    /\ UNCHANGED <<database, account, runtimeError, cancelled, probe, disconnecting,
                   page, restarts, verified, adrift>>

\* deviceCodeCallback does not ask whether the attempt is still the current one.
CodeArrives(a) ==
    /\ flow[a] = "requested"
    /\ flow' = [flow EXCEPT ![a] = "code"]
    /\ authorization' = "CODE"
    /\ UNCHANGED <<database, account, task, cancel, runtimeError, cancelled, probe,
                   disconnecting, page, restarts, ghosts>>

\* The user grants, and MSAL caches the account.  A poll that is under way when
\* the flag is set may still succeed.
TokenArrives(a) ==
    /\ flow[a] = "code"
    /\ CacheReadable
    /\ CacheAccount
    /\ flow' = [flow EXCEPT ![a] = "token"]
    /\ UNCHANGED <<setting, authorization, task, cancel, runtimeError, cancelled, probe,
                   disconnecting, page, restarts, ghosts>>

\* finally: whatever attempt is the current one by now.
Finally == authorization' = Nothing /\ task' = Nothing /\ cancel' = Nothing

AttemptEnds(a) == flow' = [flow EXCEPT ![a] = "ended"] /\ Finally

\* Mutant: a failure leaves the state as it is, only a success resets it.
FailsWithoutReset(a) ==
    /\ flow[a] \in {"requested", "code"}
    /\ flow' = [flow EXCEPT ![a] = "ended"]
    /\ runtimeError' \in GraphError
    /\ UNCHANGED <<database, account, authorization, task, cancel, cancelled, probe,
                   disconnecting, page, restarts, ghosts>>

\* catch: the code expired or was refused, the request was cancelled, MSAL or the
\* network failed.
AuthorizationFails(a) ==
    /\ flow[a] \in {"requested", "code"}
    /\ AttemptEnds(a)
    /\ runtimeError' \in GraphError
    /\ UNCHANGED <<database, account, cancelled, probe, disconnecting, page, restarts, ghosts>>

\* The user grants, but MSAL loads the cache before it adds the account, and the
\* row cannot be decrypted: the grant is lost.
GrantIsLost(a) ==
    /\ flow[a] = "code"
    /\ ~ CacheReadable
    /\ flow' = [flow EXCEPT ![a] = "lost"] /\ Finally
    /\ runtimeError' = "REAUTH_REQUIRED"
    /\ UNCHANGED <<database, account, cancelled, probe, disconnecting, page, restarts, ghosts>>

\* completeConnection: the drive has to be a personal one.
GetDrive(a) ==
    /\ flow[a] = "token"
    /\ GraphMayAnswer
    /\ \/ /\ flow' = [flow EXCEPT ![a] = "drive"]
          /\ verified' = TRUE
          /\ UNCHANGED service
       \/ /\ AttemptEnds(a)
          /\ runtimeError' = "GRAPH_ERROR"
          /\ UNCHANGED <<account, verified>>
    /\ UNCHANGED <<database, cancelled, probe, disconnecting, page, restarts, adrift, left>>

\* findOrCreateRootFolder
RootFolder(a) ==
    /\ flow[a] = "drive"
    /\ GraphMayAnswer
    /\ flow' = [flow EXCEPT ![a] = "root"]
    /\ UNCHANGED <<database, service, cancelled, probe, disconnecting, page, restarts, ghosts>>

\* Graph refuses or fails, or the account is gone, or the database fails.
CompletionFails(a) ==
    /\ flow[a] \in {"token", "drive", "root"}
    /\ AttemptEnds(a)
    /\ runtimeError' \in GraphError
    /\ UNCHANGED <<database, account, cancelled, probe, disconnecting, page, restarts, ghosts>>

\* saveConnection
SaveConnection(a) ==
    /\ flow[a] = "root"
    /\ setting' = TRUE
    /\ runtimeError' = Nothing
    /\ AttemptEnds(a)
    /\ UNCHANGED <<cached, account, cancelled, probe, disconnecting, page, restarts, ghosts>>

(***************************************************************************)
(* status, which the page asks for every 2 or 30 seconds.                  *)
(***************************************************************************)

\* The page renders the answer.
Answers(code, metadata) == probe' = IdleProbe /\ page' = [code |-> code, account |-> metadata]

StatusAuthorizing ==
    /\ probe.pc = "idle"
    /\ authorization # Nothing
    /\ Answers("AUTHORIZING", FALSE)
    /\ UNCHANGED <<database, service, msal, disconnecting, restarts, ghosts>>

StatusReads ==
    /\ probe.pc = "idle"
    /\ authorization = Nothing
    /\ probe' = [pc |-> "accounts", metadata |-> setting]
    /\ UNCHANGED <<database, service, msal, disconnecting, page, restarts, ghosts>>

StatusAccounts ==
    /\ probe.pc = "accounts"
    /\ \/ ~ CacheReadable /\ Answers("REAUTH_REQUIRED", probe.metadata)
       \/ /\ CacheReadable /\ ~ HasAccount /\ ~ probe.metadata
          /\ Answers("NOT_CONNECTED", FALSE)
       \/ CacheReadable /\ HasAccount # probe.metadata /\ Answers("REAUTH_REQUIRED", probe.metadata)
       \/ /\ CacheReadable /\ HasAccount /\ probe.metadata
          /\ probe' = [probe EXCEPT !.pc = "drive"]
          /\ UNCHANGED page
    /\ UNCHANGED <<database, service, msal, disconnecting, restarts, ghosts>>

StatusDrive ==
    /\ probe.pc = "drive"
    /\ \/ /\ GraphMayAnswer
          /\ probe' = [probe EXCEPT !.pc = "save"]
          /\ UNCHANGED <<page, runtimeError>>
       \/ \E e \in GraphError :
             /\ GraphRefuses(e)
             /\ Answers(IF e = "GRAPH_ERROR" THEN "GRAPH_UNREACHABLE" ELSE e, TRUE)
    /\ UNCHANGED <<database, account, authorization, task, cancel, msal, disconnecting,
                   restarts, ghosts>>

\* Writes what was read, without asking whether it is still there.
StatusSaves ==
    /\ probe.pc = "save"
    /\ setting' = TRUE
    /\ \/ Answers("STORAGE_FULL", TRUE) /\ UNCHANGED runtimeError
       \/ Answers("CONNECTED", TRUE) /\ runtimeError' = Nothing
    /\ UNCHANGED <<cached, account, authorization, task, cancel, msal, disconnecting,
                   restarts, ghosts>>

(***************************************************************************)
(* disconnect.                                                             *)
(***************************************************************************)

DisconnectOffered == page.account

\* getAllAccounts throws for a row that cannot be read: the request fails here.
Disconnect ==
    /\ disconnecting = "idle"
    /\ DisconnectOffered
    /\ cancelled' = IF cancel = Nothing THEN cancelled ELSE cancelled \cup {cancel}
    /\ disconnecting' = IF CacheReadable THEN "accounts" ELSE "idle"
    /\ left' = IF CacheReadable /\ \A a \in Attempt : ~ Live(a) THEN "going" ELSE "no"
    /\ UNCHANGED <<database, service, flow, probe, page, restarts, verified, adrift>>

DisconnectAccounts ==
    /\ disconnecting = "accounts"
    /\ disconnecting' = "cache"
    /\ RemoveAccounts
    /\ UNCHANGED <<setting, authorization, task, cancel, runtimeError, msal, probe, page,
                   restarts, ghosts>>

DisconnectCache ==
    /\ disconnecting = "cache"
    /\ disconnecting' = "setting"
    /\ cached' = "NONE"
    /\ UNCHANGED <<setting, service, msal, probe, page, restarts, ghosts>>

\* For the properties: the reset forgets an attempt that goes on, one that could
\* not be cancelled or was begun since; or nobody is left who could connect.
LetsGo ==
    /\ adrift' = (adrift \/ \E a \in Attempt : Live(a))
    /\ left' = IF left = "going" /\ probe.pc = "idle" THEN "left" ELSE "no"

\* Mutant: the metadata stays.
DisconnectKeepsSetting ==
    /\ disconnecting = "setting"
    /\ disconnecting' = "idle"
    /\ authorization' = Nothing /\ task' = Nothing /\ runtimeError' = Nothing
    /\ LetsGo
    /\ UNCHANGED <<setting, cached, account, cancel, msal, probe, page, restarts, verified>>

\* The last delete, and the reset of the service.  cancelDeviceCode stays.
DisconnectSetting ==
    /\ disconnecting = "setting"
    /\ disconnecting' = "idle"
    /\ setting' = FALSE
    /\ authorization' = Nothing /\ task' = Nothing /\ runtimeError' = Nothing
    /\ LetsGo
    /\ UNCHANGED <<cached, account, cancel, msal, probe, page, restarts, verified>>

(***************************************************************************)
(* The server restarts; the database is restored on another machine.       *)
(***************************************************************************)

Forgets ==
    /\ restarts < MaxRestarts
    /\ restarts' = restarts + 1
    /\ account' = FALSE
    /\ authorization' = Nothing /\ task' = Nothing /\ cancel' = Nothing /\ runtimeError' = Nothing
    /\ flow' = [a \in Attempt |-> IF Live(a) THEN "ended" ELSE flow[a]]
    /\ probe' = IdleProbe /\ disconnecting' = "idle"
    /\ adrift' = FALSE
    /\ left' = IF left = "going" THEN "no" ELSE left

Restart ==
    /\ Forgets
    /\ UNCHANGED <<database, cancelled, page, verified>>

\* The key of the cache is bound to the machine, the row is not.
Move ==
    /\ cached' = IF cached = "NONE" THEN "NONE" ELSE "FOREIGN"
    /\ Forgets
    /\ UNCHANGED <<setting, cancelled, page, verified>>

-----------------------------------------------------------------------------

Background(a) ==
    \/ CodeArrives(a) \/ TokenArrives(a) \/ GrantIsLost(a) \/ AuthorizationFails(a)
    \/ GetDrive(a) \/ RootFolder(a) \/ CompletionFails(a) \/ SaveConnection(a)

Status == StatusAuthorizing \/ StatusReads \/ StatusAccounts \/ StatusDrive \/ StatusSaves

Disconnects == DisconnectAccounts \/ DisconnectCache \/ DisconnectSetting

DriveNext ==
    \/ \E a \in Attempt : Start(a) \/ Background(a)
    \/ Status
    \/ Disconnect \/ Disconnects
    \/ Restart \/ Move

\* MSAL gives an attempt up when its code expires, Graph and the database answer,
\* and the page asks again.  Users and restarts are not fair.
Fairness ==
    /\ \A a \in Attempt : WF_driveVars(Background(a))
    /\ WF_driveVars(Status)
    /\ WF_driveVars(Disconnects)

DriveSpec == DriveInit /\ [][DriveNext]_driveVars /\ Fairness

=============================================================================
