------------------------------- MODULE Backup -------------------------------
(***************************************************************************)
(* BackupService, MaintenanceService and the retention rule: backups are   *)
(* created, verified, locked and expired, and restored behind a backup     *)
(* that protects the restore.  A server without an administrator may be    *)
(* given an uploaded dump instead.                                         *)
(*                                                                         *)
(* Between two awaits of a request any other request runs, so a request is *)
(* a process with a step for each write to the database, to the files or   *)
(* to the flags of the server.  The routes of this service are allowed     *)
(* during maintenance; those of the business are not, but a business write *)
(* that was admitted before may still commit.                              *)
(*                                                                         *)
(* A restore replaces the whole database, with the backup history in it,   *)
(* by what it was when the dump was taken.  Files are not part of it.      *)
(* They keep their contents, so a hash that was right stays right.         *)
(***************************************************************************)
EXTENDS Integers, FiniteSets

CONSTANTS
    Id,       \* bound: the backups there can be
    Write,    \* bound: rows the business may write to the counted tables
    Process,  \* requests that may be in progress at the same time
    Cloud,    \* OneDrive is connected
    Tiers,    \* the tiers of the retention, see TierRow
    MaxLocks, \* bound: how often users lock or unlock
    None

\* Backups are numbered in the order in which they end, and a tier keeps the
\* last of each of its limit latest periods: day, week and month.
TierRow == [period : [1..(2 * Cardinality(Id)) -> Nat], limit : Nat \ {0}]

ASSUME BackupAssumption ==
    /\ IsFiniteSet(Id) /\ IsFiniteSet(Write)
    /\ Cloud \in BOOLEAN
    /\ Tiers \subseteq TierRow /\ Tiers # {}
    /\ MaxLocks \in Nat
    /\ None \notin Id

VARIABLES
    db,             \* what pg_dump dumps and pg_restore replaces
    dump,           \* what was dumped to the file of a backup
    local,          \* backups with a local file
    stored,         \* backups with a file at the storage provider
    used,           \* backups that were ever begun
    backupRunning, restoreRunning, maintenance,
    clock,          \* number of the last backup that ended
    locks,          \* changes of locks so far, for MaxLocks
    admitted,       \* business writes in progress
    proc            \* requests of this service in progress

vars == <<db, dump, local, stored, used, backupRunning, restoreRunning,
          maintenance, clock, locks, admitted, proc>>

files == <<dump, local, stored, used>>
flags == <<backupRunning, restoreRunning, maintenance>>
numbers == <<clock, locks>>

\* counted: recordCounts of the manifest; there is none before, and no sha256.
NoRow == [status |-> "ABSENT", locked |-> FALSE, counted |-> None,
          asset |-> FALSE, cloud |-> FALSE, completed |-> 0]

Empty == [data |-> {}, history |-> [b \in Id |-> NoRow], admin |-> FALSE]

NoDump == [data |-> {}, history |-> << >>, admin |-> FALSE]

\* id: the backup that is created, expired for, or protects the restore;
\* target, source: what is restored, and its row as it was read; temp: its file
\* was downloaded to one of its own; todo, victim: what retention has found to
\* expire, and what it is deleting.  before: the data of an uploaded dump; of a
\* restore, only for the properties, the data when it took over.
IdleProc == [op |-> "idle", id |-> None, target |-> None, source |-> NoRow,
             protection |-> NoRow, temp |-> FALSE, todo |-> {},
             victim |-> None, before |-> {}]

Init ==
    /\ \E admin \in BOOLEAN : db = [Empty EXCEPT !.admin = admin]
    /\ dump = [b \in Id |-> NoDump]
    /\ local = {} /\ stored = {} /\ used = {}
    /\ backupRunning = FALSE /\ restoreRunning = FALSE /\ maintenance = FALSE
    /\ clock = 0 /\ locks = 0
    /\ admitted = {}
    /\ proc = [p \in Process |-> IdleProc]

Row(b) == db.history[b]

Known(b) == Row(b).status # "ABSENT"

SetRow(b, row) == db' = [db EXCEPT !.history[b] = row]

To(p, op) == proc' = [proc EXCEPT ![p].op = op]

Ends(p) == proc' = [proc EXCEPT ![p] = IdleProc]

(***************************************************************************)
(* The business, which needs an administrator.                             *)
(***************************************************************************)

\* auth.bootstrap.  It was admitted when there was no maintenance; the hash of
\* the password comes before its transaction.
CreateAdmin ==
    /\ ~ db.admin
    /\ db' = [db EXCEPT !.admin = TRUE]
    /\ UNCHANGED <<files, flags, numbers, admitted, proc>>

\* MaintenanceGuard
Admit(w) ==
    /\ ~ maintenance /\ db.admin
    /\ w \notin db.data \cup admitted
    /\ admitted' = admitted \cup {w}
    /\ UNCHANGED <<db, files, flags, numbers, proc>>

CommitWrite(w) ==
    /\ w \in admitted
    /\ admitted' = admitted \ {w}
    /\ db' = [db EXCEPT !.data = @ \cup {w}]
    /\ UNCHANGED <<files, flags, numbers, proc>>

(***************************************************************************)
(* createBackup: asked for by a user, at the start of the server, or by a  *)
(* restore that has a target.                                              *)
(***************************************************************************)

\* backupNo, which is never used again.
Begins(b) ==
    /\ ~ backupRunning
    /\ backupRunning' = TRUE
    /\ b \notin used
    /\ used' = used \cup {b}

StartBackup(p) ==
    /\ proc[p].op = "idle" /\ db.admin
    /\ \E b \in Id : /\ Begins(b)
                    /\ proc' = [proc EXCEPT ![p].op = "record", ![p].id = b]
    /\ UNCHANGED <<db, dump, local, stored, restoreRunning, maintenance, numbers,
                   admitted>>

RecordBackup(p) ==
    LET b == proc[p].id IN
    /\ proc[p].op = "record"
    /\ \E locked \in IF proc[p].target = None THEN BOOLEAN ELSE {TRUE} :
          SetRow(b, [NoRow EXCEPT !.status = "CREATING", !.locked = locked])
    /\ To(p, "dump")
    /\ UNCHANGED <<files, flags, numbers, admitted>>

Dump(p) ==
    /\ proc[p].op = "dump"
    /\ dump' = [dump EXCEPT ![proc[p].id] = db]
    /\ local' = local \cup {proc[p].id}
    /\ To(p, "manifest")
    /\ UNCHANGED <<db, stored, used, flags, numbers, admitted>>

\* The records are counted after they were dumped.
WriteManifest(p) ==
    LET b == proc[p].id IN
    /\ proc[p].op = "manifest"
    /\ Known(b)
    /\ SetRow(b, [Row(b) EXCEPT !.status = "UPLOADING",
                                !.counted = Cardinality(db.data)])
    /\ To(p, "store")
    /\ UNCHANGED <<files, flags, numbers, admitted>>

StoreBackup(p) ==
    LET b == proc[p].id IN
    /\ proc[p].op = "store"
    /\ Known(b)
    /\ stored' = stored \cup {b}
    /\ SetRow(b, [Row(b) EXCEPT !.asset = TRUE])
    /\ To(p, "complete")
    /\ UNCHANGED <<dump, local, used, flags, numbers, admitted>>

CompleteBackup(p) ==
    LET b == proc[p].id IN
    /\ proc[p].op = "complete"
    /\ Known(b) /\ b \in stored
    /\ clock' = clock + 1
    /\ SetRow(b, [Row(b) EXCEPT !.status = "VERIFIED", !.cloud = Cloud,
                                !.completed = clock'])
    /\ To(p, "retain")
    /\ UNCHANGED <<files, flags, locks, admitted>>

(***************************************************************************)
(* applyRetention, the last part of createBackup.                          *)
(***************************************************************************)

Candidates == {b \in Id : /\ Row(b).status = "VERIFIED"
                         /\ Row(b).cloud /\ Row(b).completed > 0}

\* Mutant: a period counts as taken by the backup itself.
KeptUnlessSeen(tier, b) ==
    LET Period(c) == tier.period[Row(c).completed]
        Later == {c \in Candidates : Row(c).completed >= Row(b).completed}
    IN /\ \A c \in Later : Period(c) # Period(b)
       /\ Cardinality({Period(c) : c \in Later}) < tier.limit

\* selectExpiredBackupIds: the tier has no later backup of the same period and
\* fewer than its limit of later periods.
KeptByTier(tier, b) ==
    LET Period(c) == tier.period[Row(c).completed]
        Later == {c \in Candidates : Row(c).completed > Row(b).completed}
    IN /\ \A c \in Later : Period(c) # Period(b)
       /\ Cardinality({Period(c) : c \in Later}) < tier.limit

Expired == {b \in Candidates :
              ~ Row(b).locked /\ \A tier \in Tiers : ~ KeptByTier(tier, b)}

SelectExpired(p) ==
    /\ proc[p].op = "retain"
    /\ proc' = [proc EXCEPT ![p].op = "expire", ![p].todo = Expired]
    /\ UNCHANGED <<db, files, flags, numbers, admitted>>

\* The row is read again; a backup that is locked or gone is passed over.
CheckExpired(p) ==
    /\ proc[p].op = "expire"
    /\ \E b \in proc[p].todo :
         IF Known(b) /\ ~ Row(b).locked
         THEN proc' = [proc EXCEPT ![p].op = "delete", ![p].victim = b,
                                   ![p].todo = @ \ {b}]
         ELSE proc' = [proc EXCEPT ![p].todo = @ \ {b}]
    /\ UNCHANGED <<db, files, flags, numbers, admitted>>

DeleteFiles(p) ==
    LET b == proc[p].victim IN
    /\ proc[p].op = "delete"
    /\ local' = local \ {b}
    /\ stored' = IF Row(b).asset THEN stored \ {b} ELSE stored
    /\ To(p, "mark")
    /\ UNCHANGED <<db, dump, used, flags, numbers, admitted>>

MarkExpired(p) ==
    LET b == proc[p].victim IN
    /\ proc[p].op = "mark"
    /\ Known(b)
    /\ SetRow(b, [Row(b) EXCEPT !.status = "EXPIRED"])
    /\ proc' = [proc EXCEPT ![p].op = "expire", ![p].victim = None]
    /\ UNCHANGED <<files, flags, numbers, admitted>>

(***************************************************************************)
(* The end of createBackup.                                                *)
(***************************************************************************)

BackupOps == {"record", "dump", "manifest", "store", "complete", "retain",
              "expire", "delete", "mark"}

\* download: the storage provider, or else the local file.
Readable(b) == b \in local \/ (Row(b).status # "EXPIRED" /\ Row(b).asset /\ b \in stored)

\* The restore that asked for it reads the row and the file, which is local,
\* and goes on, unless this fails.
EndBackup(p) ==
    LET b == proc[p].id IN
    /\ proc[p].op = "expire" /\ proc[p].todo = {}
    /\ backupRunning' = FALSE
    /\ \/ proc[p].target = None /\ Ends(p)
       \/ /\ proc[p].target # None /\ Known(b) /\ b \in local
          /\ proc' = [proc EXCEPT ![p].op = "replace", ![p].protection = Row(b)]
       \/ proc[p].target # None /\ To(p, "leave")
    /\ UNCHANGED <<db, files, restoreRunning, maintenance, numbers, admitted>>

\* Any step may fail; the row becomes FAILED whatever it was.
FailBackup(p) ==
    LET b == proc[p].id IN
    /\ proc[p].op \in BackupOps
    /\ IF Known(b) THEN /\ clock' = clock + 1
                        /\ SetRow(b, [Row(b) EXCEPT !.status = "FAILED",
                                                    !.completed = clock'])
                   ELSE UNCHANGED <<db, clock>>
    /\ backupRunning' = FALSE
    /\ IF proc[p].target = None THEN Ends(p)
       ELSE proc' = [proc EXCEPT ![p].op = "leave", ![p].todo = {}, ![p].victim = None]
    /\ UNCHANGED <<files, restoreRunning, maintenance, locks, admitted>>

(***************************************************************************)
(* restore                                                                 *)
(***************************************************************************)

\* The checks before the password is verified.
LoadRestore(p, b) ==
    /\ proc[p].op = "idle" /\ db.admin
    /\ ~ restoreRunning /\ ~ backupRunning
    /\ Row(b).status = "VERIFIED" /\ Row(b).counted # None
    /\ proc' = [proc EXCEPT ![p].op = "enter", ![p].target = b, ![p].source = Row(b)]
    /\ UNCHANGED <<db, files, flags, numbers, admitted>>

\* Mutant: enter() does not refuse.
EntersAgain == TRUE

MayEnter == ~ maintenance

\* The flag is set before enter() may throw, and then left as it is.
Enters(p, entered) ==
    /\ restoreRunning' = TRUE
    /\ IF MayEnter
       THEN maintenance' = TRUE /\ proc' = [proc EXCEPT ![p] = entered]
       ELSE UNCHANGED maintenance /\ Ends(p)
    /\ UNCHANGED <<db, files, backupRunning, numbers, admitted>>

EnterMaintenance(p) ==
    /\ proc[p].op = "enter"
    /\ Enters(p, [proc[p] EXCEPT !.op = "protect", !.before = db.data])

\* The source is materialized and checked, and createBackup called.  Without its
\* row a local file will do.
ProtectRestore(p) ==
    LET b == proc[p].target IN
    /\ proc[p].op = "protect"
    /\ Readable(b)
    /\ \E c \in Id :
         /\ Begins(c)
         /\ proc' = [proc EXCEPT ![p].op = "record", ![p].id = c,
                                 ![p].temp = b \notin local]
    /\ UNCHANGED <<db, dump, local, stored, restoreRunning, maintenance, numbers,
                   admitted>>

\* The source or the protection cannot be had.
FailProtect(p) ==
    /\ proc[p].op = "protect"
    /\ To(p, "leave")
    /\ UNCHANGED <<db, files, flags, numbers, admitted>>

\* pg_restore, in a single transaction.
ReplaceDatabase(p) ==
    /\ proc[p].op = "replace"
    /\ proc[p].temp \/ proc[p].target \in local
    /\ db' = dump[proc[p].target]
    /\ To(p, "check")
    /\ UNCHANGED <<files, flags, numbers, admitted>>

\* assertRecordCounts, after the migrations.
CheckCounts(p) ==
    /\ proc[p].op = "check"
    /\ Cardinality(db.data) = proc[p].source.counted
    /\ To(p, "rehydrate")
    /\ UNCHANGED <<db, files, flags, numbers, admitted>>

\* What rehydrateRestoredBackup leaves of a row; a copy at the storage provider
\* is not a condition.
Rehydrated(b, row, copied) ==
    [row EXCEPT !.status = "VERIFIED",
                !.locked = IF Known(b) THEN Row(b).locked ELSE row.locked,
                !.asset = copied \/ Row(b).asset,
                !.cloud = IF copied THEN Cloud ELSE Row(b).cloud]

RehydrateRestored(p) ==
    LET target == proc[p].target
        id == proc[p].id
    IN
    /\ proc[p].op = "rehydrate"
    /\ \E copied \in SUBSET {target, id} :
         /\ stored' = stored \cup copied
         /\ db' = [db EXCEPT
              !.history[target] = Rehydrated(target, proc[p].source, target \in copied),
              !.history[id] = Rehydrated(id, proc[p].protection, id \in copied)]
    /\ To(p, "restored")
    /\ UNCHANGED <<dump, local, used, flags, numbers, admitted>>

FailRestore(p) ==
    /\ proc[p].op \in {"replace", "check", "rehydrate"}
    /\ To(p, "rollback")
    /\ UNCHANGED <<db, files, flags, numbers, admitted>>

\* Mutant: the rollback restores the source again.
RollbackToSource(p) == dump[proc[p].target]

RollbackTo(p) == dump[proc[p].id]

\* The protection is restored, unless this fails as well.
RollbackRestore(p) ==
    /\ proc[p].op = "rollback"
    /\ \/ proc[p].id \in local /\ db' = RollbackTo(p) /\ To(p, "kept")
       \/ UNCHANGED db /\ To(p, "leave")
    /\ UNCHANGED <<files, flags, numbers, admitted>>

LeaveMaintenance(p) ==
    /\ proc[p].op \in {"restored", "kept", "leave"}
    /\ maintenance' = FALSE
    /\ restoreRunning' = FALSE
    /\ Ends(p)
    /\ UNCHANGED <<db, files, backupRunning, numbers, admitted>>

(***************************************************************************)
(* bootstrapRestore: a dump that is uploaded while there is no             *)
(* administrator.  It is from a server with one, whose backups are not     *)
(* here.                                                                   *)
(***************************************************************************)

\* The checks, before the file is written.
LoadBootstrap(p) ==
    /\ proc[p].op = "idle" /\ ~ db.admin
    /\ ~ restoreRunning /\ ~ backupRunning
    /\ \E b \in Id \ used, data \in SUBSET Write :
         /\ used' = used \cup {b}
         /\ proc' = [proc EXCEPT ![p].op = "import", ![p].id = b, ![p].before = data]
    /\ UNCHANGED <<db, dump, local, stored, flags, numbers, admitted>>

\* That there is no administrator is not asked again.
EnterBootstrap(p) ==
    /\ proc[p].op = "import"
    /\ Enters(p, [proc[p] EXCEPT !.op = "overwrite"])

OverwriteDatabase(p) ==
    /\ proc[p].op = "overwrite"
    /\ db' = [Empty EXCEPT !.data = proc[p].before, !.admin = TRUE]
    /\ To(p, "imported")
    /\ UNCHANGED <<files, flags, numbers, admitted>>

\* The file has a name of its own, under which nobody looks for a backup.
RecordImport(p) ==
    /\ proc[p].op = "imported"
    /\ clock' = clock + 1
    /\ SetRow(proc[p].id, [NoRow EXCEPT !.status = "VERIFIED", !.completed = clock',
                                        !.counted = Cardinality(db.data)])
    /\ To(p, "leave")
    /\ UNCHANGED <<files, flags, locks, admitted>>

\* There is nothing to roll back to.
FailBootstrap(p) ==
    /\ proc[p].op \in {"overwrite", "imported"}
    /\ To(p, "leave")
    /\ UNCHANGED <<db, files, flags, numbers, admitted>>

(***************************************************************************)
(* verify, lock, and the end of the server.                                *)
(***************************************************************************)

\* Without a sha256 the backup is FAILED, otherwise VERIFIED.
LoadVerify(p, b) ==
    /\ proc[p].op = "idle" /\ db.admin
    /\ Known(b) /\ Readable(b)
    /\ proc' = [proc EXCEPT ![p].op = IF Row(b).counted = None THEN "reject"
                                                               ELSE "verify",
                            ![p].target = b]
    /\ UNCHANGED <<db, files, flags, numbers, admitted>>

\* Unless the row is gone.
Verify(p) ==
    LET b == proc[p].target
        status == IF proc[p].op = "reject" THEN "FAILED" ELSE "VERIFIED"
    IN
    /\ proc[p].op \in {"verify", "reject"}
    /\ IF Known(b) THEN SetRow(b, [Row(b) EXCEPT !.status = status])
                   ELSE UNCHANGED db
    /\ Ends(p)
    /\ UNCHANGED <<files, flags, numbers, admitted>>

Lock(b, locked) ==
    /\ db.admin
    /\ Known(b) /\ Row(b).locked # locked
    /\ locks < MaxLocks /\ locks' = locks + 1
    /\ SetRow(b, [Row(b) EXCEPT !.locked = locked])
    /\ UNCHANGED <<files, flags, clock, admitted, proc>>

Crash ==
    /\ proc' = [p \in Process |-> IdleProc]
    /\ admitted' = {}
    /\ backupRunning' = FALSE /\ restoreRunning' = FALSE /\ maintenance' = FALSE
    /\ UNCHANGED <<db, files, numbers>>

BackupStep(p) ==
    \/ RecordBackup(p) \/ Dump(p) \/ WriteManifest(p) \/ StoreBackup(p)
    \/ CompleteBackup(p) \/ SelectExpired(p) \/ CheckExpired(p)
    \/ DeleteFiles(p) \/ MarkExpired(p) \/ EndBackup(p) \/ FailBackup(p)

RestoreStep(p) ==
    \/ EnterMaintenance(p) \/ ProtectRestore(p) \/ FailProtect(p)
    \/ ReplaceDatabase(p) \/ CheckCounts(p) \/ RehydrateRestored(p)
    \/ FailRestore(p) \/ RollbackRestore(p) \/ LeaveMaintenance(p)

BootstrapStep(p) ==
    \/ EnterBootstrap(p) \/ OverwriteDatabase(p) \/ RecordImport(p) \/ FailBootstrap(p)

Next ==
    \/ CreateAdmin
    \/ \E w \in Write : Admit(w) \/ CommitWrite(w)
    \/ \E p \in Process : \/ StartBackup(p) \/ BackupStep(p)
                          \/ RestoreStep(p) \/ Verify(p)
                          \/ LoadBootstrap(p) \/ BootstrapStep(p)
    \/ \E p \in Process, b \in Id : LoadRestore(p, b) \/ LoadVerify(p, b)
    \/ \E b \in Id, locked \in BOOLEAN : Lock(b, locked)
    \/ Crash

Spec == Init /\ [][Next]_vars

=============================================================================
