--------------------------- MODULE BackupHistory ---------------------------
(***************************************************************************)
(* The properties of backups and restores.                                 *)
(***************************************************************************)
EXTENDS Backup

Row0 == [status : {"ABSENT", "CREATING", "UPLOADING", "VERIFIED", "FAILED", "EXPIRED"},
         locked : BOOLEAN, counted : Nat \cup {None}, asset : BOOLEAN,
         cloud : BOOLEAN, completed : Nat]

Database == [data : SUBSET Write, history : [Id -> Row0], admin : BOOLEAN]

RestoreOps == {"replace", "check", "rehydrate", "restored", "rollback", "kept"}

ImportOps == {"overwrite", "imported"}

ProcRow == [op : BackupOps \cup RestoreOps \cup ImportOps \cup {"import"}
                   \cup {"idle", "enter", "protect", "leave", "verify", "reject"},
            id : Id \cup {None}, target : Id \cup {None}, source : Row0,
            protection : Row0, temp : BOOLEAN, todo : SUBSET Id,
            victim : Id \cup {None}, before : SUBSET Write]

\* The rows, files and flags: every file is that of a dump.
TypeOK ==
    /\ db \in Database
    /\ dump \in [Id -> Database \cup {NoDump}]
    /\ local \subseteq Id /\ stored \subseteq Id /\ used \subseteq Id
    /\ {backupRunning, restoreRunning, maintenance} \subseteq BOOLEAN
    /\ clock \in Nat
    /\ locks \in 0..MaxLocks
    /\ admitted \subseteq Write
    /\ proc \in [Process -> ProcRow]
    /\ \A b \in local \cup stored : dump[b] # NoDump

Protected == {p \in Process : proc[p].op \in RestoreOps}

Replacing == {p \in Process : proc[p].op \in RestoreOps \cup ImportOps}

\* Two restores may pass the checks of restoreRunning together, and so may an
\* import; still one at most replaces the database, and maintenance lasts until it
\* has ended.
ReplacedAlone ==
    /\ Cardinality(Replacing) <= 1
    /\ Replacing # {} => maintenance /\ restoreRunning

\* docs/15, section 3: a restore always creates PRE_RESTORE first and cannot
\* skip it.  The dump that protects a restore holds everything the
\* database held when maintenance began.
ProtectedFirst ==
    \A p \in Protected :
        /\ dump[proc[p].id] # NoDump
        /\ proc[p].before \subseteq dump[proc[p].id].data

\* A restore ends with the data of its source and both backups in the history,
\* or, rolled back, with what was there before; an import with what was uploaded.
RestoreOutcome ==
    \A p \in Process :
        /\ proc[p].op = "restored" =>
             /\ dump[proc[p].target].data \subseteq db.data
             /\ Known(proc[p].target) /\ Known(proc[p].id)
        /\ proc[p].op \in {"kept", "imported"} => proc[p].before \subseteq db.data

\* Whatever is expired, restored or interrupted, once there has been a dump the
\* file of one is left.
AlwaysRecoverable == (\E b \in Id : dump[b] # NoDump) => local \cup stored # {}

\* The restore or import that holds maintenance, while it backs up as well.
Restoring == {p \in Process : \/ proc[p].op \in RestoreOps \cup ImportOps
                                    \cup {"protect", "leave"}
                              \/ proc[p].op \in BackupOps /\ proc[p].target # None}

\* A flag is set only while the request that will reset it is in progress: no
\* failure, and no restore refused by another, leaves the server unable to back
\* up, to restore or to serve until it is started again.
FlagsOwned ==
    /\ backupRunning <=> \E p \in Process : proc[p].op \in BackupOps
    /\ maintenance <=> Restoring # {}
    /\ restoreRunning <=> Restoring # {}

\* Restores exclude each other, and no flag outlives the request that set it
\* (MaintenanceService.enter, the finally of createBackup and restore).
RestoresExclusive == TypeOK /\ ReplacedAlone /\ FlagsOwned

\* A restore starts behind a protection and ends with its source or with what was
\* there before (restore, rollbackRestore).
RestoreRollsBack == ProtectedFirst /\ RestoreOutcome

(***************************************************************************)
(* Statements of the repository that the code does not keep.               *)
(***************************************************************************)

\* docs/15, section 6: once the database has an administrator, the public restore
\* is closed at once.
ClosedToImports == \A p \in Process : proc[p].op = "overwrite" => ~ db.admin

\* docs/15, section 5: the restore point is restored (step 7) after PRE_RESTORE
\* was created (step 5).  Its file must still be there.
SourceSurvives ==
    \A p \in Process :
        proc[p].op = "replace" => proc[p].temp \/ proc[p].target \in local

=============================================================================
