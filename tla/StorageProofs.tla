---------------------------- MODULE StorageProofs ----------------------------
(***************************************************************************)
(* Proofs about where data is kept besides the database: the backups and   *)
(* their restores, for any backups, requests, rows and tiers; the          *)
(* connection with OneDrive, for any number of attempts and restarts; and  *)
(* the files, for any requests, names and faults.                          *)
(***************************************************************************)
EXTENDS BackupHistory, OneDriveConnection, FileCustody, TotalProofs

(***************************************************************************)
(* Backups.                                                                *)
(*                                                                         *)
(* That restores exclude each other rests on enter() alone.  What they     *)
(* leave rests on it as well: while a request holds maintenance nobody     *)
(* else replaces the database, so that what it has found there is still    *)
(* there, and the dumps it works with are written once.                    *)
(***************************************************************************)

\* A backup from its dump on.
Dumping == BackupOps \ {"record", "dump"}

\* What is begun has a number, what is restored a target, what expires a victim.
ActorsOf(p) ==
    /\ proc[p].op = "idle" => proc[p].target = None
    /\ proc[p].op \in {"enter", "protect", "verify", "reject"} \cup RestoreOps
         => proc[p].target \in Id
    /\ proc[p].op \in BackupOps \cup RestoreOps \cup ImportOps \cup {"import"}
         => proc[p].id \in Id
    /\ proc[p].op \in {"delete", "mark"} => proc[p].victim \in Id

Actors == \A p \in Process : ActorsOf(p)

\* One request backs up, and one holds maintenance.
Alone ==
    /\ FlagsOwned
    /\ \A p, q \in Process :
          proc[p].op \in BackupOps /\ proc[q].op \in BackupOps => p = q
    /\ \A p, q \in Restoring : p = q

\* A number belongs to one request, and there is no dump before it is used.
Numbered ==
    /\ \A p \in Process : proc[p].id # None => proc[p].id \in used
    /\ \A p, q \in Process : proc[p].id = proc[q].id /\ p # q => proc[p].id = None
    /\ \A b \in Id \ used : dump[b] = NoDump

\* A backup is dumped once, a restore works with dumps that are there.
DumpedOf(p) ==
    /\ proc[p].op \in {"record", "dump"} => dump[proc[p].id] = NoDump
    /\ proc[p].op \in Dumping \cup RestoreOps => dump[proc[p].id] # NoDump
    /\ proc[p].op \in BackupOps /\ proc[p].target # None
         => dump[proc[p].target] # NoDump
    /\ proc[p].op \in RestoreOps => dump[proc[p].target] # NoDump

Dumped == \A p \in Process : DumpedOf(p)

\* What a request that holds maintenance has found or written is still there.
KeptOf(p) ==
    /\ proc[p].op \in {"protect", "record", "dump"} => proc[p].before \subseteq db.data
    /\ proc[p].op \in Dumping \cup RestoreOps
         => proc[p].before \subseteq dump[proc[p].id].data
    /\ proc[p].op \in {"check", "rehydrate", "restored"}
         => dump[proc[p].target].data \subseteq db.data
    /\ proc[p].op = "restored" => Known(proc[p].target) /\ Known(proc[p].id)
    /\ proc[p].op \in {"kept", "imported"} => proc[p].before \subseteq db.data

Kept == \A p \in Restoring : KeptOf(p)

BackupInv == TypeOK /\ Actors /\ Alone /\ Numbered /\ Dumped /\ Kept

(***************************************************************************)
(* Rows, databases and requests.                                           *)
(***************************************************************************)

\* The row of a backup.
LEMMA RowType ==
    ASSUME db \in Database, NEW b \in Id
    PROVE  /\ Row(b) \in Row0
           /\ Row(b).status \in {"ABSENT", "CREATING", "UPLOADING", "VERIFIED",
                                 "FAILED", "EXPIRED"}
           /\ Row(b).asset \in BOOLEAN /\ Row(b).cloud \in BOOLEAN
BY DEF Database, Row0, Row

\* No row, and no request, are values of their kinds.
LEMMA NoRowType == NoRow \in Row0
BY DEF NoRow, Row0

\* An idle request is a request.
LEMMA IdleType == IdleProc \in ProcRow
BY NoRowType DEF IdleProc, ProcRow

\* There are finitely many rows to count.
LEMMA CountType ==
    ASSUME db \in Database
    PROVE  Cardinality(db.data) \in Nat
BY BackupAssumption, FS_Subset, FS_CardinalityType DEF Database

\* A dump of a database is not the absence of one.
LEMMA DatabaseIsDump ==
    ASSUME NEW d \in Database, NEW b \in Id
    PROVE  d # NoDump
BY DEF Database, NoDump

\* The database keeps its data and the backups it knows.
Tame ==
    /\ db' \in Database
    /\ db.data \subseteq db'.data
    /\ \A b \in Id : Known(b) => Known(b)'

\* Writing the row of a backup keeps the data and the other rows.
LEMMA SetRowTame ==
    ASSUME db \in Database, NEW b \in Id, NEW row \in Row0, row.status # "ABSENT",
           SetRow(b, row)
    PROVE  Tame /\ Known(b)'
BY DEF Database, SetRow, Tame, Known, Row

\* The rest of the requests go on as they were.
Frame(p) ==
    /\ proc' \in [Process -> ProcRow]
    /\ \A q \in Process : q # p => proc'[q] = proc[q]

SameRequest(p) ==
    /\ proc'[p].id = proc[p].id
    /\ proc'[p].target = proc[p].target
    /\ proc'[p].before = proc[p].before

Ops == BackupOps \cup RestoreOps \cup ImportOps
         \cup {"idle", "import", "enter", "protect", "leave", "verify", "reject"}

\* A step that writes the record of one request leaves the others.
LEMMA Becomes ==
    ASSUME proc \in [Process -> ProcRow], NEW p \in Process, NEW r \in ProcRow,
           proc' = [proc EXCEPT ![p] = r]
    PROVE  Frame(p) /\ proc'[p] = r
BY DEF Frame

\* A step that only changes op.
LEMMA ToType ==
    ASSUME proc \in [Process -> ProcRow], NEW p \in Process, NEW op \in Ops, To(p, op)
    PROVE  /\ Frame(p) /\ SameRequest(p)
           /\ proc'[p].op = op /\ proc'[p].victim = proc[p].victim
<1> DEFINE r == [proc[p] EXCEPT !.op = op]
<1>1. proc[p] \in ProcRow
  OBVIOUS
<1>2. \A x \in ProcRow : [x EXCEPT !.op = op] \in ProcRow
  BY DEF ProcRow, Ops
<1>3. \A x \in ProcRow : /\ [x EXCEPT !.op = op].op = op
                         /\ [x EXCEPT !.op = op].id = x.id
                         /\ [x EXCEPT !.op = op].target = x.target
                         /\ [x EXCEPT !.op = op].before = x.before
                         /\ [x EXCEPT !.op = op].victim = x.victim
  BY DEF ProcRow
<1>4. proc' = [proc EXCEPT ![p] = r]
  BY DEF To
<1>5. r \in ProcRow
  BY <1>1, <1>2
<1> HIDE DEF r
<1>6. Frame(p) /\ proc'[p] = r
  BY <1>4, <1>5, Becomes
<1>. QED
  BY <1>1, <1>3, <1>6 DEF SameRequest, r

\* The end of a request.
LEMMA EndsType ==
    ASSUME proc \in [Process -> ProcRow], NEW p \in Process, Ends(p)
    PROVE  Frame(p) /\ proc'[p] = IdleProc
BY IdleType, Becomes DEF Ends

(***************************************************************************)
(* The steps, by what they change.                                         *)
(***************************************************************************)

\* Nothing that a request is about.
Quiet == UNCHANGED <<proc, flags, dump, used>> /\ Tame

Stops ==
    /\ proc' = [p \in Process |-> IdleProc]
    /\ ~ backupRunning' /\ ~ restoreRunning' /\ ~ maintenance'
    /\ UNCHANGED <<db, dump, used>>

\* A backup goes on.
Backs(p) ==
    /\ Frame(p) /\ SameRequest(p) /\ Tame /\ UNCHANGED <<flags, used>>
    /\ \/ proc[p].op = "record" /\ proc'[p].op = "dump" /\ UNCHANGED dump
       \/ /\ proc[p].op = "dump" /\ proc'[p].op = "manifest"
          /\ dump' = [dump EXCEPT ![proc[p].id] = db]
          /\ UNCHANGED db
       \/ proc[p].op \in Dumping /\ proc'[p].op \in Dumping /\ UNCHANGED dump
    /\ proc'[p].op \in {"delete", "mark"} => proc'[p].victim \in Id

\* A restore or an import goes on.
Restores(p) ==
    /\ Frame(p) /\ SameRequest(p) /\ Tame /\ UNCHANGED <<flags, used, dump>>
    /\ \/ /\ proc[p].op \in {"protect", "rollback", "overwrite", "imported"}
          /\ proc'[p].op = "leave"
       \/ proc[p].op = "check" /\ proc'[p].op = "rehydrate"
       \/ proc[p].op \in {"replace", "check", "rehydrate"} /\ proc'[p].op = "rollback"
       \/ /\ proc[p].op = "rehydrate" /\ proc'[p].op = "restored"
          /\ Known(proc[p].target)' /\ Known(proc[p].id)'

\* The database is replaced.
Replaces(p) ==
    /\ Frame(p) /\ SameRequest(p) /\ UNCHANGED <<flags, used, dump>>
    /\ \/ proc[p].op = "replace" /\ proc'[p].op = "check" /\ db' = dump[proc[p].target]
       \/ proc[p].op = "rollback" /\ proc'[p].op = "kept" /\ db' = dump[proc[p].id]
       \/ /\ proc[p].op = "overwrite" /\ proc'[p].op = "imported"
          /\ proc[p].before \subseteq db'.data

\* A backup or an import takes a number.
TakesNumber(p) ==
    /\ Frame(p) /\ UNCHANGED <<db, dump, restoreRunning, maintenance>>
    /\ proc'[p].target = proc[p].target /\ proc'[p].before = proc[p].before
    /\ proc'[p].id \in Id \ used /\ used' = used \cup {proc'[p].id}
    /\ proc[p].op = "protect" => dump[proc[p].target] # NoDump
    /\ proc[p].op \in {"idle", "protect"} /\ proc'[p].op = "record"
    /\ ~ backupRunning /\ backupRunning'

TakesImport(p) ==
    /\ Frame(p) /\ UNCHANGED <<db, dump, flags>>
    /\ proc'[p].id \in Id \ used /\ used' = used \cup {proc'[p].id}
    /\ proc'[p].target = proc[p].target
    /\ proc[p].op = "idle" /\ proc'[p].op = "import"

\* A backup is chosen.
Chooses(p) ==
    /\ Frame(p) /\ UNCHANGED <<db, dump, used, flags>>
    /\ proc'[p].id = proc[p].id /\ proc'[p].target \in Id
    /\ proc[p].op = "idle" /\ proc'[p].op \in {"enter", "verify", "reject"}
    /\ proc'[p].op = "enter" =>
          ~ backupRunning /\ db.history[proc'[p].target].status # "ABSENT"

\* Maintenance begins.
TakesOver(p) ==
    /\ Frame(p) /\ UNCHANGED <<db, dump, used, backupRunning>>
    /\ proc'[p].id = proc[p].id /\ proc'[p].target = proc[p].target
    /\ ~ maintenance /\ maintenance' /\ restoreRunning'
    /\ \/ /\ proc[p].op = "enter" /\ proc'[p].op = "protect"
          /\ proc'[p].before = db.data
       \/ proc[p].op = "import" /\ proc'[p].op = "overwrite"

\* A request ends.
Leaves(p) ==
    /\ Frame(p) /\ proc'[p] = IdleProc /\ Tame /\ UNCHANGED <<used, dump>>
    /\ \/ proc[p].op \in {"verify", "reject"} /\ UNCHANGED flags
       \/ /\ proc[p].op \in {"enter", "import"} /\ maintenance /\ restoreRunning'
          /\ UNCHANGED <<backupRunning, maintenance>>
       \/ /\ proc[p].op \in BackupOps /\ proc[p].target = None /\ ~ backupRunning'
          /\ UNCHANGED <<restoreRunning, maintenance>>
       \/ /\ proc[p].op \in {"restored", "kept", "leave"}
          /\ ~ restoreRunning' /\ ~ maintenance' /\ UNCHANGED backupRunning

\* The backup of a restore ends.
Hands(p) ==
    /\ Frame(p) /\ SameRequest(p) /\ Tame
    /\ UNCHANGED <<used, dump, restoreRunning, maintenance>>
    /\ ~ backupRunning'
    /\ proc[p].target # None
    /\ \/ proc[p].op = "expire" /\ proc'[p].op = "replace"
       \/ proc[p].op \in BackupOps /\ proc'[p].op = "leave"

(***************************************************************************)
(* The backup.                                                             *)
(***************************************************************************)

\* StartBackup takes a number for a request that was idle.
LEMMA StartKind ==
    ASSUME TypeOK, Actors, NEW p \in Process, StartBackup(p)
    PROVE  TypeOK' /\ TakesNumber(p)
<1>1. PICK b \in Id : Begins(b) /\ proc' = [proc EXCEPT ![p].op = "record", ![p].id = b]
  BY DEF StartBackup
<1> DEFINE r == [proc[p] EXCEPT !.op = "record", !.id = b]
<1>2. \A x \in ProcRow : [x EXCEPT !.op = "record", !.id = b] \in ProcRow
  BY DEF ProcRow, BackupOps
<1>3. \A x \in ProcRow : LET y == [x EXCEPT !.op = "record", !.id = b]
                         IN y.op = "record" /\ y.id = b /\ y.target = x.target
                            /\ y.before = x.before
  BY DEF ProcRow
<1>4. proc[p] \in ProcRow /\ proc' = [proc EXCEPT ![p] = r]
  BY <1>1 DEF TypeOK
<1>5. r \in ProcRow
  BY <1>2, <1>4
<1>6. Frame(p) /\ proc'[p] = r
  <2> HIDE DEF r
  <2>. QED
    BY <1>4, <1>5, Becomes DEF TypeOK
<1>7. proc'[p].op = "record" /\ proc'[p].id = b /\ proc'[p].target = proc[p].target
        /\ proc'[p].before = proc[p].before
  BY <1>3, <1>4, <1>6
<1>8. TypeOK'
  BY <1>1, <1>6 DEF StartBackup, Begins, TypeOK, Frame, numbers
<1>. QED
  BY <1>1, <1>6, <1>7, <1>8 DEF StartBackup, Begins, TakesNumber

\* RecordBackup writes the row and goes on to the dump.
LEMMA RecordKind ==
    ASSUME TypeOK, Actors, NEW p \in Process, RecordBackup(p)
    PROVE  TypeOK' /\ Backs(p)
<1>1. PICK locked \in BOOLEAN :
         SetRow(proc[p].id, [NoRow EXCEPT !.status = "CREATING", !.locked = locked])
  BY DEF RecordBackup
<1>2. \A x \in Row0 : LET y == [x EXCEPT !.status = "CREATING", !.locked = locked]
                      IN y \in Row0 /\ y.status # "ABSENT"
  BY DEF Row0
<1>3. proc[p].id \in Id
  BY DEF RecordBackup, Actors, ActorsOf, BackupOps
<1>4. Tame
  BY <1>1, <1>2, <1>3, NoRowType, SetRowTame DEF TypeOK
<1>5. Frame(p) /\ SameRequest(p) /\ proc'[p].op = "dump"
  BY ToType DEF RecordBackup, TypeOK, Ops, BackupOps
<1>6. TypeOK'
  BY <1>4, <1>5 DEF RecordBackup, TypeOK, Tame, Frame, files, flags, numbers
<1>. QED
  BY <1>4, <1>5, <1>6 DEF RecordBackup, Backs, files

\* Dump writes the dump of the number the request has taken.
LEMMA DumpKind ==
    ASSUME TypeOK, Actors, NEW p \in Process, Dump(p)
    PROVE  TypeOK' /\ Backs(p)
<1>1. proc[p].id \in Id
  BY DEF Dump, Actors, ActorsOf, BackupOps
<1>2. Frame(p) /\ SameRequest(p) /\ proc'[p].op = "manifest"
  BY ToType DEF Dump, TypeOK, Ops, BackupOps
<1>3. db # NoDump
  BY <1>1, DatabaseIsDump DEF TypeOK
<1>4. TypeOK'
  BY <1>1, <1>2, <1>3 DEF Dump, TypeOK, Frame, flags, numbers
<1>5. Tame
  BY DEF Dump, TypeOK, Tame, Known, Row
<1>. QED
  BY <1>2, <1>4, <1>5 DEF Dump, Backs

\* WriteManifest changes a row that is there.
LEMMA ManifestKind ==
    ASSUME TypeOK, Actors, NEW p \in Process, WriteManifest(p)
    PROVE  TypeOK' /\ Backs(p)
<1> DEFINE b == proc[p].id
           n == Cardinality(db.data)
<1>1. b \in Id /\ Row(b) \in Row0 /\ n \in Nat
  BY RowType, CountType DEF WriteManifest, Actors, ActorsOf, BackupOps, TypeOK
<1>2. SetRow(b, [Row(b) EXCEPT !.status = "UPLOADING", !.counted = n])
  BY DEF WriteManifest
<1> HIDE DEF n
<1>3. \A x \in Row0 : LET y == [x EXCEPT !.status = "UPLOADING", !.counted = n]
                      IN y \in Row0 /\ y.status # "ABSENT"
  BY <1>1 DEF Row0
<1>4. Tame
  BY <1>1, <1>2, <1>3, SetRowTame DEF TypeOK
<1>5. Frame(p) /\ SameRequest(p) /\ proc'[p].op = "store"
  BY ToType DEF WriteManifest, TypeOK, Ops, BackupOps
<1>6. TypeOK'
  BY <1>4, <1>5 DEF WriteManifest, TypeOK, Tame, Frame, files, flags, numbers
<1>. QED
  BY <1>4, <1>5, <1>6 DEF WriteManifest, Backs, files, Dumping, BackupOps

\* StoreBackup stores a file whose dump is there.
LEMMA StoreKind ==
    ASSUME TypeOK, Actors, Dumped, NEW p \in Process, StoreBackup(p)
    PROVE  TypeOK' /\ Backs(p)
<1> DEFINE b == proc[p].id
<1>1. b \in Id /\ Row(b) \in Row0 /\ Row(b).status # "ABSENT" /\ dump[b] # NoDump
  BY RowType DEF StoreBackup, Actors, ActorsOf, BackupOps, Dumped, DumpedOf, Dumping,
                 TypeOK, Known
<1>2. \A x \in Row0 : LET y == [x EXCEPT !.asset = TRUE]
                      IN y \in Row0 /\ y.status = x.status
  BY DEF Row0
<1>3. Tame
  BY <1>1, <1>2, SetRowTame DEF StoreBackup, TypeOK
<1>4. Frame(p) /\ SameRequest(p) /\ proc'[p].op = "complete"
  BY ToType DEF StoreBackup, TypeOK, Ops, BackupOps
<1>5. TypeOK'
  BY <1>1, <1>3, <1>4 DEF StoreBackup, TypeOK, Tame, Frame, flags, numbers
<1>. QED
  BY <1>3, <1>4, <1>5 DEF StoreBackup, Backs, Dumping, BackupOps

\* CompleteBackup changes a row that is there.
LEMMA CompleteKind ==
    ASSUME TypeOK, Actors, NEW p \in Process, CompleteBackup(p)
    PROVE  TypeOK' /\ Backs(p)
<1> DEFINE b == proc[p].id
<1>1. b \in Id /\ Row(b) \in Row0 /\ clock' \in Nat
  BY RowType DEF CompleteBackup, Actors, ActorsOf, BackupOps, TypeOK
<1>2. SetRow(b, [Row(b) EXCEPT !.status = "VERIFIED", !.cloud = Cloud,
                               !.completed = clock'])
  BY DEF CompleteBackup
<1>3. \A x \in Row0 : LET y == [x EXCEPT !.status = "VERIFIED", !.cloud = Cloud,
                                         !.completed = clock']
                      IN y \in Row0 /\ y.status # "ABSENT"
  BY <1>1, BackupAssumption DEF Row0
<1>4. Tame
  BY <1>1, <1>2, <1>3, SetRowTame DEF TypeOK
<1>5. Frame(p) /\ SameRequest(p) /\ proc'[p].op = "retain"
  BY ToType DEF CompleteBackup, TypeOK, Ops, BackupOps
<1>6. TypeOK'
  BY <1>1, <1>4, <1>5 DEF CompleteBackup, TypeOK, Tame, Frame, files, flags
<1>. QED
  BY <1>4, <1>5, <1>6 DEF CompleteBackup, Backs, files, Dumping, BackupOps

\* SelectExpired chooses among the backups.
LEMMA SelectKind ==
    ASSUME TypeOK, NEW p \in Process, SelectExpired(p)
    PROVE  TypeOK' /\ Backs(p)
<1> DEFINE r == [proc[p] EXCEPT !.op = "expire", !.todo = Expired]
<1>1. Expired \subseteq Id
  BY DEF Expired, Candidates
<1>2. \A x \in ProcRow : [x EXCEPT !.op = "expire", !.todo = Expired] \in ProcRow
  BY <1>1 DEF ProcRow, BackupOps
<1>3. \A x \in ProcRow : LET y == [x EXCEPT !.op = "expire", !.todo = Expired]
                         IN y.op = "expire" /\ y.id = x.id /\ y.target = x.target
                            /\ y.before = x.before
  BY DEF ProcRow
<1>4. proc[p] \in ProcRow /\ proc' = [proc EXCEPT ![p] = r]
  BY DEF SelectExpired, TypeOK
<1>5. r \in ProcRow
  BY <1>2, <1>4
<1>6. Frame(p) /\ proc'[p] = r
  <2> HIDE DEF r
  <2>. QED
    BY <1>4, <1>5, Becomes DEF TypeOK
<1>7. SameRequest(p) /\ proc'[p].op = "expire"
  BY <1>3, <1>4, <1>6 DEF SameRequest
<1>8. Tame
  BY DEF SelectExpired, TypeOK, Tame, Known, Row
<1>9. TypeOK'
  BY <1>6 DEF SelectExpired, TypeOK, Frame, files, flags, numbers
<1>. QED
  BY <1>6, <1>7, <1>8, <1>9 DEF SelectExpired, Backs, files, Dumping, BackupOps

\* CheckExpired goes on, with a victim to delete or without.
LEMMA CheckKind ==
    ASSUME TypeOK, NEW p \in Process, CheckExpired(p)
    PROVE  TypeOK' /\ Backs(p)
<1>1. PICK b \in proc[p].todo :
         \/ proc' = [proc EXCEPT ![p].op = "delete", ![p].victim = b, ![p].todo = @ \ {b}]
         \/ proc' = [proc EXCEPT ![p].todo = @ \ {b}]
  BY DEF CheckExpired
<1> DEFINE found(x) == [x EXCEPT !.op = "delete", !.victim = b, !.todo = x.todo \ {b}]
           passed(x) == [x EXCEPT !.todo = x.todo \ {b}]
<1>2. proc[p] \in ProcRow /\ b \in Id /\ proc[p].op = "expire"
  BY DEF CheckExpired, TypeOK, ProcRow
<1>3. \A x \in ProcRow : found(x) \in ProcRow /\ passed(x) \in ProcRow
  BY <1>2 DEF ProcRow, BackupOps
<1>4. \A x \in ProcRow : /\ found(x).op = "delete" /\ found(x).victim = b
                         /\ found(x).id = x.id /\ found(x).target = x.target
                         /\ found(x).before = x.before
                         /\ passed(x).op = x.op /\ passed(x).id = x.id
                         /\ passed(x).target = x.target /\ passed(x).before = x.before
  BY DEF ProcRow
<1>5. \/ proc' = [proc EXCEPT ![p] = found(proc[p])]
      \/ proc' = [proc EXCEPT ![p] = passed(proc[p])]
  BY <1>1, <1>2 DEF TypeOK
<1> HIDE DEF found, passed
<1>6. Frame(p) /\ proc'[p] \in {found(proc[p]), passed(proc[p])}
  BY <1>2, <1>3, <1>5, Becomes DEF TypeOK
<1>7. /\ SameRequest(p) /\ proc'[p].op \in {"expire", "delete"}
      /\ proc'[p].op = "delete" => proc'[p].victim \in Id
  BY <1>2, <1>4, <1>6 DEF SameRequest
<1>8. Tame
  BY DEF CheckExpired, TypeOK, Tame, Known, Row
<1>9. TypeOK'
  BY <1>6 DEF CheckExpired, TypeOK, Frame, files, flags, numbers
<1>. QED
  BY <1>6, <1>7, <1>8, <1>9 DEF CheckExpired, Backs, files, Dumping, BackupOps

\* DeleteFiles removes files, never a dump that a request rests on.
LEMMA DeleteKind ==
    ASSUME TypeOK, Actors, NEW p \in Process, DeleteFiles(p)
    PROVE  TypeOK' /\ Backs(p)
<1>1. /\ Frame(p) /\ SameRequest(p) /\ proc'[p].op = "mark"
      /\ proc'[p].victim = proc[p].victim
  BY ToType DEF DeleteFiles, TypeOK, Ops, BackupOps
<1>2. proc[p].victim \in Id
  BY DEF DeleteFiles, Actors, ActorsOf
<1>3. Tame
  BY DEF DeleteFiles, TypeOK, Tame, Known, Row
<1>4. TypeOK'
  BY <1>1 DEF DeleteFiles, TypeOK, Frame, flags, numbers
<1>. QED
  BY <1>1, <1>2, <1>3, <1>4 DEF DeleteFiles, Backs, Dumping, BackupOps

\* MarkExpired changes a row that is there.
LEMMA MarkKind ==
    ASSUME TypeOK, Actors, NEW p \in Process, MarkExpired(p)
    PROVE  TypeOK' /\ Backs(p)
<1> DEFINE b == proc[p].victim
           r == [proc[p] EXCEPT !.op = "expire", !.victim = None]
<1>1. b \in Id /\ Row(b) \in Row0 /\ proc[p] \in ProcRow
  BY RowType DEF MarkExpired, Actors, ActorsOf, TypeOK
<1>2. \A x \in Row0 : LET y == [x EXCEPT !.status = "EXPIRED"]
                      IN y \in Row0 /\ y.status # "ABSENT"
  BY DEF Row0
<1>3. Tame
  BY <1>1, <1>2, SetRowTame DEF MarkExpired, TypeOK
<1>4. \A x \in ProcRow : [x EXCEPT !.op = "expire", !.victim = None] \in ProcRow
  BY DEF ProcRow, BackupOps
<1>5. \A x \in ProcRow : LET y == [x EXCEPT !.op = "expire", !.victim = None]
                         IN y.op = "expire" /\ y.id = x.id /\ y.target = x.target
                            /\ y.before = x.before
  BY DEF ProcRow
<1>6. proc' = [proc EXCEPT ![p] = r] /\ r \in ProcRow
  BY <1>1, <1>4 DEF MarkExpired, TypeOK
<1>7. Frame(p) /\ proc'[p] = r
  <2> HIDE DEF r
  <2>. QED
    BY <1>6, Becomes DEF TypeOK
<1>8. SameRequest(p) /\ proc'[p].op = "expire"
  BY <1>1, <1>5, <1>7 DEF SameRequest
<1>9. TypeOK'
  BY <1>3, <1>7 DEF MarkExpired, TypeOK, Tame, Frame, files, flags, numbers
<1>. QED
  BY <1>3, <1>7, <1>8, <1>9 DEF MarkExpired, Backs, files, Dumping, BackupOps

\* EndBackup ends the request, or hands the protection to its restore.
LEMMA EndKind ==
    ASSUME TypeOK, Actors, NEW p \in Process, EndBackup(p)
    PROVE  TypeOK' /\ (Leaves(p) \/ Hands(p))
<1> DEFINE b == proc[p].id
           r == [proc[p] EXCEPT !.op = "replace", !.protection = Row(b)]
<1>1. b \in Id /\ Row(b) \in Row0 /\ proc[p] \in ProcRow /\ proc[p].op = "expire"
  BY RowType DEF EndBackup, Actors, ActorsOf, BackupOps, TypeOK
<1>2. Tame
  BY DEF EndBackup, TypeOK, Tame, Known, Row
<1>3. CASE proc[p].target = None /\ Ends(p)
  <2>1. Frame(p) /\ proc'[p] = IdleProc
    BY <1>3, EndsType DEF TypeOK
  <2>2. TypeOK'
    BY <2>1 DEF EndBackup, TypeOK, Frame, files, numbers
  <2>. QED
    BY <1>1, <1>2, <1>3, <2>1, <2>2 DEF EndBackup, Leaves, files, BackupOps
<1>4. CASE proc[p].target # None /\ proc' = [proc EXCEPT ![p] = r]
  <2>1. \A x \in ProcRow :
          LET y == [x EXCEPT !.op = "replace", !.protection = Row(b)]
          IN /\ y \in ProcRow /\ y.op = "replace" /\ y.id = x.id
             /\ y.target = x.target /\ y.before = x.before
    BY <1>1 DEF ProcRow, RestoreOps
  <2>2. /\ r \in ProcRow /\ r.op = "replace" /\ r.id = proc[p].id
        /\ r.target = proc[p].target /\ r.before = proc[p].before
    BY <1>1, <2>1
  <2> HIDE DEF r
  <2>3. Frame(p) /\ proc'[p] = r
    BY <1>4, <2>2, Becomes DEF TypeOK
  <2>4. TypeOK'
    BY <2>3 DEF EndBackup, TypeOK, Frame, files, numbers
  <2>. QED
    BY <1>1, <1>2, <1>4, <2>2, <2>3, <2>4 DEF EndBackup, Hands, SameRequest, files
<1>5. CASE proc[p].target # None /\ To(p, "leave")
  <2>1. Frame(p) /\ SameRequest(p) /\ proc'[p].op = "leave"
    BY <1>5, ToType DEF TypeOK, Ops
  <2>2. TypeOK'
    BY <2>1 DEF EndBackup, TypeOK, Frame, files, numbers
  <2>. QED
    BY <1>1, <1>2, <1>5, <2>1, <2>2 DEF EndBackup, Hands, files, BackupOps
<1>6. [proc EXCEPT ![p].op = "replace", ![p].protection = Row(b)]
        = [proc EXCEPT ![p] = r]
  BY DEF TypeOK
<1>. QED
  BY <1>3, <1>4, <1>5, <1>6 DEF EndBackup

\* FailBackup ends the request, or its restore gives up.
LEMMA FailKind ==
    ASSUME TypeOK, Actors, NEW p \in Process, FailBackup(p)
    PROVE  TypeOK' /\ (Leaves(p) \/ Hands(p))
<1> DEFINE b == proc[p].id
           r == [proc[p] EXCEPT !.op = "leave", !.todo = {}, !.victim = None]
<1>1. b \in Id /\ Row(b) \in Row0 /\ proc[p] \in ProcRow /\ proc[p].op \in BackupOps
  BY RowType DEF FailBackup, Actors, ActorsOf, TypeOK
<1>2. Tame /\ clock' \in Nat
  <2>1. CASE Known(b)
    <3>1. /\ clock' \in Nat
          /\ SetRow(b, [Row(b) EXCEPT !.status = "FAILED", !.completed = clock'])
      BY <2>1 DEF FailBackup, TypeOK
    <3>2. \A x \in Row0 : LET y == [x EXCEPT !.status = "FAILED", !.completed = clock']
                          IN y \in Row0 /\ y.status # "ABSENT"
      BY <3>1 DEF Row0
    <3>. QED
      BY <1>1, <3>1, <3>2, SetRowTame DEF TypeOK
  <2>2. CASE ~ Known(b)
    BY <2>2 DEF FailBackup, TypeOK, Tame, Known, Row
  <2>. QED
    BY <2>1, <2>2
<1>3. CASE proc[p].target = None
  <2>1. Frame(p) /\ proc'[p] = IdleProc
    BY <1>3, EndsType DEF FailBackup, TypeOK
  <2>2. TypeOK'
    BY <1>2, <2>1 DEF FailBackup, TypeOK, Tame, Frame, files
  <2>. QED
    BY <1>1, <1>2, <1>3, <2>1, <2>2 DEF FailBackup, Leaves, files
<1>4. CASE proc[p].target # None
  <2>1. \A x \in ProcRow :
          LET y == [x EXCEPT !.op = "leave", !.todo = {}, !.victim = None]
          IN /\ y \in ProcRow /\ y.op = "leave" /\ y.id = x.id
             /\ y.target = x.target /\ y.before = x.before
    BY DEF ProcRow
  <2>2. /\ r \in ProcRow /\ r.op = "leave" /\ r.id = proc[p].id
        /\ r.target = proc[p].target /\ r.before = proc[p].before
    BY <1>1, <2>1
  <2>3. proc' = [proc EXCEPT ![p] = r]
    BY <1>4 DEF FailBackup, TypeOK
  <2> HIDE DEF r
  <2>4. Frame(p) /\ proc'[p] = r
    BY <2>2, <2>3, Becomes DEF TypeOK
  <2>5. TypeOK'
    BY <1>2, <2>4 DEF FailBackup, TypeOK, Tame, Frame, files
  <2>. QED
    BY <1>1, <1>2, <1>4, <2>2, <2>4, <2>5 DEF FailBackup, Hands, SameRequest, files
<1>. QED
  BY <1>3, <1>4

(***************************************************************************)
(* The restore.                                                            *)
(***************************************************************************)

\* LoadRestore chooses the backup to restore.
LEMMA LoadKind ==
    ASSUME TypeOK, NEW p \in Process, NEW b \in Id, LoadRestore(p, b)
    PROVE  TypeOK' /\ Chooses(p)
<1> DEFINE r == [proc[p] EXCEPT !.op = "enter", !.target = b, !.source = Row(b)]
<1>1. Row(b) \in Row0 /\ proc[p] \in ProcRow /\ proc[p].op = "idle"
  BY RowType DEF LoadRestore, TypeOK
<1>2. \A x \in ProcRow :
        LET y == [x EXCEPT !.op = "enter", !.target = b, !.source = Row(b)]
        IN y \in ProcRow /\ y.op = "enter" /\ y.id = x.id /\ y.target = b
  BY <1>1 DEF ProcRow
<1>3. r \in ProcRow /\ r.op = "enter" /\ r.id = proc[p].id /\ r.target = b
  BY <1>1, <1>2
<1>4. proc' = [proc EXCEPT ![p] = r]
  BY DEF LoadRestore, TypeOK
<1> HIDE DEF r
<1>5. Frame(p) /\ proc'[p] = r
  BY <1>3, <1>4, Becomes DEF TypeOK
<1>6. TypeOK'
  BY <1>5 DEF LoadRestore, TypeOK, Frame, files, flags, numbers
<1>. QED
  BY <1>1, <1>3, <1>5, <1>6 DEF LoadRestore, Chooses, files, Row

\* enter(), for a restore or an import that has been prepared.
LEMMA EntersKind ==
    ASSUME TypeOK, NEW p \in Process, NEW r \in ProcRow, Enters(p, r),
           proc[p].op \in {"enter", "import"},
           r.id = proc[p].id, r.target = proc[p].target,
           \/ proc[p].op = "enter" /\ r.op = "protect" /\ r.before = db.data
           \/ proc[p].op = "import" /\ r.op = "overwrite"
    PROVE  TypeOK' /\ (TakesOver(p) \/ Leaves(p))
<1>1. CASE ~ maintenance
  <2>1. Frame(p) /\ proc'[p] = r /\ maintenance' /\ restoreRunning'
    BY <1>1, Becomes DEF Enters, MayEnter, TypeOK
  <2>2. TypeOK'
    BY <1>1, <2>1 DEF Enters, MayEnter, TypeOK, Frame, files, numbers
  <2>. QED
    BY <1>1, <2>1, <2>2 DEF Enters, TakesOver, files
<1>2. CASE maintenance
  <2>1. Frame(p) /\ proc'[p] = IdleProc
    BY <1>2, EndsType DEF Enters, MayEnter, TypeOK
  <2>2. TypeOK' /\ Tame
    BY <1>2, <2>1 DEF Enters, MayEnter, TypeOK, Frame, files, numbers, Tame, Known, Row
  <2>. QED
    BY <1>2, <2>1, <2>2 DEF Enters, MayEnter, Leaves, files
<1>. QED
  BY <1>1, <1>2

\* EnterMaintenance takes over what the database holds, or is refused.
LEMMA EnterKind ==
    ASSUME TypeOK, NEW p \in Process, EnterMaintenance(p)
    PROVE  TypeOK' /\ (TakesOver(p) \/ Leaves(p))
<1> DEFINE r == [proc[p] EXCEPT !.op = "protect", !.before = db.data]
<1>1. proc[p] \in ProcRow /\ db.data \in SUBSET Write
  BY DEF TypeOK, Database
<1>2. \A x \in ProcRow :
        LET y == [x EXCEPT !.op = "protect", !.before = db.data]
        IN /\ y \in ProcRow /\ y.op = "protect" /\ y.id = x.id
           /\ y.target = x.target /\ y.before = db.data
  BY <1>1 DEF ProcRow
<1>3. /\ r \in ProcRow /\ r.op = "protect" /\ r.id = proc[p].id
      /\ r.target = proc[p].target /\ r.before = db.data
  BY <1>1, <1>2
<1>4. Enters(p, r) /\ proc[p].op = "enter"
  BY DEF EnterMaintenance
<1> HIDE DEF r
<1>. QED
  BY <1>3, <1>4, EntersKind

\* ProtectRestore takes a number, and its source has been dumped.
LEMMA ProtectKind ==
    ASSUME TypeOK, Actors, NEW p \in Process, ProtectRestore(p)
    PROVE  TypeOK' /\ TakesNumber(p)
<1> DEFINE b == proc[p].target
           away == b \notin local
<1>1. PICK c \in Id : /\ Begins(c)
                      /\ proc' = [proc EXCEPT ![p].op = "record", ![p].id = c,
                                              ![p].temp = away]
  BY DEF ProtectRestore
<1> DEFINE r == [proc[p] EXCEPT !.op = "record", !.id = c, !.temp = away]
<1>2. proc[p] \in ProcRow /\ away \in BOOLEAN
  BY DEF TypeOK
<1>3. dump[b] # NoDump
  <2>1. b \in Id /\ b \in local \cup stored
    BY DEF ProtectRestore, Actors, ActorsOf, Readable
  <2>. QED
    BY <2>1 DEF TypeOK
<1> HIDE DEF away
<1>4. \A x \in ProcRow :
        LET y == [x EXCEPT !.op = "record", !.id = c, !.temp = away]
        IN /\ y \in ProcRow /\ y.op = "record" /\ y.id = c
           /\ y.target = x.target /\ y.before = x.before
  BY <1>2 DEF ProcRow, BackupOps
<1>5. /\ r \in ProcRow /\ r.op = "record" /\ r.id = c
      /\ r.target = proc[p].target /\ r.before = proc[p].before
  BY <1>2, <1>4
<1>6. proc' = [proc EXCEPT ![p] = r]
  BY <1>1 DEF TypeOK
<1> HIDE DEF r
<1>7. Frame(p) /\ proc'[p] = r
  BY <1>5, <1>6, Becomes DEF TypeOK
<1>8. TypeOK'
  BY <1>1, <1>7 DEF ProtectRestore, Begins, TypeOK, Frame, numbers
<1>. QED
  BY <1>1, <1>3, <1>5, <1>7, <1>8 DEF ProtectRestore, Begins, TakesNumber

\* The steps of a restore or an import that only go on, or give up.
LEMMA GoesOnKind ==
    ASSUME TypeOK, NEW p \in Process,
           FailProtect(p) \/ CheckCounts(p) \/ FailRestore(p) \/ FailBootstrap(p)
    PROVE  TypeOK' /\ Restores(p)
<1>1. PICK op \in {"leave", "rehydrate", "rollback"} :
        /\ To(p, op) /\ UNCHANGED <<db, files, flags, numbers, admitted>>
        /\ \/ /\ proc[p].op \in {"protect", "rollback", "overwrite", "imported"}
              /\ op = "leave"
           \/ proc[p].op = "check" /\ op = "rehydrate"
           \/ proc[p].op \in {"replace", "check", "rehydrate"} /\ op = "rollback"
  BY DEF FailProtect, CheckCounts, FailRestore, FailBootstrap
<1>2. op \in Ops
  BY DEF Ops, RestoreOps
<1>3. Frame(p) /\ SameRequest(p) /\ proc'[p].op = op
  BY <1>1, <1>2, ToType DEF TypeOK
<1>4. TypeOK' /\ Tame
  BY <1>1, <1>3 DEF TypeOK, Frame, files, flags, numbers, Tame, Known, Row
<1>. QED
  BY <1>1, <1>3, <1>4 DEF Restores, files

\* ReplaceDatabase makes the dump of the source the database.
LEMMA ReplaceKind ==
    ASSUME TypeOK, Actors, Dumped, NEW p \in Process, ReplaceDatabase(p)
    PROVE  TypeOK' /\ Replaces(p)
<1>1. /\ proc[p].target \in Id /\ dump[proc[p].target] # NoDump
      /\ db' = dump[proc[p].target] /\ proc[p].op = "replace"
  BY DEF ReplaceDatabase, Actors, ActorsOf, Dumped, DumpedOf, RestoreOps
<1>2. db' \in Database
  BY <1>1 DEF TypeOK
<1>3. Frame(p) /\ SameRequest(p) /\ proc'[p].op = "check"
  BY ToType DEF ReplaceDatabase, TypeOK, Ops, RestoreOps
<1>4. TypeOK'
  BY <1>2, <1>3 DEF ReplaceDatabase, TypeOK, Frame, files, flags, numbers
<1>. QED
  BY <1>1, <1>3, <1>4 DEF ReplaceDatabase, Replaces, files

\* RollbackRestore makes the dump of the protection the database, or gives up.
LEMMA RollbackKind ==
    ASSUME TypeOK, Actors, Dumped, NEW p \in Process, RollbackRestore(p)
    PROVE  TypeOK' /\ (Replaces(p) \/ Restores(p))
<1>1. CASE db' = dump[proc[p].id] /\ To(p, "kept")
  <2>1. proc[p].id \in Id /\ dump[proc[p].id] # NoDump /\ proc[p].op = "rollback"
    BY DEF RollbackRestore, Actors, ActorsOf, Dumped, DumpedOf, RestoreOps
  <2>2. db' \in Database
    BY <1>1, <2>1 DEF TypeOK
  <2>3. Frame(p) /\ SameRequest(p) /\ proc'[p].op = "kept"
    BY <1>1, ToType DEF TypeOK, Ops, RestoreOps
  <2>4. TypeOK'
    BY <2>2, <2>3 DEF RollbackRestore, TypeOK, Frame, files, flags, numbers
  <2>. QED
    BY <1>1, <2>1, <2>3, <2>4 DEF RollbackRestore, Replaces, files
<1>2. CASE UNCHANGED db /\ To(p, "leave")
  <2>1. Frame(p) /\ SameRequest(p) /\ proc'[p].op = "leave"
    BY <1>2, ToType DEF TypeOK, Ops
  <2>2. TypeOK' /\ Tame
    BY <1>2, <2>1 DEF RollbackRestore, TypeOK, Frame, files, flags, numbers, Tame, Known, Row
  <2>. QED
    BY <1>2, <2>1, <2>2 DEF RollbackRestore, Restores, files
<1>. QED
  BY <1>1, <1>2 DEF RollbackRestore, RollbackTo

\* Both rows are written after the database was replaced.
LEMMA RowsTame ==
    ASSUME db \in Database, NEW t \in Id, NEW i \in Id, NEW s \in Row0, NEW q \in Row0,
           s.status = "VERIFIED", q.status = "VERIFIED",
           db' = [db EXCEPT !.history[t] = s, !.history[i] = q]
    PROVE  /\ Tame
           /\ db'.history[t].status = "VERIFIED" /\ db'.history[i].status = "VERIFIED"
<1>1. /\ db' \in Database /\ db'.data = db.data
      /\ db'.history = [db.history EXCEPT ![t] = s, ![i] = q]
  <2>1. \A d \in Database : LET e == [d EXCEPT !.history[t] = s, !.history[i] = q]
                            IN /\ e \in Database /\ e.data = d.data
                               /\ e.history = [d.history EXCEPT ![t] = s, ![i] = q]
    BY DEF Database
  <2>. QED
    BY <2>1
<1>2. db.history \in [Id -> Row0]
  BY DEF Database
<1>. QED
  BY <1>1, <1>2 DEF Tame, Known, Row

\* What rehydrateRestoredBackup writes is a row.
LEMMA RehydratedType ==
    ASSUME db \in Database, NEW b \in Id, NEW row \in Row0, NEW copied \in BOOLEAN
    PROVE  /\ Rehydrated(b, row, copied) \in Row0
           /\ Rehydrated(b, row, copied).status = "VERIFIED"
<1>1. /\ Row(b) \in Row0 /\ Row(b).asset \in BOOLEAN /\ Row(b).cloud \in BOOLEAN
      /\ Row(b).locked \in BOOLEAN /\ row.locked \in BOOLEAN
  BY RowType DEF Row0
<1> DEFINE l == IF Known(b) THEN Row(b).locked ELSE row.locked
           a == copied \/ Row(b).asset
           c == IF copied THEN Cloud ELSE Row(b).cloud
<1>2. l \in BOOLEAN /\ a \in BOOLEAN /\ c \in BOOLEAN
  BY <1>1, BackupAssumption
<1>3. Rehydrated(b, row, copied)
        = [row EXCEPT !.status = "VERIFIED", !.locked = l, !.asset = a, !.cloud = c]
  BY DEF Rehydrated
<1> HIDE DEF l, a, c
<1>4. \A x \in Row0 :
        LET y == [x EXCEPT !.status = "VERIFIED", !.locked = l, !.asset = a, !.cloud = c]
        IN y \in Row0 /\ y.status = "VERIFIED"
  BY <1>2 DEF Row0
<1>. QED
  BY <1>3, <1>4

\* RehydrateRestored puts both backups into the restored history.
LEMMA RehydrateKind ==
    ASSUME TypeOK, Actors, Dumped, NEW p \in Process, RehydrateRestored(p)
    PROVE  TypeOK' /\ Restores(p)
<1>1. PICK t, i : t = proc[p].target /\ i = proc[p].id
  OBVIOUS
<1>2. /\ t \in Id /\ i \in Id /\ proc[p].op = "rehydrate"
      /\ dump[t] # NoDump /\ dump[i] # NoDump
      /\ proc[p].source \in Row0 /\ proc[p].protection \in Row0
  BY <1>1 DEF RehydrateRestored, Actors, ActorsOf, Dumped, DumpedOf, RestoreOps, TypeOK, ProcRow
<1>3. PICK copied \in SUBSET {t, i} :
         /\ stored' = stored \cup copied
         /\ db' = [db EXCEPT
              !.history[t] = Rehydrated(t, proc[p].source, t \in copied),
              !.history[i] = Rehydrated(i, proc[p].protection, i \in copied)]
  BY <1>1 DEF RehydrateRestored
<1>4. PICK s, q : /\ s = Rehydrated(t, proc[p].source, t \in copied)
                  /\ q = Rehydrated(i, proc[p].protection, i \in copied)
  OBVIOUS
<1>5. s \in Row0 /\ q \in Row0 /\ s.status = "VERIFIED" /\ q.status = "VERIFIED"
  <2>1. db \in Database
    BY DEF TypeOK
  <2> DEFINE one == t \in copied
             two == i \in copied
  <2>2. one \in BOOLEAN /\ two \in BOOLEAN
    OBVIOUS
  <2>3. /\ s = Rehydrated(t, proc[p].source, one)
        /\ q = Rehydrated(i, proc[p].protection, two)
    BY <1>4
  <2> HIDE DEF one, two
  <2>. QED
    BY <1>2, <2>1, <2>2, <2>3, RehydratedType
<1>6. Tame /\ db'.history[t].status = "VERIFIED" /\ db'.history[i].status = "VERIFIED"
  BY <1>2, <1>3, <1>4, <1>5, RowsTame DEF TypeOK
<1>7. Frame(p) /\ SameRequest(p) /\ proc'[p].op = "restored"
  BY ToType DEF RehydrateRestored, TypeOK, Ops, RestoreOps
<1>8. TypeOK'
  BY <1>2, <1>3, <1>6, <1>7 DEF RehydrateRestored, TypeOK, Tame, Frame, flags, numbers
<1>9. Known(proc[p].target)' /\ Known(proc[p].id)'
  <2>1. proc'[p].target = t /\ proc'[p].id = i
    BY <1>1, <1>7 DEF SameRequest
  <2>2. Known(proc[p].target)' <=> db'.history[t].status # "ABSENT"
    BY <2>1 DEF Known, Row
  <2>3. Known(proc[p].id)' <=> db'.history[i].status # "ABSENT"
    BY <2>1 DEF Known, Row
  <2>. QED
    BY <1>6, <2>2, <2>3
<1>. QED
  BY <1>2, <1>6, <1>7, <1>8, <1>9 DEF RehydrateRestored, Restores

\* LeaveMaintenance ends a restore or an import.
LEMMA LeaveKind ==
    ASSUME TypeOK, NEW p \in Process, LeaveMaintenance(p)
    PROVE  TypeOK' /\ Leaves(p)
<1>1. Frame(p) /\ proc'[p] = IdleProc
  BY EndsType DEF LeaveMaintenance, TypeOK
<1>2. TypeOK' /\ Tame
  BY <1>1 DEF LeaveMaintenance, TypeOK, Frame, files, numbers, Tame, Known, Row
<1>. QED
  BY <1>1, <1>2 DEF LeaveMaintenance, Leaves, files

(***************************************************************************)
(* The import.                                                             *)
(***************************************************************************)

\* LoadBootstrap takes a number.
LEMMA ImportKind ==
    ASSUME TypeOK, NEW p \in Process, LoadBootstrap(p)
    PROVE  TypeOK' /\ TakesImport(p)
<1>1. PICK b \in Id \ used, data \in SUBSET Write :
         /\ used' = used \cup {b}
         /\ proc' = [proc EXCEPT ![p].op = "import", ![p].id = b, ![p].before = data]
  BY DEF LoadBootstrap
<1> DEFINE r == [proc[p] EXCEPT !.op = "import", !.id = b, !.before = data]
<1>2. \A x \in ProcRow :
        LET y == [x EXCEPT !.op = "import", !.id = b, !.before = data]
        IN y \in ProcRow /\ y.op = "import" /\ y.id = b /\ y.target = x.target
  BY DEF ProcRow
<1>3. /\ r \in ProcRow /\ r.op = "import" /\ r.id = b /\ r.target = proc[p].target
      /\ proc' = [proc EXCEPT ![p] = r]
  BY <1>1, <1>2 DEF TypeOK
<1> HIDE DEF r
<1>4. Frame(p) /\ proc'[p] = r
  BY <1>3, Becomes DEF TypeOK
<1>5. TypeOK'
  BY <1>1, <1>4 DEF LoadBootstrap, TypeOK, Frame, flags, numbers
<1>. QED
  BY <1>1, <1>3, <1>4, <1>5 DEF LoadBootstrap, TakesImport

\* EnterBootstrap takes over, or is refused.
LEMMA EnterImportKind ==
    ASSUME TypeOK, NEW p \in Process, EnterBootstrap(p)
    PROVE  TypeOK' /\ (TakesOver(p) \/ Leaves(p))
<1> DEFINE r == [proc[p] EXCEPT !.op = "overwrite"]
<1>1. \A x \in ProcRow :
        LET y == [x EXCEPT !.op = "overwrite"]
        IN y \in ProcRow /\ y.op = "overwrite" /\ y.id = x.id /\ y.target = x.target
  BY DEF ProcRow, ImportOps
<1>2. /\ r \in ProcRow /\ r.op = "overwrite" /\ r.id = proc[p].id
      /\ r.target = proc[p].target
  BY <1>1 DEF TypeOK
<1>3. Enters(p, r) /\ proc[p].op = "import"
  BY DEF EnterBootstrap
<1> HIDE DEF r
<1>. QED
  BY <1>2, <1>3, EntersKind

\* OverwriteDatabase makes what was uploaded the database.
LEMMA OverwriteKind ==
    ASSUME TypeOK, NEW p \in Process, OverwriteDatabase(p)
    PROVE  TypeOK' /\ Replaces(p)
<1>1. proc[p].before \in SUBSET Write /\ proc[p].op = "overwrite"
  BY DEF OverwriteDatabase, TypeOK, ProcRow
<1>2. db' = [data |-> proc[p].before, history |-> [b \in Id |-> NoRow], admin |-> TRUE]
  BY DEF OverwriteDatabase, Empty
<1>3. db' \in Database /\ db'.data = proc[p].before
  BY <1>1, <1>2, NoRowType DEF Database
<1>4. Frame(p) /\ SameRequest(p) /\ proc'[p].op = "imported"
  BY ToType DEF OverwriteDatabase, TypeOK, Ops, ImportOps
<1>5. TypeOK'
  BY <1>3, <1>4 DEF OverwriteDatabase, TypeOK, Frame, files, flags, numbers
<1>. QED
  BY <1>1, <1>3, <1>4, <1>5 DEF OverwriteDatabase, Replaces, files

\* RecordImport writes a row, and the data stay.
LEMMA RecordImportKind ==
    ASSUME TypeOK, Actors, NEW p \in Process, RecordImport(p)
    PROVE  TypeOK' /\ Restores(p)
<1> DEFINE n == Cardinality(db.data)
           row == [NoRow EXCEPT !.status = "VERIFIED", !.completed = clock', !.counted = n]
<1>1. proc[p].id \in Id /\ clock' \in Nat /\ n \in Nat /\ SetRow(proc[p].id, row)
  BY CountType DEF RecordImport, Actors, ActorsOf, ImportOps, TypeOK
<1> HIDE DEF n
<1>2. \A x \in Row0 :
        LET y == [x EXCEPT !.status = "VERIFIED", !.completed = clock', !.counted = n]
        IN y \in Row0 /\ y.status # "ABSENT"
  BY <1>1 DEF Row0
<1>3. row \in Row0 /\ row.status # "ABSENT"
  BY <1>2, NoRowType
<1> HIDE DEF row
<1>4. Tame
  BY <1>1, <1>3, SetRowTame DEF TypeOK
<1>5. Frame(p) /\ SameRequest(p) /\ proc'[p].op = "leave"
  BY ToType DEF RecordImport, TypeOK, Ops
<1>6. TypeOK'
  BY <1>1, <1>4, <1>5 DEF RecordImport, TypeOK, Tame, Frame, files, flags
<1>. QED
  BY <1>4, <1>5, <1>6 DEF RecordImport, Restores, files

(***************************************************************************)
(* Verify, lock, the business and the end of the server.                   *)
(***************************************************************************)

\* LoadVerify chooses the backup to verify.
LEMMA LoadVerifyKind ==
    ASSUME TypeOK, NEW p \in Process, NEW b \in Id, LoadVerify(p, b)
    PROVE  TypeOK' /\ Chooses(p)
<1> DEFINE op == IF Row(b).counted = None THEN "reject" ELSE "verify"
           r == [proc[p] EXCEPT !.op = op, !.target = b]
<1>1. op \in {"reject", "verify"} /\ proc[p] \in ProcRow /\ proc[p].op = "idle"
  BY DEF LoadVerify, TypeOK
<1>2. proc' = [proc EXCEPT ![p] = r]
  BY DEF LoadVerify, TypeOK
<1> HIDE DEF op
<1>3. \A x \in ProcRow :
        LET y == [x EXCEPT !.op = op, !.target = b]
        IN y \in ProcRow /\ y.op = op /\ y.id = x.id /\ y.target = b
  BY <1>1 DEF ProcRow
<1>4. r \in ProcRow /\ r.op = op /\ r.id = proc[p].id /\ r.target = b
  BY <1>1, <1>3
<1> HIDE DEF r
<1>5. Frame(p) /\ proc'[p] = r
  BY <1>2, <1>4, Becomes DEF TypeOK
<1>6. TypeOK'
  BY <1>5 DEF LoadVerify, TypeOK, Frame, files, flags, numbers
<1>. QED
  BY <1>1, <1>4, <1>5, <1>6 DEF LoadVerify, Chooses, files

\* Verify changes the row of its backup if it is still there.
LEMMA VerifyKind ==
    ASSUME TypeOK, Actors, NEW p \in Process, Verify(p)
    PROVE  TypeOK' /\ Leaves(p)
<1> DEFINE b == proc[p].target
           status == IF proc[p].op = "reject" THEN "FAILED" ELSE "VERIFIED"
<1>1. b \in Id /\ Row(b) \in Row0 /\ status \in {"FAILED", "VERIFIED"}
  BY RowType DEF Verify, Actors, ActorsOf, TypeOK
<1>2. IF Known(b) THEN SetRow(b, [Row(b) EXCEPT !.status = status]) ELSE UNCHANGED db
  BY DEF Verify
<1> HIDE DEF status
<1>3. \A x \in Row0 : LET y == [x EXCEPT !.status = status]
                      IN y \in Row0 /\ y.status # "ABSENT"
  BY <1>1 DEF Row0
<1>4. Tame
  <2>1. CASE Known(b)
    BY <1>1, <1>2, <1>3, <2>1, SetRowTame DEF TypeOK
  <2>2. CASE ~ Known(b)
    BY <1>2, <2>2 DEF TypeOK, Tame, Known, Row
  <2>. QED
    BY <2>1, <2>2
<1>5. Frame(p) /\ proc'[p] = IdleProc
  BY EndsType DEF Verify, TypeOK
<1>6. TypeOK'
  BY <1>4, <1>5 DEF Verify, TypeOK, Tame, Frame, files, flags, numbers
<1>. QED
  BY <1>4, <1>5, <1>6 DEF Verify, Leaves, files

\* Lock changes a row that is there.
LEMMA LockKind ==
    ASSUME TypeOK, NEW b \in Id, NEW locked \in BOOLEAN, Lock(b, locked)
    PROVE  TypeOK' /\ Quiet
<1>1. Row(b) \in Row0 /\ Row(b).status # "ABSENT"
  BY RowType DEF Lock, TypeOK, Known
<1>2. \A x \in Row0 : LET y == [x EXCEPT !.locked = locked]
                      IN y \in Row0 /\ y.status = x.status
  BY DEF Row0
<1>3. Tame
  BY <1>1, <1>2, SetRowTame DEF Lock, TypeOK
<1>4. TypeOK'
  BY <1>3, BackupAssumption DEF Lock, TypeOK, Tame, files, flags
<1>. QED
  BY <1>3, <1>4 DEF Lock, Quiet, files

\* The business only adds to the database.
LEMMA BusinessKind ==
    ASSUME TypeOK,
           \/ CreateAdmin
           \/ \E w \in Write : Admit(w) \/ CommitWrite(w)
           \/ UNCHANGED vars
    PROVE  TypeOK' /\ Quiet
<1>1. CASE CreateAdmin
  <2>1. \A d \in Database : LET e == [d EXCEPT !.admin = TRUE]
                            IN e \in Database /\ e.data = d.data /\ e.history = d.history
    BY DEF Database
  <2>2. db' \in Database /\ db'.data = db.data /\ db'.history = db.history
    BY <1>1, <2>1 DEF CreateAdmin, TypeOK
  <2>3. Tame
    BY <2>2 DEF Tame, Known, Row
  <2>. QED
    BY <1>1, <2>2, <2>3 DEF CreateAdmin, TypeOK, Quiet, files, flags, numbers
<1>2. ASSUME NEW w \in Write, Admit(w)
      PROVE  TypeOK' /\ Quiet
  BY <1>2 DEF Admit, TypeOK, Quiet, files, flags, numbers, Tame, Known, Row
<1>3. ASSUME NEW w \in Write, CommitWrite(w)
      PROVE  TypeOK' /\ Quiet
  <2>1. \A d \in Database : LET e == [d EXCEPT !.data = @ \cup {w}]
                            IN /\ e \in Database /\ e.data = d.data \cup {w}
                               /\ e.history = d.history
    BY DEF Database
  <2>2. db' \in Database /\ db'.data = db.data \cup {w} /\ db'.history = db.history
    BY <1>3, <2>1 DEF CommitWrite, TypeOK
  <2>3. Tame
    BY <2>2 DEF Tame, Known, Row
  <2>. QED
    BY <1>3, <2>2, <2>3 DEF CommitWrite, TypeOK, Quiet, files, flags, numbers
<1>4. CASE UNCHANGED vars
  BY <1>4 DEF vars, TypeOK, Quiet, files, flags, numbers, Tame, Known, Row
<1>. QED
  BY <1>1, <1>2, <1>3, <1>4

\* A crash ends every request and resets the flags.
LEMMA CrashKind ==
    ASSUME TypeOK, Crash
    PROVE  TypeOK' /\ Stops
BY IdleType DEF Crash, TypeOK, Stops, files, numbers

(***************************************************************************)
(* Every step is one of these.                                             *)
(***************************************************************************)

Goes(p) ==
    \/ Backs(p) \/ Restores(p) \/ Replaces(p) \/ TakesNumber(p) \/ TakesImport(p)
    \/ Chooses(p) \/ TakesOver(p) \/ Leaves(p) \/ Hands(p)

\* A step of the specification is quiet, stops the server, or is one of a request.
LEMMA StepKinds ==
    ASSUME TypeOK, Actors, Dumped, [Next]_vars
    PROVE  TypeOK' /\ (Quiet \/ Stops \/ \E p \in Process : Goes(p))
<1>1. CASE \/ CreateAdmin
           \/ \E w \in Write : Admit(w) \/ CommitWrite(w)
           \/ UNCHANGED vars
  BY <1>1, BusinessKind
<1>2. ASSUME NEW p \in Process, StartBackup(p) \/ BackupStep(p)
      PROVE  TypeOK' /\ Goes(p)
  BY <1>2, StartKind, RecordKind, DumpKind, ManifestKind, StoreKind, CompleteKind,
     SelectKind, CheckKind, DeleteKind, MarkKind, EndKind, FailKind
     DEF BackupStep, Goes
<1>3. ASSUME NEW p \in Process, RestoreStep(p)
      PROVE  TypeOK' /\ Goes(p)
  BY <1>3, EnterKind, ProtectKind, GoesOnKind, ReplaceKind, RehydrateKind,
     RollbackKind, LeaveKind
     DEF RestoreStep, Goes
<1>4. ASSUME NEW p \in Process, LoadBootstrap(p) \/ BootstrapStep(p) \/ Verify(p)
      PROVE  TypeOK' /\ Goes(p)
  BY <1>4, ImportKind, EnterImportKind, OverwriteKind, RecordImportKind, GoesOnKind,
     VerifyKind
     DEF BootstrapStep, Goes
<1>5. ASSUME NEW p \in Process, NEW b \in Id, LoadRestore(p, b) \/ LoadVerify(p, b)
      PROVE  TypeOK' /\ Goes(p)
  BY <1>5, LoadKind, LoadVerifyKind DEF Goes
<1>6. ASSUME NEW b \in Id, NEW locked \in BOOLEAN, Lock(b, locked)
      PROVE  TypeOK' /\ Quiet
  BY <1>6, LockKind
<1>7. CASE Crash
  BY <1>7, CrashKind
<1>. QED
  BY <1>1, <1>2, <1>3, <1>4, <1>5, <1>6, <1>7 DEF Next

\* What a step of p leaves of the dumps: a dump is written once.
DumpsOnce(p) ==
    \A b \in Id : dump'[b] # dump[b] =>
                    b = proc[p].id /\ dump[b] = NoDump /\ dump'[b] # NoDump

\* No step of a request writes a dump a second time.
LEMMA GoesDumpsOnce ==
    ASSUME TypeOK, Actors, Dumped, NEW p \in Process, Goes(p)
    PROVE  DumpsOnce(p) /\ Frame(p)
<1>1. CASE UNCHANGED dump
  BY <1>1 DEF DumpsOnce, Goes, Backs, Restores, Replaces, TakesNumber, TakesImport,
              Chooses, TakesOver, Leaves, Hands
<1>2. CASE dump' # dump
  <2>1. Frame(p) /\ proc[p].op = "dump" /\ dump' = [dump EXCEPT ![proc[p].id] = db]
    BY <1>2 DEF Goes, Backs, Restores, Replaces, TakesNumber, TakesImport,
                Chooses, TakesOver, Leaves, Hands
  <2>2. proc[p].id \in Id /\ dump[proc[p].id] = NoDump
    BY <2>1 DEF Actors, ActorsOf, BackupOps, Dumped, DumpedOf
  <2>3. db # NoDump
    BY <2>2, DatabaseIsDump DEF TypeOK
  <2>. QED
    BY <2>1, <2>2, <2>3 DEF DumpsOnce, TypeOK
<1>. QED
  BY <1>1, <1>2

\* Every step of a request keeps Actors.
LEMMA ActorsStep ==
    ASSUME TypeOK, Actors, NEW p \in Process, Goes(p)
    PROVE  Actors'
<1>1. ASSUME NEW q \in Process, q # p, Frame(p)
      PROVE  ActorsOf(q)'
  BY <1>1 DEF Actors, ActorsOf, Frame
<1>2. CASE Backs(p)
  BY <1>1, <1>2 DEF Backs, SameRequest, Actors, ActorsOf, Dumping, BackupOps, RestoreOps,
                    ImportOps
<1>3. CASE Restores(p)
  BY <1>1, <1>3 DEF Restores, SameRequest, Actors, ActorsOf, BackupOps, RestoreOps,
                    ImportOps
<1>4. CASE Replaces(p)
  BY <1>1, <1>4 DEF Replaces, SameRequest, Actors, ActorsOf, BackupOps, RestoreOps,
                    ImportOps
<1>5. CASE TakesNumber(p)
  BY <1>1, <1>5 DEF TakesNumber, Actors, ActorsOf, BackupOps, RestoreOps, ImportOps
<1>6. CASE TakesImport(p)
  BY <1>1, <1>6 DEF TakesImport, Actors, ActorsOf, BackupOps, RestoreOps, ImportOps
<1>7. CASE Chooses(p)
  BY <1>1, <1>7 DEF Chooses, Actors, ActorsOf, BackupOps, RestoreOps, ImportOps
<1>8. CASE TakesOver(p)
  BY <1>1, <1>8 DEF TakesOver, Actors, ActorsOf, BackupOps, RestoreOps, ImportOps
<1>9. CASE Leaves(p)
  BY <1>1, <1>9 DEF Leaves, IdleProc, Actors, ActorsOf, BackupOps, RestoreOps, ImportOps
<1>10. CASE Hands(p)
  <2>1. proc[p].target \in Id /\ proc[p].id \in Id
    BY <1>10 DEF Hands, TypeOK, ProcRow, Actors, ActorsOf, BackupOps
  <2>. QED
    BY <1>1, <1>10, <2>1 DEF Hands, SameRequest, Actors, ActorsOf, BackupOps, RestoreOps,
                        ImportOps
<1>. QED
  BY <1>2, <1>3, <1>4, <1>5, <1>6, <1>7, <1>8, <1>9, <1>10 DEF Goes

\* A number stays with its request, is new, or is given up.
LEMMA NumbersStay ==
    ASSUME Numbered, NEW p \in Process, Frame(p), used \subseteq used',
           \/ proc'[p].id = proc[p].id
           \/ proc'[p].id = None
           \/ proc'[p].id \notin used /\ proc'[p].id \in used',
           \A b \in Id \ used' : dump'[b] = dump[b]
    PROVE  Numbered'
<1>1. ASSUME NEW q \in Process
      PROVE  proc'[q].id # None => proc'[q].id \in used'
  BY <1>1 DEF Numbered, Frame
<1>2. ASSUME NEW q \in Process, NEW r \in Process, proc'[q].id = proc'[r].id, q # r
      PROVE  proc'[q].id = None
  BY <1>2 DEF Numbered, Frame
<1>. QED
  BY <1>1, <1>2 DEF Numbered

\* Every step of a request keeps Numbered.
LEMMA NumberedStep ==
    ASSUME TypeOK, Actors, Numbered, Dumped, NEW p \in Process, Goes(p)
    PROVE  Numbered'
<1>1. used \subseteq used'
  BY DEF Goes, Backs, Restores, Replaces, TakesNumber, TakesImport, Chooses, TakesOver,
         Leaves, Hands
<1>2. \/ proc'[p].id = proc[p].id
      \/ proc'[p].id = None
      \/ proc'[p].id \notin used /\ proc'[p].id \in used'
  BY DEF Goes, Backs, Restores, Replaces, TakesNumber, TakesImport, Chooses, TakesOver,
         Leaves, Hands, SameRequest, IdleProc
<1>3. DumpsOnce(p) /\ Frame(p)
  BY GoesDumpsOnce
<1>4. \A b \in Id \ used' : dump'[b] = dump[b]
  <2>1. ASSUME NEW b \in Id, dump'[b] # dump[b]
        PROVE  b \in used
    <3>1. b = proc[p].id /\ b # None
      BY <1>3, <2>1, BackupAssumption DEF DumpsOnce
    <3>. QED
      BY <3>1 DEF Numbered
  <2>. QED
    BY <1>1, <2>1
<1>. QED
  BY <1>1, <1>2, <1>3, <1>4, NumbersStay

\* The flags follow the request that backs up and the request that holds maintenance.
LEMMA FlagsFollow ==
    ASSUME Alone, NEW p \in Process, Frame(p),
           \/ /\ proc[p].op \in BackupOps <=> proc'[p].op \in BackupOps
              /\ backupRunning' <=> backupRunning
           \/ proc'[p].op \in BackupOps /\ ~ backupRunning /\ backupRunning'
           \/ proc[p].op \in BackupOps /\ proc'[p].op \notin BackupOps /\ ~ backupRunning',
           \/ /\ p \in Restoring <=> p \in Restoring'
              /\ maintenance' <=> maintenance
              /\ restoreRunning' <=> restoreRunning
           \/ p \in Restoring' /\ ~ maintenance /\ maintenance' /\ restoreRunning'
           \/ p \in Restoring /\ p \notin Restoring' /\ ~ maintenance' /\ ~ restoreRunning'
    PROVE  Alone'
<1>1. \A q \in Process : q # p => (q \in Restoring <=> q \in Restoring')
  BY DEF Restoring, Frame
<1>2. Restoring \subseteq Process /\ Restoring' \subseteq Process
  BY DEF Restoring
<1>3. \A q, r \in Restoring' : q = r
  BY <1>1, <1>2 DEF Alone, FlagsOwned
<1>4. (maintenance' <=> Restoring' # {}) /\ (restoreRunning' <=> Restoring' # {})
  BY <1>1, <1>2 DEF Alone, FlagsOwned
<1>5. backupRunning' <=> \E q \in Process : proc'[q].op \in BackupOps
  BY DEF Alone, FlagsOwned, Frame
<1>6. \A q, r \in Process : proc'[q].op \in BackupOps /\ proc'[r].op \in BackupOps => q = r
  BY DEF Alone, FlagsOwned, Frame
<1>. QED
  BY <1>3, <1>4, <1>5, <1>6 DEF Alone, FlagsOwned

\* Every step of a request keeps Alone: enter() and the flag of backups refuse.
LEMMA AloneStep ==
    ASSUME TypeOK, Actors, Alone, NEW p \in Process, Goes(p)
    PROVE  Alone'
<1>1. CASE Backs(p)
  BY <1>1, FlagsFollow DEF Backs, SameRequest, flags, Restoring, Dumping, BackupOps,
                           RestoreOps, ImportOps
<1>2. CASE Restores(p)
  BY <1>2, FlagsFollow DEF Restores, SameRequest, flags, Restoring, BackupOps,
                           RestoreOps, ImportOps
<1>3. CASE Replaces(p)
  BY <1>3, FlagsFollow DEF Replaces, SameRequest, flags, Restoring, BackupOps,
                           RestoreOps, ImportOps
<1>4. CASE TakesNumber(p)
  <2>1. p \in Restoring <=> p \in Restoring'
    BY <1>4, BackupAssumption DEF TakesNumber, Restoring, Actors, ActorsOf, BackupOps,
                                  RestoreOps, ImportOps
  <2>. QED
    BY <1>4, <2>1, FlagsFollow DEF TakesNumber, BackupOps
<1>5. CASE TakesImport(p)
  BY <1>5, FlagsFollow DEF TakesImport, flags, Restoring, BackupOps, RestoreOps, ImportOps
<1>6. CASE Chooses(p)
  BY <1>6, FlagsFollow DEF Chooses, flags, Restoring, BackupOps, RestoreOps, ImportOps
<1>7. CASE TakesOver(p)
  BY <1>7, FlagsFollow DEF TakesOver, Restoring, BackupOps, RestoreOps, ImportOps
<1>8. CASE Leaves(p)
  <2>1. p \notin Restoring' /\ proc'[p].op \notin BackupOps /\ Frame(p)
    BY <1>8 DEF Leaves, IdleProc, Restoring, BackupOps, RestoreOps, ImportOps
  <2>2. CASE proc[p].op \in {"verify", "reject"} /\ UNCHANGED flags
    BY <2>1, <2>2, FlagsFollow DEF flags, Restoring, BackupOps, RestoreOps, ImportOps
  <2>3. CASE /\ proc[p].op \in {"enter", "import"} /\ maintenance /\ restoreRunning'
             /\ UNCHANGED <<backupRunning, maintenance>>
    BY <2>1, <2>3, FlagsFollow DEF Alone, FlagsOwned, Restoring, BackupOps, RestoreOps,
                                   ImportOps
  <2>4. CASE /\ proc[p].op \in BackupOps /\ proc[p].target = None /\ ~ backupRunning'
             /\ UNCHANGED <<restoreRunning, maintenance>>
    BY <2>1, <2>4, FlagsFollow DEF Restoring, BackupOps, RestoreOps, ImportOps
  <2>5. CASE /\ proc[p].op \in {"restored", "kept", "leave"}
             /\ ~ restoreRunning' /\ ~ maintenance' /\ UNCHANGED backupRunning
    BY <2>1, <2>5, FlagsFollow DEF Restoring, BackupOps, RestoreOps, ImportOps
  <2>. QED
    BY <1>8, <2>2, <2>3, <2>4, <2>5 DEF Leaves
<1>9. CASE Hands(p)
  BY <1>9, FlagsFollow DEF Hands, SameRequest, Restoring, BackupOps, RestoreOps, ImportOps
<1>. QED
  BY <1>1, <1>2, <1>3, <1>4, <1>5, <1>6, <1>7, <1>8, <1>9 DEF Goes

\* What the other requests rest on is still dumped.
LEMMA DumpedOthers ==
    ASSUME TypeOK, Actors, Numbered, Dumped, NEW p \in Process, DumpsOnce(p), Frame(p),
           NEW q \in Process, q # p
    PROVE  DumpedOf(q)'
<1>1. proc'[q] = proc[q] /\ proc[q] \in ProcRow
  BY DEF Frame, TypeOK
<1>2. ASSUME proc[q].op \in {"record", "dump"}
      PROVE  dump'[proc[q].id] = NoDump
  <2>1. proc[q].id \in Id /\ dump[proc[q].id] = NoDump
    BY <1>2 DEF Actors, ActorsOf, BackupOps, Dumped, DumpedOf
  <2>2. proc[q].id # proc[p].id
    BY <2>1, BackupAssumption DEF Numbered
  <2>. QED
    BY <2>1, <2>2 DEF DumpsOnce
<1>3. \A b \in Id : dump[b] # NoDump => dump'[b] # NoDump
  BY DEF DumpsOnce
<1>4. proc[q].op \in Dumping \cup RestoreOps => proc[q].id \in Id
  BY DEF Actors, ActorsOf, Dumping
<1>5. proc[q].target # None => proc[q].target \in Id
  BY <1>1 DEF ProcRow
<1>6. proc[q].op \in RestoreOps => proc[q].target \in Id
  BY DEF Actors, ActorsOf
<1>. QED
  BY <1>1, <1>2, <1>3, <1>4, <1>5, <1>6 DEF Dumped, DumpedOf

\* Every step of a request keeps Dumped.
LEMMA DumpedStep ==
    ASSUME TypeOK, Actors, Numbered, Dumped, NEW p \in Process, Goes(p)
    PROVE  Dumped'
<1>1. DumpsOnce(p) /\ Frame(p)
  BY GoesDumpsOnce
<1>2. \A q \in Process : q # p => DumpedOf(q)'
  BY <1>1, DumpedOthers
<1>3. DumpedOf(p)
  BY DEF Dumped
<1>4. CASE Backs(p)
  <2>1. proc[p].id \in Id /\ (proc[p].target # None => proc[p].target \in Id)
    BY <1>4 DEF Backs, Actors, ActorsOf, Dumping, BackupOps, TypeOK, ProcRow
  <2>2. db # NoDump
    BY <2>1, DatabaseIsDump DEF TypeOK
  <2>3. dump \in [Id -> Database \cup {NoDump}]
    BY DEF TypeOK
  <2>4. DumpedOf(p)'
    BY <1>3, <1>4, <2>1, <2>2, <2>3 DEF Backs, SameRequest, DumpedOf, Dumping, BackupOps,
                                        RestoreOps
  <2>. QED
    BY <1>2, <2>4 DEF Dumped
<1>5. CASE Restores(p)
  BY <1>2, <1>3, <1>5 DEF Restores, SameRequest, Dumped, DumpedOf, Dumping, BackupOps,
                          RestoreOps
<1>6. CASE Replaces(p)
  BY <1>2, <1>3, <1>6 DEF Replaces, SameRequest, Dumped, DumpedOf, Dumping, BackupOps,
                          RestoreOps
<1>7. CASE TakesNumber(p)
  <2>1. dump[proc'[p].id] = NoDump
    BY <1>7 DEF TakesNumber, Numbered
  <2>2. proc[p].op = "idle" => proc[p].target = None
    BY DEF Actors, ActorsOf
  <2>. QED
    BY <1>2, <1>7, <2>1, <2>2 DEF TakesNumber, Dumped, DumpedOf, Dumping, BackupOps,
                                  RestoreOps
<1>8. CASE TakesImport(p) \/ Chooses(p) \/ TakesOver(p) \/ Leaves(p)
  BY <1>2, <1>8 DEF TakesImport, Chooses, TakesOver, Leaves, IdleProc, Dumped, DumpedOf,
                    Dumping, BackupOps, RestoreOps
<1>9. CASE Hands(p)
  BY <1>2, <1>3, <1>9 DEF Hands, SameRequest, Dumped, DumpedOf, Dumping, BackupOps,
                          RestoreOps
<1>. QED
  BY <1>4, <1>5, <1>6, <1>7, <1>8, <1>9 DEF Goes

\* The steps that do not replace the database leave what others have found in it.
LEMMA KeptOthers ==
    ASSUME TypeOK, Actors, Alone, Dumped, Kept, NEW p \in Process, DumpsOnce(p), Frame(p),
           Tame \/ p \in Restoring, NEW q \in Restoring', q # p
    PROVE  KeptOf(q)'
<1>1. q \in Process /\ proc'[q] = proc[q] /\ q \in Restoring
  BY DEF Restoring, Frame
<1>2. Tame /\ KeptOf(q)
  BY <1>1 DEF Alone, Kept
<1>3. \A b \in Id : dump[b] # NoDump => dump'[b] = dump[b]
  BY DEF DumpsOnce
<1>4. proc[q].op \in Dumping \cup RestoreOps => dump'[proc[q].id] = dump[proc[q].id]
  BY <1>1, <1>3 DEF Actors, ActorsOf, Dumped, DumpedOf, Dumping
<1>5. proc[q].op \in RestoreOps => dump'[proc[q].target] = dump[proc[q].target]
  BY <1>1, <1>3 DEF Actors, ActorsOf, Dumped, DumpedOf
<1>6. db.data \subseteq db'.data
  BY <1>2 DEF Tame
<1>7. proc[q].op = "restored" => /\ db'.history[proc[q].target].status # "ABSENT"
                                 /\ db'.history[proc[q].id].status # "ABSENT"
  BY <1>1, <1>2 DEF Tame, KeptOf, Known, Row, Actors, ActorsOf, RestoreOps
<1>. QED
  BY <1>1, <1>2, <1>4, <1>5, <1>6, <1>7 DEF KeptOf, Known, Row, RestoreOps

\* Every step of a request keeps Kept.
LEMMA KeptStep ==
    ASSUME TypeOK, Actors, Alone, Numbered, Dumped, Kept, NEW p \in Process, Goes(p)
    PROVE  Kept'
<1>1. DumpsOnce(p) /\ Frame(p)
  BY GoesDumpsOnce
<1>2. Tame \/ p \in Restoring
  <2>1. UNCHANGED db => Tame
    BY DEF Tame, TypeOK, Known, Row
  <2>. QED
    BY <2>1 DEF Goes, Backs, Restores, Replaces, TakesNumber, TakesImport, Chooses,
                TakesOver, Leaves, Hands, Restoring, RestoreOps, ImportOps
<1>3. \A q \in Restoring' : q # p => KeptOf(q)'
  BY <1>1, <1>2, KeptOthers
<1>4. SUFFICES ASSUME p \in Restoring'
               PROVE  KeptOf(p)'
  BY <1>3 DEF Kept
<1>5. CASE Backs(p)
  <2>1. proc[p].target # None /\ p \in Restoring /\ proc[p].id \in Id
    BY <1>4, <1>5 DEF Backs, SameRequest, Restoring, Dumping, BackupOps, RestoreOps,
                      ImportOps, Actors, ActorsOf
  <2>2. KeptOf(p) /\ dump \in [Id -> Database \cup {NoDump}]
    BY <2>1 DEF Kept, TypeOK
  <2>3. \/ proc'[p].op = "dump" /\ proc'[p].before \subseteq db'.data
        \/ proc'[p].op \in Dumping /\ proc'[p].before \subseteq dump'[proc'[p].id].data
    <3>1. CASE proc[p].op = "record"
      BY <1>5, <2>2, <3>1 DEF Backs, SameRequest, Tame, KeptOf, Dumping, BackupOps
    <3>2. CASE proc[p].op = "dump"
      <4>1. /\ dump' = [dump EXCEPT ![proc[p].id] = db]
            /\ proc'[p].op = "manifest" /\ SameRequest(p)
        BY <1>5, <3>2 DEF Backs, Dumping
      <4>2. dump'[proc'[p].id] = db
        BY <2>1, <2>2, <4>1 DEF SameRequest
      <4>. QED
        BY <2>2, <3>2, <4>1, <4>2 DEF SameRequest, KeptOf, Dumping, BackupOps
    <3>3. CASE proc[p].op \in Dumping
      BY <1>5, <2>2, <3>3 DEF Backs, SameRequest, KeptOf, Dumping
    <3>. QED
      BY <1>5, <3>1, <3>2, <3>3 DEF Backs
  <2>. QED
    BY <2>3 DEF KeptOf, Dumping, BackupOps, RestoreOps
<1>6. CASE Restores(p)
  <2>1. p \in Restoring
    BY <1>4, <1>6 DEF Restores, Restoring, RestoreOps, ImportOps, BackupOps
  <2>2. KeptOf(p)
    BY <2>1 DEF Kept
  <2>. QED
    BY <1>6, <2>2 DEF Restores, SameRequest, Tame, KeptOf, Dumping, BackupOps, RestoreOps
<1>7. CASE Replaces(p)
  <2>1. p \in Restoring
    BY <1>4, <1>7 DEF Replaces, Restoring, RestoreOps, ImportOps, BackupOps
  <2>2. KeptOf(p)
    BY <2>1 DEF Kept
  <2>. QED
    BY <1>7, <2>2 DEF Replaces, SameRequest, KeptOf, Dumping, BackupOps, RestoreOps
<1>8. CASE TakesNumber(p)
  <2>1. proc[p].op = "protect" /\ p \in Restoring
    BY <1>4, <1>8 DEF TakesNumber, Restoring, Actors, ActorsOf, BackupOps, RestoreOps,
                      ImportOps
  <2>2. KeptOf(p)
    BY <2>1 DEF Kept
  <2>. QED
    BY <1>8, <2>1, <2>2 DEF TakesNumber, KeptOf, Dumping, BackupOps, RestoreOps
<1>9. CASE TakesImport(p) \/ Chooses(p) \/ Leaves(p)
  BY <1>4, <1>9 DEF TakesImport, Chooses, Leaves, IdleProc, Restoring, BackupOps,
                    RestoreOps, ImportOps
<1>10. CASE TakesOver(p)
  BY <1>10 DEF TakesOver, KeptOf, Dumping, BackupOps, RestoreOps
<1>11. CASE Hands(p)
  <2>1. p \in Restoring
    BY <1>11 DEF Hands, Restoring, BackupOps
  <2>2. KeptOf(p)
    BY <2>1 DEF Kept
  <2>. QED
    BY <1>11, <2>2 DEF Hands, SameRequest, KeptOf, Dumping, BackupOps, RestoreOps
<1>. QED
  BY <1>5, <1>6, <1>7, <1>8, <1>9, <1>10, <1>11 DEF Goes

\* Nothing that a request rests on is disturbed by a step that is quiet.
LEMMA QuietStep ==
    ASSUME BackupInv, TypeOK', Quiet
    PROVE  BackupInv'
<1>1. Actors' /\ Alone' /\ Numbered' /\ Dumped'
  BY DEF BackupInv, Quiet, flags, Actors, ActorsOf, Alone, FlagsOwned, Restoring,
         Numbered, Dumped, DumpedOf
<1>2. ASSUME NEW q \in Restoring'
      PROVE  KeptOf(q)'
  <2>1. q \in Process /\ q \in Restoring /\ proc' = proc /\ dump' = dump
    BY <1>2 DEF Restoring, Quiet
  <2>2. KeptOf(q) /\ db.data \subseteq db'.data
    BY <2>1 DEF BackupInv, Kept, Quiet, Tame
  <2>3. proc[q].op = "restored" => /\ db'.history[proc[q].target].status # "ABSENT"
                                   /\ db'.history[proc[q].id].status # "ABSENT"
    BY <2>1, <2>2 DEF BackupInv, Quiet, Tame, KeptOf, Known, Row, Actors, ActorsOf,
                      RestoreOps
  <2>. QED
    BY <2>1, <2>2, <2>3 DEF KeptOf, Known, Row
<1>. QED
  BY <1>1, <1>2 DEF BackupInv, Kept

\* The end of the server ends every request.
LEMMA StopsStep ==
    ASSUME BackupInv, TypeOK', Stops
    PROVE  BackupInv'
<1>1. \A q \in Process : /\ proc'[q].op = "idle" /\ proc'[q].id = None
                         /\ proc'[q].target = None
  BY DEF Stops, IdleProc
<1>2. Restoring' = {}
  BY <1>1 DEF Restoring, BackupOps, RestoreOps, ImportOps
<1>3. Actors' /\ Dumped'
  BY <1>1 DEF Actors, ActorsOf, Dumped, DumpedOf, Dumping, BackupOps, RestoreOps, ImportOps
<1>4. Alone'
  BY <1>1, <1>2 DEF Stops, Alone, FlagsOwned, BackupOps
<1>5. Numbered'
  BY <1>1 DEF Stops, BackupInv, Numbered
<1>. QED
  BY <1>2, <1>3, <1>4, <1>5 DEF BackupInv, Kept

(***************************************************************************)
(* The invariant, and what it is for.                                      *)
(***************************************************************************)

\* Initially there is no backup and no request.
LEMMA BackupInit == Init => BackupInv
<1> SUFFICES ASSUME Init
             PROVE  BackupInv
  OBVIOUS
<1>1. \A q \in Process : proc[q] = IdleProc
  BY DEF Init
<1>2. \A q \in Process : proc[q].op = "idle" /\ proc[q].id = None /\ proc[q].target = None
  BY <1>1 DEF IdleProc
<1>3. TypeOK
  <2>1. db \in Database
    <3>1. Empty \in Database
      BY NoRowType DEF Empty, Database
    <3>2. \A d \in Database, a \in BOOLEAN : [d EXCEPT !.admin = a] \in Database
      BY DEF Database
    <3>. QED
      BY <3>1, <3>2 DEF Init
  <2>2. proc \in [Process -> ProcRow]
    BY IdleType DEF Init
  <2>3. dump \in [Id -> Database \cup {NoDump}] /\ local \cup stored = {}
    BY DEF Init
  <2>4. {backupRunning, restoreRunning, maintenance} \subseteq BOOLEAN
    BY DEF Init
  <2>5. clock \in Nat /\ locks \in 0..MaxLocks
    BY BackupAssumption DEF Init
  <2>. QED
    BY <2>1, <2>2, <2>3, <2>4, <2>5 DEF Init, TypeOK
<1>4. Restoring = {}
  BY <1>2 DEF Restoring, BackupOps, RestoreOps, ImportOps
<1>5. Actors /\ Dumped
  BY <1>2 DEF Actors, ActorsOf, Dumped, DumpedOf, Dumping, BackupOps, RestoreOps, ImportOps
<1>6. Alone
  BY <1>2, <1>4 DEF Init, Alone, FlagsOwned, BackupOps
<1>7. Numbered
  BY <1>2 DEF Init, Numbered
<1>. QED
  BY <1>3, <1>4, <1>5, <1>6, <1>7 DEF BackupInv, Kept

\* Every step keeps the invariant.
LEMMA BackupStepKeeps == BackupInv /\ [Next]_vars => BackupInv'
<1> SUFFICES ASSUME BackupInv, [Next]_vars
             PROVE  BackupInv'
  OBVIOUS
<1>1. TypeOK' /\ (Quiet \/ Stops \/ \E p \in Process : Goes(p))
  BY StepKinds DEF BackupInv
<1>2. ASSUME NEW p \in Process, Goes(p)
      PROVE  BackupInv'
  BY <1>1, <1>2, ActorsStep, AloneStep, NumberedStep, DumpedStep, KeptStep DEF BackupInv
<1>. QED
  BY <1>1, <1>2, QuietStep, StopsStep

\* The invariant of backups and restores.
THEOREM BackupInvariant == Spec => []BackupInv
BY BackupInit, BackupStepKeeps, PTL DEF Spec

\* Whatever requests interleave, fail or are interrupted, at most one replaces the
\* database, behind maintenance, and no flag outlives its request (enter() of
\* MaintenanceService, restore and bootstrapRestore of BackupService).
THEOREM RestoresStayExclusive == Spec => []RestoresExclusive
<1>1. ASSUME BackupInv
      PROVE  RestoresExclusive
  <2>1. Replacing \subseteq Restoring
    BY DEF Replacing, Restoring
  <2>2. \A p, q \in Replacing : p = q
    BY <1>1, <2>1 DEF BackupInv, Alone
  <2>3. Cardinality(Replacing) <= 1
    <3>1. CASE Replacing = {}
      BY <3>1, FS_EmptySet
    <3>2. CASE Replacing # {}
      <4>1. PICK p : Replacing = {p}
        BY <2>2, <3>2
      <4>. QED
        BY <4>1, FS_Singleton
    <3>. QED
      BY <3>1, <3>2
  <2>4. Replacing # {} => maintenance /\ restoreRunning
    BY <1>1, <2>1 DEF BackupInv, Alone, FlagsOwned
  <2>. QED
    BY <1>1, <2>3, <2>4 DEF RestoresExclusive, ReplacedAlone, BackupInv, Alone
<1>. QED
  BY <1>1, BackupInvariant, PTL

\* A restore never begins to replace the database before a dump of it, with
\* everything it held when maintenance began, is there; and it ends with its source
\* and both backups in the history, or with what it had found (restore and
\* rollbackRestore of BackupService).
THEOREM RestoresRollBack == Spec => []RestoreRollsBack
<1>1. ASSUME BackupInv
      PROVE  RestoreRollsBack
  <2>1. ProtectedFirst
    BY <1>1 DEF BackupInv, ProtectedFirst, Protected, Dumped, DumpedOf, Kept, KeptOf,
                Restoring
  <2>2. RestoreOutcome
    BY <1>1 DEF BackupInv, RestoreOutcome, Kept, KeptOf, Restoring, RestoreOps, ImportOps
  <2>. QED
    BY <2>1, <2>2 DEF RestoreRollsBack
<1>. QED
  BY <1>1, BackupInvariant, PTL

(***************************************************************************)
(* Retention.                                                              *)
(*                                                                         *)
(* A backup that deletes others has a file of its own, which it does not   *)
(* select: it is the last that ended.  That is so although a restore may   *)
(* replace the history under it, since no dump but its own knows it, and   *)
(* although the rows that a restore puts back are from before.             *)
(***************************************************************************)

\* A backup in progress keeps its own file, whatever it deletes.
HeldOf(p) ==
    /\ proc[p].op \in Dumping => proc[p].id \in local
    /\ proc[p].op \in {"expire", "delete", "mark"} => proc[p].id \notin proc[p].todo
    /\ proc[p].op \in {"delete", "mark"} => proc[p].victim # proc[p].id

Held == \A p \in Process : HeldOf(p)

\* A restore is of a backup that was begun before, never of the one in progress.
Aiming == {"enter", "protect"} \cup BackupOps \cup RestoreOps

AimedOf(q) ==
    proc[q].op \in Aiming /\ proc[q].target # None =>
        /\ proc[q].target \in used
        /\ \A p \in Process : proc[p].op \in BackupOps => proc[p].id # proc[q].target

Aimed == \A q \in Process : AimedOf(q)

\* Nobody knows a backup before it is begun, and no other dump one in progress.
Lacks(c, b) == dump[c] # NoDump => dump[c].history[b].status = "ABSENT"

Unknown ==
    /\ \A b \in Id \ used : ~ Known(b) /\ \A c \in Id : Lacks(c, b)
    /\ \A p \in Process : proc[p].op \in BackupOps =>
          \A c \in Id : c # proc[p].id => Lacks(c, proc[p].id)

\* No row of the database, of a dump or in the memory of a request is from later
\* than now.
Recalled(n) ==
    \A q \in Process : /\ proc[q].source.completed <= n
                       /\ proc[q].protection.completed <= n

Timed ==
    /\ \A b \in Id : Row(b).completed <= clock
    /\ \A b, c \in Id : dump[c] # NoDump => dump[c].history[b].completed <= clock
    /\ Recalled(clock)

\* A backup that is about to expire others ended last, unless it is not known.
Latest ==
    \A p \in Process : proc[p].op = "retain" /\ Known(proc[p].id) =>
        /\ \A b \in Id : Row(b).cloud => Row(b).completed <= Row(proc[p].id).completed
        /\ Recalled(Row(proc[p].id).completed)

RetentionInv == BackupInv /\ Held /\ Aimed /\ Unknown /\ Timed /\ Latest
                  /\ AlwaysRecoverable

\* The numbers in the rows.
LEMMA NumberTypes ==
    ASSUME TypeOK
    PROVE  /\ clock \in Nat
           /\ \A b \in Id : Row(b).completed \in Nat
           /\ \A b, c \in Id : dump[c] # NoDump => dump[c].history[b].completed \in Nat
           /\ \A q \in Process : /\ proc[q].source.completed \in Nat
                                 /\ proc[q].protection.completed \in Nat
<1>1. \A r \in Row0 : r.completed \in Nat
  BY DEF Row0
<1>2. \A d \in Database, b \in Id : d.history[b] \in Row0
  BY DEF Database
<1>3. \A x \in ProcRow : x.source \in Row0 /\ x.protection \in Row0
  BY DEF ProcRow
<1>. QED
  BY <1>1, <1>2, <1>3 DEF TypeOK, Row

\* The rows are as old as they were.
Steady ==
    /\ clock' = clock
    /\ \A b \in Id : /\ db'.history[b].completed = db.history[b].completed
                     /\ db'.history[b].cloud = db.history[b].cloud
                     /\ db'.history[b].status = "ABSENT" <=> db.history[b].status = "ABSENT"

\* No request has read a row.
Recalls ==
    \A q \in Process : /\ proc'[q].source \in {proc[q].source, NoRow}
                       /\ proc'[q].protection \in {proc[q].protection, NoRow}

\* Who backs up did so before, or has a new number.
Follows ==
    /\ used \subseteq used'
    /\ \A p \in Process : proc'[p].op \in BackupOps =>
          \/ proc[p].op \in BackupOps /\ proc'[p].id = proc[p].id
          \/ proc'[p].id \in Id \ used

\* Who is about to expire was so before.
Waits ==
    \A p \in Process : proc'[p].op = "retain" =>
        proc[p].op = "retain" /\ proc'[p].id = proc[p].id

\* What is remembered gets no later.
LEMMA RecalledStays ==
    ASSUME NEW n \in Nat, NEW m \in Nat, n <= m, TypeOK, Recalls, Recalled(n)
    PROVE  \A q \in Process : /\ proc'[q].source.completed <= m
                              /\ proc'[q].protection.completed <= m
<1>1. NoRow.completed = 0
  BY DEF NoRow
<1>2. SUFFICES ASSUME NEW q \in Process
               PROVE  /\ proc'[q].source.completed <= m
                      /\ proc'[q].protection.completed <= m
  OBVIOUS
<1>3. /\ proc[q].source.completed \in Nat /\ proc[q].protection.completed \in Nat
      /\ proc[q].source.completed <= n /\ proc[q].protection.completed <= n
  BY NumberTypes DEF Recalled
<1>. QED
  BY <1>1, <1>3 DEF Recalls

\* A step that leaves the ages of the rows, and the dumps, leaves these.
LEMMA SteadyAges ==
    ASSUME TypeOK, Actors, Unknown, Timed, Latest, Steady, UNCHANGED dump, Recalls, Follows, Waits
    PROVE  Unknown' /\ Timed' /\ Latest'
<1>1. Unknown'
  <2>1. \A b \in Id \ used' : ~ Known(b)' /\ \A c \in Id : Lacks(c, b)'
    BY DEF Unknown, Follows, Known, Row, Steady, Lacks
  <2>2. ASSUME NEW p \in Process, proc'[p].op \in BackupOps, NEW c \in Id, c # proc'[p].id
        PROVE  dump'[c] # NoDump => dump'[c].history[proc'[p].id].status = "ABSENT"
    BY <2>2 DEF Unknown, Follows, Lacks
  <2>. QED
    BY <2>1, <2>2 DEF Unknown, Lacks
<1>2. Timed'
  <2>1. Recalled(clock)'
    BY RecalledStays, NumberTypes DEF Timed, Steady, Recalled
  <2>. QED
    BY <2>1 DEF Timed, Steady, Row
<1>3. Latest'
  <2>1. SUFFICES ASSUME NEW p \in Process, proc'[p].op = "retain",
                        db'.history[proc'[p].id].status # "ABSENT"
                 PROVE  LET n == db'.history[proc'[p].id].completed IN
                        /\ \A b \in Id : db'.history[b].cloud => db'.history[b].completed <= n
                        /\ \A q \in Process : /\ proc'[q].source.completed <= n
                                              /\ proc'[q].protection.completed <= n
    BY DEF Latest, Known, Row, Recalled
  <2>2. PICK i \in Id : i = proc[p].id
    BY <2>1 DEF Waits, Actors, ActorsOf, BackupOps
  <2>3. proc[p].op = "retain" /\ proc'[p].id = i /\ db.history[i].status # "ABSENT"
    BY <2>1, <2>2 DEF Waits, Steady
  <2>4. /\ \A b \in Id : db.history[b].cloud => db.history[b].completed <= db.history[i].completed
        /\ Recalled(db.history[i].completed)
    BY <2>2, <2>3 DEF Latest, Known, Row
  <2>5. db'.history[i].completed = db.history[i].completed /\ db.history[i].completed \in Nat
    BY NumberTypes DEF Steady, Row
  <2>6. \A q \in Process : /\ proc'[q].source.completed <= db.history[i].completed
                           /\ proc'[q].protection.completed <= db.history[i].completed
    BY <2>4, <2>5, RecalledStays
  <2>. QED
    BY <2>3, <2>4, <2>5, <2>6 DEF Steady
<1>. QED
  BY <1>1, <1>2, <1>3

\* Nobody backs up any more, and what has been read was in the database.
LEMMA ReadAges ==
    ASSUME TypeOK, Unknown, Timed, Steady, UNCHANGED dump, used \subseteq used',
           \A q \in Process : proc'[q].op \notin BackupOps,
           \A q \in Process :
              /\ proc'[q].source \in {proc[q].source, NoRow} \cup {Row(b) : b \in Id}
              /\ proc'[q].protection \in {proc[q].protection, NoRow} \cup {Row(b) : b \in Id}
    PROVE  Unknown' /\ Timed' /\ Latest'
<1>1. Unknown' /\ Latest'
  BY DEF Unknown, Latest, Known, Row, Steady, Lacks, BackupOps
<1>2. \A q \in Process : /\ proc'[q].source.completed <= clock
                         /\ proc'[q].protection.completed <= clock
  <2>1. NoRow.completed = 0 /\ 0 <= clock
    BY NumberTypes DEF NoRow
  <2>. QED
    BY <2>1 DEF Timed, Recalled
<1>3. Timed'
  BY <1>2 DEF Timed, Steady, Row, Recalled
<1>. QED
  BY <1>1, <1>3

\* Rows of backups that were begun are written, at most with the present time.
LEMMA EditAges ==
    ASSUME TypeOK, Unknown, Timed, Recalls, Follows, UNCHANGED <<dump, used>>,
           clock' \in Nat, clock <= clock', NEW B \in SUBSET used,
           \A b \in Id \ B : db'.history[b] = db.history[b],
           \A b \in B : db'.history[b].completed <= clock'
    PROVE  Unknown' /\ Timed'
<1>1. Unknown'
  <2>1. \A b \in Id \ used' : ~ Known(b)' /\ \A c \in Id : Lacks(c, b)'
    BY DEF Unknown, Known, Row, Lacks
  <2>2. ASSUME NEW p \in Process, proc'[p].op \in BackupOps, NEW c \in Id, c # proc'[p].id
        PROVE  dump'[c] # NoDump => dump'[c].history[proc'[p].id].status = "ABSENT"
    BY <2>2 DEF Unknown, Follows, Lacks
  <2>. QED
    BY <2>1, <2>2 DEF Unknown, Lacks
<1>2. Recalled(clock)'
  BY RecalledStays, NumberTypes DEF Timed, Recalled
<1>3. ASSUME NEW b \in Id
      PROVE  db'.history[b].completed <= clock'
  <2>1. CASE b \in B
    BY <2>1
  <2>2. CASE b \notin B
    BY <2>2, NumberTypes DEF Timed, Row
  <2>. QED
    BY <2>1, <2>2
<1>4. ASSUME NEW b \in Id, NEW c \in Id, dump[c] # NoDump
      PROVE  dump'[c].history[b].completed <= clock'
  BY <1>4, NumberTypes DEF Timed
<1>. QED
  BY <1>1, <1>2, <1>3, <1>4 DEF Timed, Row

\* Written rows leave a backup the last that ended, when they are of others and of
\* before or not in the cloud.
LEMMA EditLatest ==
    ASSUME TypeOK, Actors, Latest, Recalls, Waits, NEW B \in SUBSET Id,
           \A b \in Id \ B : db'.history[b] = db.history[b],
           \A p \in Process : proc[p].op = "retain" =>
              /\ proc[p].id \notin B
              /\ \A n \in Nat : Recalled(n) =>
                    \A b \in B : db'.history[b].cloud => db'.history[b].completed <= n
    PROVE  Latest'
<1>1. SUFFICES ASSUME NEW p \in Process, proc'[p].op = "retain",
                      db'.history[proc'[p].id].status # "ABSENT"
               PROVE  LET n == db'.history[proc'[p].id].completed IN
                      /\ \A b \in Id : db'.history[b].cloud => db'.history[b].completed <= n
                      /\ \A q \in Process : /\ proc'[q].source.completed <= n
                                            /\ proc'[q].protection.completed <= n
  BY DEF Latest, Known, Row, Recalled
<1>2. PICK i \in Id : i = proc[p].id
  BY <1>1 DEF Waits, Actors, ActorsOf, BackupOps
<1>3. /\ proc[p].op = "retain" /\ proc'[p].id = i /\ db'.history[i] = db.history[i]
      /\ db.history[i].status # "ABSENT" /\ db.history[i].completed \in Nat
  BY <1>1, <1>2, NumberTypes DEF Waits, Row
<1>4. /\ \A b \in Id : db.history[b].cloud => db.history[b].completed <= db.history[i].completed
      /\ Recalled(db.history[i].completed)
  BY <1>2, <1>3 DEF Latest, Known, Row
<1>5. \A q \in Process : /\ proc'[q].source.completed <= db.history[i].completed
                         /\ proc'[q].protection.completed <= db.history[i].completed
  BY <1>3, <1>4, RecalledStays
<1>6. \A b \in Id : db'.history[b].cloud => db'.history[b].completed <= db.history[i].completed
  BY <1>3, <1>4
<1>. QED
  BY <1>3, <1>5, <1>6

(***************************************************************************)
(* What the steps do to the ages of rows.                                  *)
(***************************************************************************)

Aged == Unknown /\ Timed /\ Latest

\* A step that only changes op reads no row.
LEMMA ToMemory ==
    ASSUME TypeOK, NEW p \in Process, NEW op \in Ops, To(p, op)
    PROVE  /\ Recalls /\ proc'[p].op = op
           /\ proc'[p].todo = proc[p].todo /\ proc'[p].victim = proc[p].victim
<1>1. \A x \in ProcRow : LET y == [x EXCEPT !.op = op]
                         IN /\ y.op = op /\ y.todo = x.todo /\ y.victim = x.victim
                            /\ y.source = x.source /\ y.protection = x.protection
  BY DEF ProcRow
<1>. QED
  BY <1>1 DEF TypeOK, To, Recalls

\* Nor does a request that ends.
LEMMA EndsMemory ==
    ASSUME TypeOK, NEW p \in Process, Ends(p)
    PROVE  Recalls /\ proc'[p].op = "idle"
BY DEF TypeOK, Ends, Recalls, IdleProc

\* Nor does one that becomes a record which remembers the same.
LEMMA RecordMemory ==
    ASSUME TypeOK, NEW p \in Process, NEW r, proc' = [proc EXCEPT ![p] = r],
           r.source = proc[p].source, r.protection = proc[p].protection
    PROVE  Recalls /\ proc'[p] = r
BY DEF TypeOK, Recalls

\* Nor do the steps that change more, except the two that read a row.
LEMMA MemoryStays ==
    ASSUME TypeOK, NEW p \in Process,
           \/ StartBackup(p) \/ SelectExpired(p) \/ CheckExpired(p) \/ MarkExpired(p)
           \/ EnterMaintenance(p) \/ ProtectRestore(p)
           \/ LoadBootstrap(p) \/ EnterBootstrap(p) \/ \E b \in Id : LoadVerify(p, b)
    PROVE  Recalls /\ proc'[p].op # "retain"
<1>1. proc \in [Process -> ProcRow] /\ proc[p] \in ProcRow
  BY DEF TypeOK
<1>2. ASSUME NEW r, proc' = [proc EXCEPT ![p] = r], r.op # "retain",
             r.source = proc[p].source, r.protection = proc[p].protection
      PROVE  Recalls /\ proc'[p].op # "retain"
  BY <1>2, RecordMemory
<1>3. CASE Ends(p)
  BY <1>3, EndsMemory
<1>4. CASE StartBackup(p)
  <2>1. PICK b : proc' = [proc EXCEPT ![p].op = "record", ![p].id = b]
    BY <1>4 DEF StartBackup
  <2>2. \A x \in ProcRow : LET y == [x EXCEPT !.op = "record", !.id = b]
                          IN /\ y.op = "record" /\ y.source = x.source
                             /\ y.protection = x.protection
    BY DEF ProcRow
  <2>3. PICK r : r = [proc[p] EXCEPT !.op = "record", !.id = b]
    OBVIOUS
  <2>4. proc' = [proc EXCEPT ![p] = r]
    BY <1>1, <2>1, <2>3
  <2>5. /\ r.op = "record" /\ r.source = proc[p].source
        /\ r.protection = proc[p].protection
    BY <1>1, <2>2, <2>3
  <2>. QED
    BY <1>2, <2>4, <2>5
<1>5. CASE SelectExpired(p)
  <2>1. proc' = [proc EXCEPT ![p].op = "expire", ![p].todo = Expired]
    BY <1>5 DEF SelectExpired
  <2>2. \A x \in ProcRow : LET y == [x EXCEPT !.op = "expire", !.todo = Expired]
                          IN /\ y.op = "expire" /\ y.source = x.source
                             /\ y.protection = x.protection
    BY DEF ProcRow
  <2>3. PICK r : r = [proc[p] EXCEPT !.op = "expire", !.todo = Expired]
    OBVIOUS
  <2>4. proc' = [proc EXCEPT ![p] = r]
    BY <1>1, <2>1, <2>3
  <2>5. /\ r.op = "expire" /\ r.source = proc[p].source
        /\ r.protection = proc[p].protection
    BY <1>1, <2>2, <2>3
  <2>. QED
    BY <1>2, <2>4, <2>5
<1>6. CASE CheckExpired(p)
  <2>1. PICK b :
           \/ proc' = [proc EXCEPT ![p].op = "delete", ![p].victim = b, ![p].todo = @ \ {b}]
           \/ proc' = [proc EXCEPT ![p].todo = @ \ {b}] /\ proc[p].op = "expire"
    BY <1>6 DEF CheckExpired
  <2>2. \A x \in ProcRow : LET y == [x EXCEPT !.op = "delete", !.victim = b, !.todo = @ \ {b}]
                               z == [x EXCEPT !.todo = @ \ {b}]
                           IN /\ y.op = "delete" /\ z.op = x.op
                              /\ y.source = x.source /\ y.protection = x.protection
                              /\ z.source = x.source /\ z.protection = x.protection
    BY DEF ProcRow
  <2>3. PICK y, z :
          /\ y = [proc[p] EXCEPT !.op = "delete", !.victim = b, !.todo = @ \ {b}]
          /\ z = [proc[p] EXCEPT !.todo = @ \ {b}]
    OBVIOUS
  <2>4. \/ proc' = [proc EXCEPT ![p] = y]
        \/ proc' = [proc EXCEPT ![p] = z] /\ proc[p].op = "expire"
    BY <1>1, <2>1, <2>3
  <2>5. /\ y.op = "delete" /\ z.op = proc[p].op
        /\ y.source = proc[p].source /\ y.protection = proc[p].protection
        /\ z.source = proc[p].source /\ z.protection = proc[p].protection
    BY <1>1, <2>2, <2>3
  <2>. QED
    BY <1>2, <2>4, <2>5
<1>7. CASE MarkExpired(p)
  <2>1. proc' = [proc EXCEPT ![p].op = "expire", ![p].victim = None]
    BY <1>7 DEF MarkExpired
  <2>2. \A x \in ProcRow : LET y == [x EXCEPT !.op = "expire", !.victim = None]
                          IN /\ y.op = "expire" /\ y.source = x.source
                             /\ y.protection = x.protection
    BY DEF ProcRow
  <2>3. PICK r : r = [proc[p] EXCEPT !.op = "expire", !.victim = None]
    OBVIOUS
  <2>4. proc' = [proc EXCEPT ![p] = r]
    BY <1>1, <2>1, <2>3
  <2>5. /\ r.op = "expire" /\ r.source = proc[p].source
        /\ r.protection = proc[p].protection
    BY <1>1, <2>2, <2>3
  <2>. QED
    BY <1>2, <2>4, <2>5
<1>8. CASE EnterMaintenance(p)
  <2>1. \/ Ends(p)
        \/ proc' = [proc EXCEPT ![p] = [proc[p] EXCEPT !.op = "protect", !.before = db.data]]
    BY <1>8 DEF EnterMaintenance, Enters
  <2>2. \A x \in ProcRow : LET y == [x EXCEPT !.op = "protect", !.before = db.data]
                           IN /\ y.op = "protect" /\ y.source = x.source
                              /\ y.protection = x.protection
    BY DEF ProcRow
  <2>3. PICK r : r = [proc[p] EXCEPT !.op = "protect", !.before = db.data]
    OBVIOUS
  <2>4. /\ r.op = "protect" /\ r.source = proc[p].source
        /\ r.protection = proc[p].protection
    BY <1>1, <2>2, <2>3
  <2>. QED
    BY <1>2, <1>3, <2>1, <2>3, <2>4
<1>9. CASE ProtectRestore(p)
  <2>1. PICK c, t : proc' = [proc EXCEPT ![p].op = "record", ![p].id = c, ![p].temp = t]
    BY <1>9 DEF ProtectRestore
  <2>2. \A x \in ProcRow : LET y == [x EXCEPT !.op = "record", !.id = c, !.temp = t]
                          IN /\ y.op = "record" /\ y.source = x.source
                             /\ y.protection = x.protection
    BY DEF ProcRow
  <2>3. PICK r : r = [proc[p] EXCEPT !.op = "record", !.id = c, !.temp = t]
    OBVIOUS
  <2>4. proc' = [proc EXCEPT ![p] = r]
    BY <1>1, <2>1, <2>3
  <2>5. /\ r.op = "record" /\ r.source = proc[p].source
        /\ r.protection = proc[p].protection
    BY <1>1, <2>2, <2>3
  <2>. QED
    BY <1>2, <2>4, <2>5
<1>10. CASE LoadBootstrap(p)
  <2>1. PICK b, data :
          proc' = [proc EXCEPT ![p].op = "import", ![p].id = b, ![p].before = data]
    BY <1>10 DEF LoadBootstrap
  <2>2. \A x \in ProcRow : LET y == [x EXCEPT !.op = "import", !.id = b, !.before = data]
                          IN /\ y.op = "import" /\ y.source = x.source
                             /\ y.protection = x.protection
    BY DEF ProcRow
  <2>3. PICK r : r = [proc[p] EXCEPT !.op = "import", !.id = b, !.before = data]
    OBVIOUS
  <2>4. proc' = [proc EXCEPT ![p] = r]
    BY <1>1, <2>1, <2>3
  <2>5. /\ r.op = "import" /\ r.source = proc[p].source
        /\ r.protection = proc[p].protection
    BY <1>1, <2>2, <2>3
  <2>. QED
    BY <1>2, <2>4, <2>5
<1>11. CASE EnterBootstrap(p)
  <2>1. Ends(p) \/ proc' = [proc EXCEPT ![p] = [proc[p] EXCEPT !.op = "overwrite"]]
    BY <1>11 DEF EnterBootstrap, Enters
  <2>2. \A x \in ProcRow : LET y == [x EXCEPT !.op = "overwrite"]
                           IN /\ y.op = "overwrite" /\ y.source = x.source
                              /\ y.protection = x.protection
    BY DEF ProcRow
  <2>3. PICK r : r = [proc[p] EXCEPT !.op = "overwrite"]
    OBVIOUS
  <2>4. /\ r.op = "overwrite" /\ r.source = proc[p].source
        /\ r.protection = proc[p].protection
    BY <1>1, <2>2, <2>3
  <2>. QED
    BY <1>2, <1>3, <2>1, <2>3, <2>4
<1>12. CASE \E b \in Id : LoadVerify(p, b)
  <2>1. PICK op \in {"reject", "verify"}, b \in Id :
          proc' = [proc EXCEPT ![p].op = op, ![p].target = b]
    BY <1>12 DEF LoadVerify
  <2>2. \A x \in ProcRow : LET y == [x EXCEPT !.op = op, !.target = b]
                          IN /\ y.op = op /\ y.source = x.source
                             /\ y.protection = x.protection
    BY DEF ProcRow
  <2>3. PICK r : r = [proc[p] EXCEPT !.op = op, !.target = b]
    OBVIOUS
  <2>4. proc' = [proc EXCEPT ![p] = r]
    BY <1>1, <2>1, <2>3
  <2>5. /\ r.op = op /\ r.source = proc[p].source
        /\ r.protection = proc[p].protection
    BY <1>1, <2>2, <2>3
  <2>. QED
    BY <1>2, <2>4, <2>5
<1>. QED
  BY <1>4, <1>5, <1>6, <1>7, <1>8, <1>9, <1>10, <1>11, <1>12

\* Every step of a request keeps or takes a number.
LEMMA GoesFollows ==
    ASSUME Actors, NEW p \in Process, Goes(p)
    PROVE  Follows /\ Frame(p)
<1>1. Frame(p) /\ used \subseteq used'
  BY DEF Goes, Backs, Restores, Replaces, TakesNumber, TakesImport, Chooses, TakesOver,
         Leaves, Hands
<1>2. proc'[p].op \in BackupOps =>
        \/ proc[p].op \in BackupOps /\ proc'[p].id = proc[p].id
        \/ proc'[p].id \in Id \ used
  BY DEF Goes, Backs, Restores, Replaces, TakesNumber, TakesImport, Chooses, TakesOver,
         Leaves, Hands, SameRequest, IdleProc, Dumping, BackupOps
<1>. QED
  BY <1>1, <1>2 DEF Frame, Follows

\* A request that does not write when a backup ended.
LEMMA GoesSteady ==
    ASSUME TypeOK, Actors, Aged, NEW p \in Process, Goes(p), Steady, UNCHANGED dump,
           Recalls, proc'[p].op # "retain"
    PROVE  Aged'
<1>1. Follows /\ Frame(p)
  BY GoesFollows
<1>2. Waits
  BY <1>1 DEF Frame, Waits
<1>. QED
  BY <1>1, <1>2, SteadyAges DEF Aged

\* Writing a row without changing its age.
LEMMA RowSteady ==
    ASSUME db \in Database, NEW b \in Id, NEW row \in Row0, SetRow(b, row),
           Row(b).status # "ABSENT", row.status # "ABSENT",
           row.completed = Row(b).completed, row.cloud = Row(b).cloud, clock' = clock
    PROVE  Steady
BY DEF Database, SetRow, Row, Steady

\* Writing a row leaves the others.
LEMMA RowOnly ==
    ASSUME db \in Database, NEW b \in Id, NEW row, SetRow(b, row)
    PROVE  /\ db'.history[b] = row
           /\ \A c \in Id : c # b => db'.history[c] = db.history[c]
BY DEF Database, SetRow

\* The steps of a backup that write no age.
LEMMA BackupSteady ==
    ASSUME TypeOK, Actors, NEW p \in Process,
           \/ StartBackup(p) \/ WriteManifest(p) \/ StoreBackup(p) \/ SelectExpired(p)
           \/ CheckExpired(p) \/ DeleteFiles(p) \/ MarkExpired(p)
    PROVE  Steady /\ Recalls /\ UNCHANGED dump /\ proc'[p].op # "retain"
<1>1. db \in Database /\ proc \in [Process -> ProcRow]
  BY DEF TypeOK
<1>2. CASE StartBackup(p) \/ SelectExpired(p) \/ CheckExpired(p)
  <2>1. UNCHANGED <<db, clock, dump>>
    BY <1>2 DEF StartBackup, SelectExpired, CheckExpired, files, numbers
  <2>. QED
    BY <1>2, <2>1, MemoryStays DEF Steady
<1>3. CASE WriteManifest(p)
  <2> DEFINE b == proc[p].id
             n == Cardinality(db.data)
  <2>1. /\ b \in Id /\ Row(b) \in Row0 /\ n \in Nat /\ Row(b).status # "ABSENT"
        /\ SetRow(b, [Row(b) EXCEPT !.status = "UPLOADING", !.counted = n])
    BY <1>1, <1>3, RowType, CountType DEF WriteManifest, Actors, ActorsOf, BackupOps, Known
  <2> HIDE DEF n
  <2>2. \A x \in Row0 : LET y == [x EXCEPT !.status = "UPLOADING", !.counted = n]
                        IN /\ y \in Row0 /\ y.status # "ABSENT"
                           /\ y.completed = x.completed /\ y.cloud = x.cloud
    BY <2>1 DEF Row0
  <2>3. Steady
    BY <1>1, <1>3, <2>1, <2>2, RowSteady DEF WriteManifest, numbers
  <2>4. Recalls /\ proc'[p].op = "store"
    BY <1>3, ToMemory DEF WriteManifest, Ops, BackupOps
  <2>. QED
    BY <1>3, <2>3, <2>4 DEF WriteManifest, files
<1>4. CASE StoreBackup(p)
  <2> DEFINE b == proc[p].id
  <2>1. /\ b \in Id /\ Row(b) \in Row0 /\ Row(b).status # "ABSENT"
        /\ SetRow(b, [Row(b) EXCEPT !.asset = TRUE])
    BY <1>1, <1>4, RowType DEF StoreBackup, Actors, ActorsOf, BackupOps, Known
  <2>2. \A x \in Row0 : LET y == [x EXCEPT !.asset = TRUE]
                        IN /\ y \in Row0 /\ y.status = x.status
                           /\ y.completed = x.completed /\ y.cloud = x.cloud
    BY DEF Row0
  <2>3. Steady
    BY <1>1, <1>4, <2>1, <2>2, RowSteady DEF StoreBackup, numbers
  <2>4. Recalls /\ proc'[p].op = "complete"
    BY <1>4, ToMemory DEF StoreBackup, Ops, BackupOps
  <2>. QED
    BY <1>4, <2>3, <2>4 DEF StoreBackup
<1>5. CASE DeleteFiles(p)
  <2>1. Recalls /\ proc'[p].op = "mark"
    BY <1>5, ToMemory DEF DeleteFiles, Ops, BackupOps
  <2>. QED
    BY <1>5, <2>1 DEF DeleteFiles, Steady, numbers
<1>6. CASE MarkExpired(p)
  <2> DEFINE b == proc[p].victim
  <2>1. /\ b \in Id /\ Row(b) \in Row0 /\ Row(b).status # "ABSENT"
        /\ SetRow(b, [Row(b) EXCEPT !.status = "EXPIRED"])
    BY <1>1, <1>6, RowType DEF MarkExpired, Actors, ActorsOf, Known
  <2>2. \A x \in Row0 : LET y == [x EXCEPT !.status = "EXPIRED"]
                        IN /\ y \in Row0 /\ y.status # "ABSENT"
                           /\ y.completed = x.completed /\ y.cloud = x.cloud
    BY DEF Row0
  <2>3. Steady
    BY <1>1, <1>6, <2>1, <2>2, RowSteady DEF MarkExpired, numbers
  <2>4. Recalls /\ proc'[p].op = "expire"
    BY <1>1, <1>6, MemoryStays DEF MarkExpired, ProcRow
  <2>. QED
    BY <1>6, <2>3, <2>4 DEF MarkExpired, files
<1>. QED
  BY <1>2, <1>3, <1>4, <1>5, <1>6

\* The steps of a restore, an import or a verification that write no age.
LEMMA RestoreSteady ==
    ASSUME TypeOK, Actors, NEW p \in Process,
           \/ EnterMaintenance(p) \/ ProtectRestore(p) \/ FailProtect(p) \/ CheckCounts(p)
           \/ FailRestore(p) \/ LeaveMaintenance(p) \/ LoadBootstrap(p)
           \/ EnterBootstrap(p) \/ FailBootstrap(p) \/ Verify(p)
           \/ RollbackRestore(p) /\ UNCHANGED db
           \/ \E b \in Id : LoadVerify(p, b)
    PROVE  Steady /\ Recalls /\ UNCHANGED dump /\ proc'[p].op # "retain"
<1>1. db \in Database /\ proc \in [Process -> ProcRow]
  BY DEF TypeOK
<1>2. CASE EnterMaintenance(p) \/ EnterBootstrap(p)
  <2>1. UNCHANGED <<db, clock, dump>>
    BY <1>2 DEF EnterMaintenance, EnterBootstrap, Enters, files, numbers
  <2>. QED
    BY <1>2, <2>1, MemoryStays DEF Steady
<1>3. CASE ProtectRestore(p) \/ LoadBootstrap(p) \/ \E b \in Id : LoadVerify(p, b)
  <2>1. UNCHANGED <<db, clock, dump>>
    BY <1>3 DEF ProtectRestore, LoadBootstrap, LoadVerify, files, numbers
  <2>. QED
    BY <1>3, <2>1, MemoryStays DEF Steady
<1>4. CASE \/ FailProtect(p) \/ CheckCounts(p) \/ FailRestore(p) \/ FailBootstrap(p)
           \/ RollbackRestore(p) /\ UNCHANGED db
  <2>1. UNCHANGED <<db, clock, dump>>
    BY <1>4 DEF FailProtect, CheckCounts, FailRestore, FailBootstrap, RollbackRestore,
                files, numbers
  <2>2. PICK op \in {"leave", "rehydrate", "rollback", "kept"} : To(p, op)
    BY <1>4 DEF FailProtect, CheckCounts, FailRestore, FailBootstrap, RollbackRestore
  <2>3. Recalls /\ proc'[p].op = op
    BY <2>2, ToMemory DEF Ops, RestoreOps
  <2>. QED
    BY <2>1, <2>2, <2>3 DEF Steady
<1>5. CASE LeaveMaintenance(p)
  BY <1>5, EndsMemory DEF LeaveMaintenance, Steady, files, numbers
<1>6. CASE Verify(p)
  <2> DEFINE b == proc[p].target
             status == IF proc[p].op = "reject" THEN "FAILED" ELSE "VERIFIED"
  <2>1. /\ b \in Id /\ Row(b) \in Row0 /\ status \in {"FAILED", "VERIFIED"}
        /\ IF Known(b) THEN SetRow(b, [Row(b) EXCEPT !.status = status]) ELSE UNCHANGED db
    BY <1>1, <1>6, RowType DEF Verify, Actors, ActorsOf
  <2> HIDE DEF status
  <2>2. \A x \in Row0 : LET y == [x EXCEPT !.status = status]
                        IN /\ y \in Row0 /\ y.status # "ABSENT"
                           /\ y.completed = x.completed /\ y.cloud = x.cloud
    BY <2>1 DEF Row0
  <2>3. UNCHANGED <<clock, dump>> /\ Ends(p)
    BY <1>6 DEF Verify, files, numbers
  <2>4. CASE Known(b)
    BY <1>1, <2>1, <2>2, <2>3, <2>4, RowSteady, EndsMemory DEF Known
  <2>5. CASE ~ Known(b)
    BY <2>1, <2>3, <2>5, EndsMemory DEF Steady
  <2>. QED
    BY <2>4, <2>5
<1>. QED
  BY <1>2, <1>3, <1>4, <1>5, <1>6

\* When no request is about to expire others, there is nothing to say.
LEMMA NoneWaits ==
    ASSUME \A q \in Process : proc'[q].op # "retain"
    PROVE  Latest'
BY DEF Latest

\* A backup in progress is the only one.
LEMMA OnlyWriter ==
    ASSUME BackupInv, NEW p \in Process, proc[p].op \in BackupOps
    PROVE  /\ \A q \in Process : q # p => proc[q].op \notin BackupOps
           /\ proc[p].id \in Id /\ proc[p].id \in used
BY BackupAssumption DEF BackupInv, Alone, Actors, ActorsOf, Numbered

\* RecordBackup writes a row that has not ended.
LEMMA RecordAges ==
    ASSUME RetentionInv, NEW p \in Process, Goes(p), RecordBackup(p)
    PROVE  Aged'
<1>1. TypeOK /\ Actors /\ Aged /\ proc[p].op = "record"
  BY DEF RetentionInv, BackupInv, Aged, RecordBackup
<1>2. /\ \A q \in Process : q # p => proc[q].op \notin BackupOps
      /\ proc[p].id \in Id /\ proc[p].id \in used
  BY <1>1, OnlyWriter DEF RetentionInv, BackupOps
<1>3. PICK row : /\ SetRow(proc[p].id, row) /\ row.completed = 0
  <2>1. PICK locked : SetRow(proc[p].id, [NoRow EXCEPT !.status = "CREATING",
                                                       !.locked = locked])
    BY DEF RecordBackup
  <2>2. [NoRow EXCEPT !.status = "CREATING", !.locked = locked].completed = 0
    BY DEF NoRow
  <2>. QED
    BY <2>1, <2>2
<1>4. /\ db'.history[proc[p].id] = row
      /\ \A c \in Id : c # proc[p].id => db'.history[c] = db.history[c]
  BY <1>1, <1>2, <1>3, RowOnly DEF TypeOK
<1>5. Recalls /\ proc'[p].op = "dump"
  BY <1>1, ToMemory DEF RecordBackup, Ops, BackupOps
<1>6. Follows /\ Frame(p)
  BY <1>1, GoesFollows
<1>7. UNCHANGED <<dump, used, clock>> /\ clock \in Nat
  BY <1>1, NumberTypes DEF RecordBackup, files, numbers
<1>8. Unknown' /\ Timed'
  <2> DEFINE B == {proc[p].id}
  <2>1. B \in SUBSET used /\ \A b \in Id \ B : db'.history[b] = db.history[b]
    BY <1>2, <1>4
  <2>2. \A b \in B : db'.history[b].completed <= clock'
    BY <1>3, <1>4, <1>7
  <2>3. clock' \in Nat /\ clock <= clock'
    BY <1>7
  <2> HIDE DEF B
  <2>. QED
    BY <1>1, <1>5, <1>6, <1>7, <2>1, <2>2, <2>3, EditAges DEF Aged
<1>9. \A q \in Process : proc'[q].op # "retain"
  BY <1>2, <1>5, <1>6 DEF Frame, BackupOps
<1>. QED
  BY <1>8, <1>9, NoneWaits DEF Aged

\* Dump writes a dump of its own, with the rows of now.
LEMMA DumpAges ==
    ASSUME RetentionInv, NEW p \in Process, Goes(p), Dump(p)
    PROVE  Aged'
<1>1. TypeOK /\ Actors /\ Aged /\ proc[p].op = "dump"
  BY DEF RetentionInv, BackupInv, Aged, Dump
<1>2. /\ \A q \in Process : q # p => proc[q].op \notin BackupOps
      /\ proc[p].id \in Id /\ proc[p].id \in used
  BY <1>1, OnlyWriter DEF RetentionInv, BackupOps
<1>3. Recalls /\ proc'[p].op = "manifest" /\ SameRequest(p)
  BY <1>1, ToMemory, ToType DEF Dump, Ops, BackupOps, TypeOK
<1>4. Follows /\ Frame(p)
  BY <1>1, GoesFollows
<1>5. UNCHANGED <<db, used, clock>> /\ dump' = [dump EXCEPT ![proc[p].id] = db]
  BY DEF Dump, numbers
<1>6. \A c \in Id : dump'[c] = IF c = proc[p].id THEN db ELSE dump[c]
  BY <1>1, <1>5 DEF TypeOK
<1>7. Unknown'
  <2>1. ASSUME NEW b \in Id \ used'
        PROVE  ~ Known(b)' /\ \A c \in Id : Lacks(c, b)'
    BY <1>1, <1>5, <1>6 DEF Aged, Unknown, Known, Row, Lacks
  <2>2. ASSUME NEW q \in Process, proc'[q].op \in BackupOps, NEW c \in Id, c # proc'[q].id
        PROVE  dump'[c] # NoDump => dump'[c].history[proc'[q].id].status = "ABSENT"
    <3>1. q = p
      BY <1>2, <1>4, <2>2 DEF Frame
    <3>2. proc'[q].id = proc[p].id
      BY <1>3, <3>1 DEF SameRequest
    <3>. QED
      BY <1>1, <1>6, <2>2, <3>1, <3>2 DEF Aged, Unknown, Lacks, BackupOps
  <2>. QED
    BY <2>1, <2>2 DEF Unknown, Lacks
<1>8. Timed'
  <2>1. Recalled(clock)'
    BY <1>1, <1>3, <1>5, RecalledStays, NumberTypes DEF Aged, Timed, Recalled
  <2>. QED
    BY <1>1, <1>5, <1>6, <2>1 DEF Aged, Timed, Row
<1>9. \A q \in Process : proc'[q].op # "retain"
  BY <1>2, <1>3, <1>4 DEF Frame, BackupOps
<1>. QED
  BY <1>7, <1>8, <1>9, NoneWaits DEF Aged

\* CompleteBackup ends a backup later than all there are.
LEMMA CompleteAges ==
    ASSUME RetentionInv, NEW p \in Process, Goes(p), CompleteBackup(p)
    PROVE  Aged'
<1>1. TypeOK /\ Actors /\ Aged /\ proc[p].op = "complete"
  BY DEF RetentionInv, BackupInv, Aged, CompleteBackup
<1>2. /\ \A q \in Process : q # p => proc[q].op \notin BackupOps
      /\ proc[p].id \in Id /\ proc[p].id \in used
  BY <1>1, OnlyWriter DEF RetentionInv, BackupOps
<1>3. PICK row : SetRow(proc[p].id, row) /\ row.completed = clock'
  <2>1. Row(proc[p].id) \in Row0
    BY <1>1, <1>2, RowType DEF TypeOK
  <2>2. \A x \in Row0 : [x EXCEPT !.status = "VERIFIED", !.cloud = Cloud,
                                  !.completed = clock'].completed = clock'
    BY DEF Row0
  <2>. QED
    BY <2>1, <2>2 DEF CompleteBackup
<1>4. /\ db'.history[proc[p].id] = row
      /\ \A c \in Id : c # proc[p].id => db'.history[c] = db.history[c]
  BY <1>1, <1>2, <1>3, RowOnly DEF TypeOK
<1>5. Recalls /\ proc'[p].op = "retain" /\ SameRequest(p)
  BY <1>1, ToMemory, ToType DEF CompleteBackup, Ops, BackupOps, TypeOK
<1>6. Follows /\ Frame(p)
  BY <1>1, GoesFollows
<1>7. UNCHANGED <<dump, used>> /\ clock \in Nat /\ clock' = clock + 1
  BY <1>1, NumberTypes DEF CompleteBackup, files
<1>8. Unknown' /\ Timed'
  <2> DEFINE B == {proc[p].id}
  <2>1. B \in SUBSET used /\ \A b \in Id \ B : db'.history[b] = db.history[b]
    BY <1>2, <1>4
  <2>2. \A b \in B : db'.history[b].completed <= clock'
    BY <1>3, <1>4, <1>7
  <2>3. clock' \in Nat /\ clock <= clock'
    BY <1>7
  <2> HIDE DEF B
  <2>. QED
    BY <1>1, <1>5, <1>6, <1>7, <2>1, <2>2, <2>3, EditAges DEF Aged
<1>9. Latest'
  <2>1. ASSUME NEW q \in Process, proc'[q].op = "retain"
        PROVE  db'.history[proc'[q].id].completed = clock'
    <3>1. q = p
      BY <1>2, <1>6, <2>1 DEF Frame, BackupOps
    <3>. QED
      BY <1>3, <1>4, <1>5, <3>1 DEF SameRequest
  <2>2. /\ \A b \in Id : db'.history[b].completed <= clock'
        /\ \A q \in Process : /\ proc'[q].source.completed <= clock'
                              /\ proc'[q].protection.completed <= clock'
    BY <1>8 DEF Timed, Row, Recalled
  <2>. QED
    BY <2>1, <2>2 DEF Latest, Row, Recalled
<1>. QED
  BY <1>8, <1>9 DEF Aged

\* A backup that fails backs up no more.
LEMMA FailAges ==
    ASSUME RetentionInv, NEW p \in Process, Goes(p), FailBackup(p)
    PROVE  Aged'
<1>1. TypeOK /\ Actors /\ Aged /\ proc[p].op \in BackupOps
  BY DEF RetentionInv, BackupInv, Aged, FailBackup
<1>2. /\ \A q \in Process : q # p => proc[q].op \notin BackupOps
      /\ proc[p].id \in Id /\ proc[p].id \in used
  BY <1>1, OnlyWriter DEF RetentionInv
<1>3. Recalls /\ proc'[p].op # "retain"
  <2>1. CASE Ends(p)
    BY <1>1, <2>1, EndsMemory
  <2>2. CASE proc' = [proc EXCEPT ![p].op = "leave", ![p].todo = {}, ![p].victim = None]
    <3>1. \A x \in ProcRow : LET y == [x EXCEPT !.op = "leave", !.todo = {}, !.victim = None]
                             IN /\ y.op = "leave" /\ y.source = x.source
                                /\ y.protection = x.protection
      BY DEF ProcRow
    <3>2. PICK r : r = [proc[p] EXCEPT !.op = "leave", !.todo = {}, !.victim = None]
      OBVIOUS
    <3>3. proc' = [proc EXCEPT ![p] = r] /\ proc[p] \in ProcRow
      BY <1>1, <2>2, <3>2 DEF TypeOK
    <3>4. r.op = "leave" /\ r.source = proc[p].source /\ r.protection = proc[p].protection
      BY <3>1, <3>2, <3>3
    <3>. QED
      BY <1>1, <3>3, <3>4, RecordMemory
  <2>. QED
    BY <2>1, <2>2 DEF FailBackup
<1>4. Follows /\ Frame(p)
  BY <1>1, GoesFollows
<1>5. UNCHANGED <<dump, used>> /\ clock \in Nat
  BY <1>1, NumberTypes DEF FailBackup, files
<1>6. CASE ~ Known(proc[p].id)
  <2>1. Steady
    BY <1>6 DEF FailBackup, Steady
  <2>. QED
    BY <1>1, <1>3, <1>5, <2>1, GoesSteady
<1>7. CASE Known(proc[p].id)
  <2>1. clock' = clock + 1
    BY <1>7 DEF FailBackup
  <2>2. PICK row : SetRow(proc[p].id, row) /\ row.completed = clock'
    <3>1. Row(proc[p].id) \in Row0
      BY <1>1, <1>2, RowType DEF TypeOK
    <3>2. \A x \in Row0 : [x EXCEPT !.status = "FAILED", !.completed = clock'].completed = clock'
      BY DEF Row0
    <3>. QED
      BY <1>7, <3>1, <3>2 DEF FailBackup
  <2>3. /\ db'.history[proc[p].id] = row
        /\ \A c \in Id : c # proc[p].id => db'.history[c] = db.history[c]
    BY <1>1, <1>2, <2>2, RowOnly DEF TypeOK
  <2> DEFINE B == {proc[p].id}
  <2>4. B \in SUBSET used /\ \A b \in Id \ B : db'.history[b] = db.history[b]
    BY <1>2, <2>3
  <2>5. \A b \in B : db'.history[b].completed <= clock'
    BY <1>5, <2>1, <2>2, <2>3
  <2>6. clock' \in Nat /\ clock <= clock'
    BY <1>5, <2>1
  <2> HIDE DEF B
  <2>7. Unknown' /\ Timed'
    BY <1>1, <1>3, <1>4, <1>5, <2>4, <2>5, <2>6, EditAges DEF Aged
  <2>8. \A q \in Process : proc'[q].op # "retain"
    BY <1>2, <1>3, <1>4 DEF Frame, BackupOps
  <2>. QED
    BY <2>7, <2>8, NoneWaits DEF Aged
<1>. QED
  BY <1>6, <1>7

\* LoadRestore reads a row while nobody backs up.
LEMMA LoadAges ==
    ASSUME RetentionInv, NEW p \in Process, NEW b \in Id, LoadRestore(p, b), Goes(p)
    PROVE  Aged'
<1>1. TypeOK /\ Actors /\ Aged /\ Alone
  BY DEF RetentionInv, BackupInv, Aged
<1>2. UNCHANGED <<db, clock, dump, used>> /\ ~ backupRunning
  BY DEF LoadRestore, files, numbers
<1>3. /\ proc'[p].op = "enter" /\ proc'[p].source = Row(b)
      /\ proc'[p].protection = proc[p].protection
  <2>1. \A x \in ProcRow : LET y == [x EXCEPT !.op = "enter", !.target = b, !.source = Row(b)]
                           IN /\ y.op = "enter" /\ y.source = Row(b)
                              /\ y.protection = x.protection
    BY DEF ProcRow
  <2>. QED
    BY <1>1, <2>1 DEF LoadRestore, TypeOK
<1>4. Frame(p)
  BY <1>1, GoesFollows
<1>5. \A q \in Process : proc'[q].op \notin BackupOps
  BY <1>1, <1>2, <1>3, <1>4 DEF Alone, FlagsOwned, Frame, BackupOps
<1>6. \A q \in Process :
         /\ proc'[q].source \in {proc[q].source, NoRow} \cup {Row(c) : c \in Id}
         /\ proc'[q].protection \in {proc[q].protection, NoRow} \cup {Row(c) : c \in Id}
  BY <1>3, <1>4 DEF Frame
<1>7. Steady
  BY <1>2 DEF Steady
<1>. QED
  BY <1>1, <1>2, <1>5, <1>6, <1>7, ReadAges DEF Aged

\* EndBackup reads the row of the protection and backs up no more.
LEMMA EndAges ==
    ASSUME RetentionInv, NEW p \in Process, EndBackup(p), Goes(p)
    PROVE  Aged'
<1>1. TypeOK /\ Actors /\ Aged /\ Alone /\ proc[p].op = "expire"
  BY DEF RetentionInv, BackupInv, Aged, EndBackup
<1>2. UNCHANGED <<db, clock, dump, used>>
  BY DEF EndBackup, files, numbers
<1>3. \A q \in Process : q # p => proc[q].op \notin BackupOps
  BY <1>1, OnlyWriter DEF RetentionInv, BackupOps
<1>4. proc[p].id \in Id
  BY <1>1 DEF Actors, ActorsOf, BackupOps
<1>5. /\ proc'[p].op \notin BackupOps
      /\ proc'[p].source \in {proc[p].source, NoRow}
      /\ proc'[p].protection \in {proc[p].protection, NoRow, Row(proc[p].id)}
  <2>1. CASE Ends(p)
    BY <1>1, <2>1, EndsMemory DEF Recalls, BackupOps
  <2>2. CASE To(p, "leave")
    BY <1>1, <2>2, ToMemory DEF Recalls, BackupOps, Ops
  <2>3. CASE proc' = [proc EXCEPT ![p].op = "replace", ![p].protection = Row(proc[p].id)]
    <3>1. \A x \in ProcRow, y \in Row0 :
             LET z == [x EXCEPT !.op = "replace", !.protection = y]
             IN z.op = "replace" /\ z.source = x.source /\ z.protection = y
      BY DEF ProcRow
    <3>2. Row(proc[p].id) \in Row0
      BY <1>1, <1>4, RowType DEF TypeOK
    <3>. QED
      BY <1>1, <2>3, <3>1, <3>2 DEF TypeOK, BackupOps
  <2>. QED
    BY <2>1, <2>2, <2>3 DEF EndBackup
<1>6. Frame(p)
  BY <1>1, GoesFollows
<1>7. \A q \in Process : proc'[q].op \notin BackupOps
  BY <1>3, <1>5, <1>6 DEF Frame
<1>8. \A q \in Process :
         /\ proc'[q].source \in {proc[q].source, NoRow} \cup {Row(c) : c \in Id}
         /\ proc'[q].protection \in {proc[q].protection, NoRow} \cup {Row(c) : c \in Id}
  BY <1>4, <1>5, <1>6 DEF Frame
<1>9. Steady
  BY <1>2 DEF Steady
<1>. QED
  BY <1>1, <1>2, <1>7, <1>8, <1>9, ReadAges DEF Aged

\* The database is replaced by one that does not know a backup in progress.
LEMMA ReplaceAges ==
    ASSUME TypeOK, Actors, Aged, NEW p \in Process, Goes(p), Recalls, proc'[p].op # "retain",
           UNCHANGED <<dump, used, clock>>,
           \A b \in Id \ used : db'.history[b].status = "ABSENT",
           \A b \in Id : db'.history[b].completed <= clock,
           \A q \in Process : q # p /\ proc[q].op \in BackupOps =>
                                 db'.history[proc[q].id].status = "ABSENT"
    PROVE  Aged'
<1>1. Follows /\ Frame(p)
  BY GoesFollows
<1>2. Unknown'
  <2>1. \A b \in Id \ used' : ~ Known(b)' /\ \A c \in Id : Lacks(c, b)'
    BY DEF Aged, Unknown, Known, Row, Lacks
  <2>2. ASSUME NEW q \in Process, proc'[q].op \in BackupOps, NEW c \in Id, c # proc'[q].id
        PROVE  dump'[c] # NoDump => dump'[c].history[proc'[q].id].status = "ABSENT"
    BY <1>1, <2>2 DEF Aged, Unknown, Follows, Lacks
  <2>. QED
    BY <2>1, <2>2 DEF Unknown, Lacks
<1>3. Timed'
  <2>1. Recalled(clock)'
    BY RecalledStays, NumberTypes DEF Aged, Timed, Recalled
  <2>. QED
    BY <2>1 DEF Aged, Timed, Row
<1>4. Latest'
  BY <1>1 DEF Latest, Known, Row, Frame, BackupOps
<1>. QED
  BY <1>2, <1>3, <1>4 DEF Aged

\* A restore replaces the database by a dump of a backup that is not in progress.
LEMMA RestoreAges ==
    ASSUME RetentionInv, NEW p \in Process, Goes(p),
           \/ ReplaceDatabase(p)
           \/ RollbackRestore(p) /\ db' = RollbackTo(p) /\ To(p, "kept")
    PROVE  Aged'
<1>1. /\ TypeOK /\ Actors /\ Aged /\ proc[p].op \in {"replace", "rollback"}
      /\ UNCHANGED <<dump, used, clock>>
  BY DEF RetentionInv, BackupInv, Aged, ReplaceDatabase, RollbackRestore, files, numbers
<1>2. Recalls /\ proc'[p].op # "retain"
  <2>1. PICK op \in {"check", "kept"} : To(p, op)
    BY DEF ReplaceDatabase
  <2>. QED
    BY <1>1, <2>1, ToMemory DEF Ops, RestoreOps
<1>3. /\ proc[p].target \in Id /\ proc[p].id \in Id
      /\ dump[proc[p].target] # NoDump /\ dump[proc[p].id] # NoDump
  BY <1>1 DEF RetentionInv, BackupInv, Actors, ActorsOf, Dumped, DumpedOf, RestoreOps
<1>4. ASSUME NEW q \in Process, q # p, proc[q].op \in BackupOps
      PROVE  proc[q].id \in Id /\ proc[q].id \notin {proc[p].target, proc[p].id}
  <2>1. proc[q].id \in Id /\ proc[q].id # None
    BY <1>1, <1>4, BackupAssumption DEF Actors, ActorsOf
  <2>2. proc[q].id # proc[p].id
    BY <1>4, <2>1 DEF RetentionInv, BackupInv, Numbered
  <2>3. proc[q].id # proc[p].target
    <3>1. proc[p].target # None
      BY <1>3, BackupAssumption
    <3>. QED
      BY <1>1, <1>4, <3>1 DEF RetentionInv, Aimed, AimedOf, Aiming, RestoreOps
  <2>. QED
    BY <2>1, <2>2, <2>3
<1>5. PICK x \in {proc[p].target, proc[p].id} : db' = dump[x]
  BY DEF ReplaceDatabase, RollbackTo
<1>6. x \in Id /\ dump[x] # NoDump
  BY <1>3
<1>7. \A b \in Id \ used : db'.history[b].status = "ABSENT"
  BY <1>1, <1>5, <1>6 DEF Aged, Unknown, Lacks
<1>8. \A b \in Id : db'.history[b].completed <= clock
  BY <1>1, <1>5, <1>6 DEF Aged, Timed
<1>9. \A q \in Process : q # p /\ proc[q].op \in BackupOps =>
                            db'.history[proc[q].id].status = "ABSENT"
  BY <1>1, <1>4, <1>5, <1>6 DEF Aged, Unknown, Lacks
<1>. QED
  BY <1>1, <1>2, <1>7, <1>8, <1>9, ReplaceAges

\* An import replaces it by one that knows no backup.
LEMMA OverwriteAges ==
    ASSUME RetentionInv, NEW p \in Process, Goes(p), OverwriteDatabase(p)
    PROVE  Aged'
<1>1. /\ TypeOK /\ Actors /\ Aged
      /\ UNCHANGED <<dump, used, clock>>
  BY DEF RetentionInv, BackupInv, Aged, OverwriteDatabase, files, numbers
<1>2. Recalls /\ proc'[p].op # "retain"
  BY <1>1, ToMemory DEF OverwriteDatabase, Ops, ImportOps
<1>3. db'.history = [b \in Id |-> NoRow]
  BY DEF OverwriteDatabase, Empty
<1>4. \A b \in Id : db'.history[b].status = "ABSENT" /\ db'.history[b].completed = 0
  BY <1>3 DEF NoRow
<1>5. 0 <= clock
  BY <1>1, NumberTypes
<1>6. \A q \in Process : proc[q].op \in BackupOps => proc[q].id \in Id
  BY <1>1 DEF Actors, ActorsOf
<1>7. /\ \A b \in Id \ used : db'.history[b].status = "ABSENT"
      /\ \A b \in Id : db'.history[b].completed <= clock
      /\ \A q \in Process : q # p /\ proc[q].op \in BackupOps =>
                               db'.history[proc[q].id].status = "ABSENT"
  BY <1>4, <1>5, <1>6
<1>. QED
  BY <1>1, <1>2, <1>7, ReplaceAges

\* RehydrateRestored puts rows back that were read before the backup in progress
\* began.
LEMMA RehydrateAges ==
    ASSUME RetentionInv, NEW p \in Process, Goes(p), RehydrateRestored(p)
    PROVE  Aged'
<1>1. /\ TypeOK /\ Actors /\ Aged /\ proc[p].op = "rehydrate"
      /\ UNCHANGED <<dump, used, clock>>
  BY DEF RetentionInv, BackupInv, Aged, RehydrateRestored, flags, numbers
<1>2. Recalls /\ proc'[p].op = "restored"
  BY <1>1, ToMemory DEF RehydrateRestored, Ops, RestoreOps
<1>3. Follows /\ Frame(p)
  BY <1>1, GoesFollows
<1>4. PICK t, i : t = proc[p].target /\ i = proc[p].id
  OBVIOUS
<1>5. t \in Id /\ i \in Id /\ t # None /\ i # None /\ t \in used /\ i \in used
  <2>1. t \in Id /\ i \in Id /\ t # None /\ i # None
    BY <1>1, <1>4, BackupAssumption DEF Actors, ActorsOf, RestoreOps
  <2>. QED
    BY <1>1, <1>4, <2>1 DEF RetentionInv, Aimed, AimedOf, Aiming, RestoreOps, BackupInv,
                           Numbered
<1>6. \A q \in Process : q # p /\ proc[q].op \in BackupOps => proc[q].id \notin {t, i}
  <2>1. ASSUME NEW q \in Process, q # p, proc[q].op \in BackupOps
        PROVE  proc[q].id \notin {t, i}
    BY <1>1, <1>4, <1>5, <2>1 DEF RetentionInv, Aimed, AimedOf, Aiming, RestoreOps,
                                  BackupInv, Numbered
  <2>. QED
    BY <2>1
<1>7. /\ \A b \in Id \ {t, i} : db'.history[b] = db.history[b]
      /\ db'.history[i].completed = proc[p].protection.completed
      /\ t # i => db'.history[t].completed = proc[p].source.completed
  <2>1. PICK copied :
          db' = [db EXCEPT
              !.history[t] = Rehydrated(t, proc[p].source, t \in copied),
              !.history[i] = Rehydrated(i, proc[p].protection, i \in copied)]
    BY <1>4 DEF RehydrateRestored
  <2>2. PICK s, r : /\ s = Rehydrated(t, proc[p].source, t \in copied)
                    /\ r = Rehydrated(i, proc[p].protection, i \in copied)
    OBVIOUS
  <2>3. s.completed = proc[p].source.completed /\ r.completed = proc[p].protection.completed
    <3>1. proc[p].source \in Row0 /\ proc[p].protection \in Row0
      BY <1>1 DEF TypeOK, ProcRow
    <3>2. \A x \in Row0 : \A l, a, c :
             [x EXCEPT !.status = "VERIFIED", !.locked = l, !.asset = a,
                       !.cloud = c].completed = x.completed
      BY DEF Row0
    <3>3. ASSUME NEW b, NEW row \in Row0, NEW copy
          PROVE  Rehydrated(b, row, copy).completed = row.completed
      BY <3>2 DEF Rehydrated
    <3>. QED
      BY <2>2, <3>1, <3>3
  <2>4. db'.history = [db.history EXCEPT ![t] = s, ![i] = r]
    <3>1. \A d \in Database : \A x, y : [d EXCEPT !.history[t] = x, !.history[i] = y].history
                                      = [d.history EXCEPT ![t] = x, ![i] = y]
      BY DEF Database
    <3>. QED
      BY <1>1, <2>1, <2>2, <3>1 DEF TypeOK
  <2>5. db.history \in [Id -> Row0]
    BY <1>1 DEF TypeOK, Database
  <2>. QED
    BY <1>5, <2>3, <2>4, <2>5
<1>8. ASSUME NEW n \in Nat, Recalled(n), NEW b \in {t, i}
      PROVE  db'.history[b].completed <= n
  BY <1>7, <1>8 DEF Recalled
<1> DEFINE B == {t, i}
<1>9. B \in SUBSET used /\ B \in SUBSET Id /\ \A b \in Id \ B : db'.history[b] = db.history[b]
  BY <1>5, <1>7
<1>10. \A b \in B : db'.history[b].completed <= clock'
  <2>1. clock \in Nat /\ Recalled(clock)
    BY <1>1, NumberTypes DEF Aged, Timed
  <2>. QED
    BY <1>1, <1>8, <2>1
<1>11. clock' \in Nat /\ clock <= clock'
  BY <1>1, NumberTypes
<1>12. \A q \in Process : proc[q].op = "retain" =>
          /\ proc[q].id \notin B
          /\ \A n \in Nat : Recalled(n) =>
                \A b \in B : db'.history[b].cloud => db'.history[b].completed <= n
  BY <1>1, <1>6, <1>8 DEF BackupOps
<1>13. Waits
  BY <1>2, <1>3 DEF Frame, Waits
<1> HIDE DEF B
<1>14. Unknown' /\ Timed'
  BY <1>1, <1>2, <1>3, <1>9, <1>10, <1>11, EditAges DEF Aged
<1>15. Latest'
  BY <1>1, <1>2, <1>9, <1>12, <1>13, EditLatest DEF Aged
<1>. QED
  BY <1>14, <1>15 DEF Aged

\* RecordImport writes a row that is not in the cloud.
LEMMA ImportAges ==
    ASSUME RetentionInv, NEW p \in Process, Goes(p), RecordImport(p)
    PROVE  Aged'
<1>1. /\ TypeOK /\ Actors /\ Aged /\ proc[p].op = "imported"
      /\ UNCHANGED <<dump, used>> /\ clock' = clock + 1
  BY DEF RetentionInv, BackupInv, Aged, RecordImport, files
<1>2. Recalls /\ proc'[p].op = "leave"
  BY <1>1, ToMemory DEF RecordImport, Ops
<1>3. Follows /\ Frame(p)
  BY <1>1, GoesFollows
<1>4. proc[p].id \in Id /\ proc[p].id # None /\ proc[p].id \in used
  BY <1>1, BackupAssumption DEF Actors, ActorsOf, ImportOps, RetentionInv, BackupInv, Numbered
<1>5. PICK row : SetRow(proc[p].id, row) /\ row.completed = clock' /\ row.cloud = FALSE
  <2>1. PICK n : n = Cardinality(db.data)
    OBVIOUS
  <2>2. SetRow(proc[p].id, [NoRow EXCEPT !.status = "VERIFIED", !.completed = clock',
                                         !.counted = n])
    BY <2>1 DEF RecordImport
  <2>3. LET y == [NoRow EXCEPT !.status = "VERIFIED", !.completed = clock', !.counted = n]
        IN y.completed = clock' /\ y.cloud = FALSE
    BY DEF NoRow
  <2>. QED
    BY <2>2, <2>3
<1>6. /\ db'.history[proc[p].id] = row
      /\ \A c \in Id : c # proc[p].id => db'.history[c] = db.history[c]
  BY <1>1, <1>4, <1>5, RowOnly DEF TypeOK
<1> DEFINE B == {proc[p].id}
<1>7. B \in SUBSET used /\ B \in SUBSET Id /\ \A b \in Id \ B : db'.history[b] = db.history[b]
  BY <1>4, <1>6
<1>8. clock' \in Nat /\ clock <= clock'
  BY <1>1, NumberTypes
<1>9. \A b \in B : db'.history[b].completed <= clock' /\ db'.history[b].cloud = FALSE
  BY <1>5, <1>6, <1>8
<1>10. \A q \in Process : proc[q].op = "retain" => proc[q].id \notin B
  BY <1>1, <1>4 DEF RetentionInv, BackupInv, Numbered
<1>11. Waits
  BY <1>2, <1>3 DEF Frame, Waits
<1> HIDE DEF B
<1>12. Unknown' /\ Timed'
  BY <1>1, <1>2, <1>3, <1>7, <1>8, <1>9, EditAges DEF Aged
<1>13. Latest'
  BY <1>1, <1>2, <1>7, <1>9, <1>10, <1>11, EditLatest DEF Aged
<1>. QED
  BY <1>12, <1>13 DEF Aged

\* Every step leaves the ages of rows in order.
LEMMA AgesStep ==
    ASSUME RetentionInv, [Next]_vars
    PROVE  Aged'
<1>1. TypeOK /\ Actors /\ Aged /\ Dumped
  BY DEF RetentionInv, BackupInv, Aged
<1>2. CASE CreateAdmin \/ UNCHANGED vars
           \/ (\E w \in Write : Admit(w) \/ CommitWrite(w))
           \/ (\E b \in Id, locked \in BOOLEAN : Lock(b, locked))
           \/ Crash
  <2>1. \A d \in Database : \A w : /\ [d EXCEPT !.admin = TRUE].history = d.history
                               /\ [d EXCEPT !.data = @ \cup {w}].history = d.history
    BY DEF Database
  <2>2. UNCHANGED <<dump, used, clock>>
    BY <1>2 DEF CreateAdmin, vars, Admit, CommitWrite, Lock, Crash, files, numbers
  <2>3. Steady
    <3>1. CASE \E b \in Id, locked \in BOOLEAN : Lock(b, locked)
      <4>1. PICK b \in Id, locked \in BOOLEAN : Lock(b, locked)
        BY <3>1
      <4>2. Row(b) \in Row0 /\ Row(b).status # "ABSENT"
        BY <1>1, <4>1, RowType DEF Lock, TypeOK, Known
      <4>3. \A x \in Row0 : LET y == [x EXCEPT !.locked = locked]
                            IN /\ y \in Row0 /\ y.status = x.status
                               /\ y.completed = x.completed /\ y.cloud = x.cloud
        BY DEF Row0
      <4>. QED
        BY <1>1, <2>2, <4>1, <4>2, <4>3, RowSteady DEF Lock, TypeOK
    <3>2. CASE CreateAdmin \/ \E w \in Write : CommitWrite(w)
      <4>1. db'.history = db.history
        BY <1>1, <2>1, <3>2 DEF CreateAdmin, CommitWrite, TypeOK
      <4>. QED
        BY <2>2, <4>1 DEF Steady
    <3>3. CASE UNCHANGED db
      BY <2>2, <3>3 DEF Steady
    <3>. QED
      BY <1>2, <3>1, <3>2, <3>3 DEF vars, Admit, Crash
  <2>4. Recalls /\ Follows /\ Waits
    <3>1. CASE proc' = proc
      BY <2>2, <3>1 DEF Recalls, Follows, Waits
    <3>2. CASE Crash
      BY <2>2, <3>2 DEF Crash, IdleProc, Recalls, Follows, Waits, BackupOps
    <3>. QED
      BY <1>2, <3>1, <3>2 DEF CreateAdmin, vars, Admit, CommitWrite, Lock
  <2>. QED
    BY <1>1, <2>2, <2>3, <2>4, SteadyAges DEF Aged
<1>3. ASSUME NEW p \in Process, StartBackup(p) \/ BackupStep(p)
      PROVE  Aged'
  <2>1. Goes(p)
    BY <1>1, <1>3, StartKind, RecordKind, DumpKind, ManifestKind, StoreKind, CompleteKind,
       SelectKind, CheckKind, DeleteKind, MarkKind, EndKind, FailKind
       DEF BackupStep, Goes
  <2>2. CASE RecordBackup(p) \/ Dump(p) \/ CompleteBackup(p) \/ FailBackup(p) \/ EndBackup(p)
    BY <2>1, <2>2, RecordAges, DumpAges, CompleteAges, FailAges, EndAges
  <2>3. CASE \/ StartBackup(p) \/ WriteManifest(p) \/ StoreBackup(p) \/ SelectExpired(p)
             \/ CheckExpired(p) \/ DeleteFiles(p) \/ MarkExpired(p)
    BY <1>1, <2>1, <2>3, BackupSteady, GoesSteady
  <2>. QED
    BY <1>3, <2>2, <2>3 DEF BackupStep
<1>4. ASSUME NEW p \in Process,
             RestoreStep(p) \/ Verify(p) \/ LoadBootstrap(p) \/ BootstrapStep(p)
      PROVE  Aged'
  <2>1. Goes(p)
    BY <1>1, <1>4, EnterKind, ProtectKind, GoesOnKind, ReplaceKind, RehydrateKind,
       RollbackKind, LeaveKind, ImportKind, EnterImportKind, OverwriteKind,
       RecordImportKind, VerifyKind
       DEF RestoreStep, BootstrapStep, Goes
  <2>2. CASE ReplaceDatabase(p) \/ RehydrateRestored(p) \/ OverwriteDatabase(p)
             \/ RecordImport(p)
    <3>1. CASE ReplaceDatabase(p)
      <4>1. \/ ReplaceDatabase(p)
            \/ RollbackRestore(p) /\ db' = RollbackTo(p) /\ To(p, "kept")
        BY <3>1
      <4>. QED
        BY <2>1, <4>1, RestoreAges
    <3>2. CASE RehydrateRestored(p)
      BY <2>1, <3>2, RehydrateAges
    <3>3. CASE OverwriteDatabase(p)
      BY <2>1, <3>3, OverwriteAges
    <3>4. CASE RecordImport(p)
      BY <2>1, <3>4, ImportAges
    <3>. QED
      BY <2>2, <3>1, <3>2, <3>3, <3>4
  <2>3. CASE RollbackRestore(p)
    <3>1. CASE db' = RollbackTo(p) /\ To(p, "kept")
      BY <2>1, <2>3, <3>1, RestoreAges
    <3>2. CASE UNCHANGED db
      BY <1>1, <2>1, <2>3, <3>2, RestoreSteady, GoesSteady
    <3>. QED
      BY <2>3, <3>1, <3>2 DEF RollbackRestore
  <2>4. CASE \/ EnterMaintenance(p) \/ ProtectRestore(p) \/ FailProtect(p) \/ CheckCounts(p)
             \/ FailRestore(p) \/ LeaveMaintenance(p) \/ LoadBootstrap(p)
             \/ EnterBootstrap(p) \/ FailBootstrap(p) \/ Verify(p)
    BY <1>1, <2>1, <2>4, RestoreSteady, GoesSteady
  <2>. QED
    BY <1>4, <2>2, <2>3, <2>4 DEF RestoreStep, BootstrapStep
<1>5. ASSUME NEW p \in Process, NEW b \in Id, LoadRestore(p, b) \/ LoadVerify(p, b)
      PROVE  Aged'
  <2>1. Goes(p)
    BY <1>1, <1>5, LoadKind, LoadVerifyKind DEF Goes
  <2>. QED
    BY <1>1, <1>5, <2>1, LoadAges, RestoreSteady, GoesSteady
<1>. QED
  BY <1>2, <1>3, <1>4, <1>5 DEF Next

\* Every step aims restores at backups that were begun before.
LEMMA AimedStep ==
    ASSUME RetentionInv, [Next]_vars
    PROVE  Aimed'
<1>1. TypeOK /\ Actors /\ Aimed /\ Unknown /\ Alone /\ Dumped
  BY DEF RetentionInv, BackupInv
<1>2. Quiet \/ Stops \/ \E p \in Process : Goes(p)
  BY <1>1, StepKinds
<1>3. CASE Quiet
  BY <1>1, <1>3 DEF Quiet, Aimed, AimedOf
<1>4. CASE Stops
  BY <1>4 DEF Stops, IdleProc, Aimed, AimedOf
<1>5. ASSUME NEW p \in Process, Goes(p)
      PROVE  Aimed'
  <2>1. Follows /\ Frame(p)
    BY <1>1, <1>5, GoesFollows
  <2>2. ASSUME NEW q \in Process, proc'[q].op \in Aiming, proc'[q].target # None,
               proc[q].op \in Aiming, proc'[q].target = proc[q].target
        PROVE  AimedOf(q)'
    <3>1. proc[q].target \in used
      BY <1>1, <2>2 DEF Aimed, AimedOf
    <3>2. ASSUME NEW r \in Process, proc'[r].op \in BackupOps
          PROVE  proc'[r].id # proc'[q].target
      <4>1. CASE proc[r].op \in BackupOps /\ proc'[r].id = proc[r].id
        BY <1>1, <2>2, <4>1 DEF Aimed, AimedOf
      <4>2. CASE proc'[r].id \in Id \ used
        BY <2>2, <3>1, <4>2
      <4>. QED
        BY <2>1, <3>2, <4>1, <4>2 DEF Follows
    <3>. QED
      BY <2>1, <2>2, <3>1, <3>2 DEF Follows, AimedOf
  <2>3. \A q \in Process : q # p => AimedOf(q)'
    <3>1. ASSUME NEW q \in Process, q # p, proc'[q].op \in Aiming, proc'[q].target # None
          PROVE  AimedOf(q)'
      BY <2>1, <2>2, <3>1 DEF Frame
    <3>. QED
      BY <3>1 DEF AimedOf
  <2>4. SUFFICES ASSUME proc'[p].op \in Aiming, proc'[p].target # None
                 PROVE  AimedOf(p)'
    BY <2>3 DEF Aimed, AimedOf
  <2>5. CASE Backs(p)
    BY <2>2, <2>4, <2>5 DEF Backs, SameRequest, Aiming, Dumping, BackupOps
  <2>6. CASE Restores(p) \/ Replaces(p)
    BY <2>2, <2>4, <2>6 DEF Restores, Replaces, SameRequest, Aiming, BackupOps, RestoreOps
  <2>7. CASE TakesNumber(p)
    <3>1. proc[p].op = "idle" => proc[p].target = None
      BY <1>1 DEF Actors, ActorsOf
    <3>. QED
      BY <2>2, <2>4, <2>7, <3>1 DEF TakesNumber, Aiming
  <2>8. CASE TakesImport(p) \/ Leaves(p)
    BY <2>4, <2>8 DEF TakesImport, Leaves, IdleProc, Aiming, BackupOps, RestoreOps
  <2>9. CASE Chooses(p)
    <3>1. /\ proc'[p].op = "enter" /\ ~ backupRunning
          /\ proc'[p].target \in Id
          /\ db.history[proc'[p].target].status # "ABSENT" /\ used' = used
      BY <2>4, <2>9 DEF Chooses, Aiming, BackupOps, RestoreOps
    <3>2. proc'[p].target \in used'
      BY <1>1, <3>1 DEF Unknown, Known, Row
    <3>3. \A r \in Process : proc'[r].op \notin BackupOps
      BY <1>1, <2>1, <3>1 DEF Alone, FlagsOwned, Frame, BackupOps
    <3>. QED
      BY <3>2, <3>3 DEF AimedOf
  <2>10. CASE TakesOver(p)
    BY <2>2, <2>4, <2>10 DEF TakesOver, Aiming, BackupOps, RestoreOps
  <2>11. CASE Hands(p)
    BY <2>2, <2>4, <2>11 DEF Hands, SameRequest, Aiming, BackupOps, RestoreOps
  <2>. QED
    BY <1>5, <2>5, <2>6, <2>7, <2>8, <2>9, <2>10, <2>11 DEF Goes
<1>. QED
  BY <1>2, <1>3, <1>4, <1>5

\* The backup that ended last is not selected: each tier keeps it.
LEMMA OwnIsKept ==
    ASSUME TypeOK, Latest, NEW p \in Process, proc[p].op = "retain", proc[p].id \in Id
    PROVE  proc[p].id \notin Expired
<1> DEFINE b == proc[p].id
<1>1. SUFFICES ASSUME b \in Candidates
               PROVE  \E tier \in Tiers : KeptByTier(tier, b)
  BY DEF Expired
<1>2. Known(b)
  BY <1>1 DEF Candidates, Known
<1>3. \A c \in Candidates : Row(c).completed <= Row(b).completed
  BY <1>2 DEF Latest, Candidates
<1>4. \A c \in Id : Row(c).completed \in Nat
  BY NumberTypes
<1>5. {c \in Candidates : Row(c).completed > Row(b).completed} = {}
  BY <1>3, <1>4 DEF Candidates
<1>6. PICK tier \in Tiers : tier.limit \in Nat \ {0}
  BY BackupAssumption DEF TierRow
<1>7. KeptByTier(tier, b)
  <2> DEFINE Later == {c \in Candidates : Row(c).completed > Row(b).completed}
             Periods == {tier.period[Row(c).completed] : c \in Later}
  <2>1. Periods = {} /\ Cardinality({}) = 0
    BY <1>5, FS_EmptySet
  <2>2. Cardinality(Periods) < tier.limit
    <3>1. 0 < tier.limit
      BY <1>6
    <3> HIDE DEF Periods
    <3>. QED
      BY <2>1, <3>1
  <2>3. \A c \in Later : tier.period[Row(c).completed] # tier.period[Row(b).completed]
    BY <1>5
  <2>. QED
    BY <2>2, <2>3, Zenon DEF KeptByTier
<1>. QED
  BY <1>7

\* What the other requests hold is still there: only one deletes files.
LEMMA HeldOthers ==
    ASSUME Held, NEW p \in Process, Frame(p), NEW q \in Process, q # p,
           proc[q].op \in Dumping => proc[q].id \in local'
    PROVE  HeldOf(q)'
BY DEF Held, HeldOf, Frame

\* Every step leaves a backup its own file.
LEMMA HeldStep ==
    ASSUME RetentionInv, [Next]_vars
    PROVE  Held'
<1>1. TypeOK /\ Actors /\ Held /\ Dumped /\ Latest /\ BackupInv
  BY DEF RetentionInv, BackupInv
<1>2. CASE UNCHANGED <<proc, local>>
  BY <1>1, <1>2 DEF Held, HeldOf
<1>3. CASE Crash
  BY <1>3 DEF Crash, IdleProc, Held, HeldOf, Dumping, BackupOps
<1>4. ASSUME NEW p \in Process, Frame(p), local \subseteq local', HeldOf(p)'
      PROVE  Held'
  BY <1>1, <1>4, HeldOthers DEF Held, HeldOf
<1>5. ASSUME NEW p \in Process, Frame(p), local \subseteq local', proc'[p].op \notin Dumping
      PROVE  Held'
  BY <1>4, <1>5 DEF HeldOf, Dumping, BackupOps
<1>6. CASE \/ CreateAdmin \/ UNCHANGED vars
           \/ \E w \in Write : Admit(w) \/ CommitWrite(w)
           \/ \E b \in Id, locked \in BOOLEAN : Lock(b, locked)
  BY <1>2, <1>6 DEF CreateAdmin, vars, Admit, CommitWrite, Lock, files
<1>7. ASSUME NEW p \in Process, StartBackup(p)
      PROVE  Held'
  BY <1>1, <1>5, <1>7, StartKind DEF StartBackup, TakesNumber, Dumping
<1>8. ASSUME NEW p \in Process,
             RestoreStep(p) \/ Verify(p) \/ LoadBootstrap(p) \/ BootstrapStep(p)
      PROVE  Held'
  <2>1. \/ Restores(p) \/ Replaces(p) \/ TakesNumber(p) \/ TakesImport(p)
        \/ TakesOver(p) \/ Leaves(p)
    BY <1>1, <1>8, EnterKind, ProtectKind, GoesOnKind, ReplaceKind, RehydrateKind,
       RollbackKind, LeaveKind, ImportKind, EnterImportKind, OverwriteKind,
       RecordImportKind, VerifyKind
       DEF RestoreStep, BootstrapStep
  <2>2. Frame(p) /\ proc'[p].op \notin Dumping
    BY <2>1 DEF Restores, Replaces, TakesNumber, TakesImport, TakesOver, Leaves, IdleProc,
                Dumping, BackupOps
  <2>3. local' = local
    BY <1>8 DEF RestoreStep, BootstrapStep, Verify, LoadBootstrap, EnterMaintenance, Enters,
                ProtectRestore, FailProtect, ReplaceDatabase, CheckCounts,
                RehydrateRestored, FailRestore, RollbackRestore, LeaveMaintenance,
                EnterBootstrap, OverwriteDatabase, RecordImport, FailBootstrap, files
  <2>. QED
    BY <1>5, <2>2, <2>3
<1>9. ASSUME NEW p \in Process, NEW b \in Id, LoadRestore(p, b) \/ LoadVerify(p, b)
      PROVE  Held'
  <2>1. Chooses(p)
    BY <1>1, <1>9, LoadKind, LoadVerifyKind
  <2>2. local' = local
    BY <1>9 DEF LoadRestore, LoadVerify, files
  <2>. QED
    BY <1>5, <2>1, <2>2 DEF Chooses, Dumping, BackupOps
<1>10. ASSUME NEW p \in Process, BackupStep(p)
       PROVE  Held'
  <2>1. /\ proc[p].op \in BackupOps /\ HeldOf(p)
        /\ \A q \in Process : q # p => proc[q].op \notin BackupOps
        /\ proc[p].id \in Id
    <3>1. proc[p].op \in BackupOps
      BY <1>10 DEF BackupStep, RecordBackup, Dump, WriteManifest, StoreBackup,
                   CompleteBackup, SelectExpired, CheckExpired, DeleteFiles, MarkExpired,
                   EndBackup, FailBackup, BackupOps
    <3>. QED
      BY <1>1, <3>1, OnlyWriter DEF Held
  <2>2. CASE RecordBackup(p) \/ EndBackup(p) \/ FailBackup(p)
    <3>1. Frame(p) /\ proc'[p].op \notin Dumping
      <4>1. CASE RecordBackup(p)
        <5>1. Frame(p) /\ proc'[p].op = "dump"
          BY <1>1, <4>1, ToType DEF RecordBackup, TypeOK, Ops, BackupOps
        <5>. QED
          BY <5>1 DEF Dumping
      <4>2. CASE EndBackup(p)
        <5>1. (Leaves(p) \/ Hands(p)) /\ proc[p].op = "expire"
          BY <1>1, <4>2, EndKind DEF EndBackup
        <5>2. CASE Leaves(p)
          BY <5>2 DEF Leaves, IdleProc, Dumping, BackupOps
        <5>3. CASE proc'[p].op \in {"replace", "leave"} /\ Frame(p)
          BY <5>3 DEF Dumping, BackupOps
        <5>4. CASE Hands(p)
          <6>1. proc[p].target # None
            BY <5>4 DEF Hands
          <6>2. \/ proc' = [proc EXCEPT ![p].op = "replace", ![p].protection = Row(proc[p].id)]
                \/ To(p, "leave")
            BY <4>2, <6>1 DEF EndBackup
          <6>3. PICK y : y = Row(proc[p].id)
            OBVIOUS
          <6>4. proc'[p].op \in {"replace", "leave"}
            <7>1. CASE To(p, "leave")
              BY <1>1, <7>1, ToMemory DEF Ops
            <7>2. CASE proc' = [proc EXCEPT ![p].op = "replace", ![p].protection = y]
              <8>1. \A x \in ProcRow :
                       [x EXCEPT !.op = "replace", !.protection = y].op = "replace"
                BY DEF ProcRow
              <8>. QED
                BY <1>1, <7>2, <8>1 DEF TypeOK
            <7>. QED
              BY <6>2, <6>3, <7>1, <7>2
          <6>. QED
            BY <5>3, <5>4, <6>4 DEF Hands
        <5>. QED
          BY <5>1, <5>2, <5>4
      <4>3. CASE FailBackup(p)
        <5>1. Leaves(p) \/ Hands(p)
          BY <1>1, <4>3, FailKind
        <5>2. CASE Leaves(p)
          BY <5>2 DEF Leaves, IdleProc, Dumping, BackupOps
        <5>3. CASE Hands(p)
          <6>1. proc[p].target # None
            BY <5>3 DEF Hands
          <6>2. proc' = [proc EXCEPT ![p].op = "leave", ![p].todo = {}, ![p].victim = None]
            BY <4>3, <6>1 DEF FailBackup
          <6>3. \A x \in ProcRow :
                   [x EXCEPT !.op = "leave", !.todo = {}, !.victim = None].op = "leave"
            BY DEF ProcRow
          <6>4. proc'[p].op = "leave"
            BY <1>1, <6>2, <6>3 DEF TypeOK
          <6>. QED
            BY <5>3, <6>4 DEF Hands, Dumping, BackupOps
        <5>. QED
          BY <5>1, <5>2, <5>3
      <4>. QED
        BY <2>2, <4>1, <4>2, <4>3
    <3>2. local' = local
      BY <2>2 DEF RecordBackup, EndBackup, FailBackup, files
    <3>. QED
      BY <1>5, <3>1, <3>2
  <2>3. CASE Dump(p)
    <3>1. /\ Frame(p) /\ proc'[p].op = "manifest" /\ proc'[p].id = proc[p].id
      BY <1>1, <2>3, ToType DEF Dump, TypeOK, Ops, BackupOps, SameRequest
    <3>2. local' = local \cup {proc[p].id}
      BY <2>3 DEF Dump
    <3>. QED
      BY <1>4, <3>1, <3>2 DEF HeldOf
  <2>4. CASE WriteManifest(p) \/ StoreBackup(p) \/ CompleteBackup(p)
    <3>1. PICK op \in {"store", "complete", "retain"} : To(p, op)
      BY <2>4 DEF WriteManifest, StoreBackup, CompleteBackup
    <3>2. Frame(p) /\ proc'[p].op = op /\ proc'[p].id = proc[p].id
      BY <1>1, <3>1, ToType DEF TypeOK, Ops, BackupOps, SameRequest
    <3>3. local' = local /\ proc[p].op \in Dumping
      BY <2>4 DEF WriteManifest, StoreBackup, CompleteBackup, files, Dumping, BackupOps
    <3>. QED
      BY <1>4, <2>1, <3>2, <3>3 DEF HeldOf
  <2>5. CASE SelectExpired(p)
    <3>1. proc[p].id \notin Expired
      BY <1>1, <2>1, <2>5, OwnIsKept DEF SelectExpired
    <3>2. \A x \in ProcRow : LET y == [x EXCEPT !.op = "expire", !.todo = Expired]
                             IN y.op = "expire" /\ y.todo = Expired /\ y.id = x.id
      BY DEF ProcRow
    <3>3. proc'[p].op = "expire" /\ proc'[p].todo = Expired /\ proc'[p].id = proc[p].id
      BY <1>1, <2>5, <3>2 DEF SelectExpired, TypeOK
    <3>4. Frame(p) /\ local' = local /\ proc[p].op = "retain"
      BY <1>1, <2>5, SelectKind DEF SelectExpired, Backs, files
    <3>. QED
      BY <1>4, <2>1, <3>1, <3>3, <3>4 DEF HeldOf, Dumping, BackupOps
  <2>6. CASE CheckExpired(p)
    <3>1. PICK b \in proc[p].todo :
           \/ proc' = [proc EXCEPT ![p].op = "delete", ![p].victim = b, ![p].todo = @ \ {b}]
           \/ proc' = [proc EXCEPT ![p].todo = @ \ {b}]
      BY <2>6 DEF CheckExpired
    <3>2. \A x \in ProcRow :
             LET y == [x EXCEPT !.op = "delete", !.victim = b, !.todo = @ \ {b}]
                 z == [x EXCEPT !.todo = @ \ {b}]
             IN /\ y.op = "delete" /\ y.victim = b /\ y.todo \subseteq x.todo /\ y.id = x.id
                /\ z.op = x.op /\ z.todo \subseteq x.todo /\ z.id = x.id
      BY DEF ProcRow
    <3>3. /\ proc'[p].todo \subseteq proc[p].todo /\ proc'[p].id = proc[p].id
          /\ \/ proc'[p].op = "delete" /\ proc'[p].victim = b
             \/ proc'[p].op = proc[p].op
      BY <1>1, <3>1, <3>2 DEF TypeOK
    <3>4. Frame(p) /\ local' = local /\ proc[p].op = "expire"
      BY <1>1, <2>6, CheckKind DEF CheckExpired, Backs, files
    <3>. QED
      BY <1>4, <2>1, <3>1, <3>3, <3>4 DEF HeldOf, Dumping, BackupOps
  <2>7. CASE DeleteFiles(p)
    <3>1. /\ Frame(p) /\ proc'[p].op = "mark" /\ proc'[p].id = proc[p].id
          /\ proc'[p].todo = proc[p].todo /\ proc'[p].victim = proc[p].victim
      BY <1>1, <2>7, ToType, ToMemory DEF DeleteFiles, TypeOK, Ops, BackupOps, SameRequest
    <3>2. local' = local \ {proc[p].victim} /\ proc[p].op = "delete"
      BY <2>7 DEF DeleteFiles
    <3>3. HeldOf(p)'
      BY <2>1, <3>1, <3>2 DEF HeldOf, Dumping, BackupOps
    <3>4. \A q \in Process : q # p => HeldOf(q)'
      BY <1>1, <2>1, <3>1, HeldOthers DEF Dumping
    <3>. QED
      BY <3>3, <3>4 DEF Held
  <2>8. CASE MarkExpired(p)
    <3>1. \A x \in ProcRow : LET y == [x EXCEPT !.op = "expire", !.victim = None]
                             IN y.op = "expire" /\ y.todo = x.todo /\ y.id = x.id
      BY DEF ProcRow
    <3>2. proc'[p].op = "expire" /\ proc'[p].todo = proc[p].todo /\ proc'[p].id = proc[p].id
      BY <1>1, <2>8, <3>1 DEF MarkExpired, TypeOK
    <3>3. Frame(p) /\ local' = local /\ proc[p].op = "mark"
      BY <1>1, <2>8, MarkKind DEF MarkExpired, Backs, files
    <3>. QED
      BY <1>4, <2>1, <3>2, <3>3 DEF HeldOf, Dumping, BackupOps
  <2>. QED
    BY <1>10, <2>2, <2>3, <2>4, <2>5, <2>6, <2>7, <2>8 DEF BackupStep
<1>. QED
  BY <1>3, <1>6, <1>7, <1>8, <1>9, <1>10 DEF Next

\* Every step leaves the file of a backup.
LEMMA RecoverableStep ==
    ASSUME RetentionInv, [Next]_vars
    PROVE  AlwaysRecoverable'
<1>1. CASE \E p \in Process : Dump(p)
  BY <1>1 DEF Dump, AlwaysRecoverable
<1>2. CASE \E p \in Process : DeleteFiles(p)
  <2>1. PICK p \in Process : DeleteFiles(p)
    BY <1>2
  <2>2. proc[p].id \in local /\ proc[p].victim # proc[p].id
    BY <2>1 DEF RetentionInv, Held, HeldOf, DeleteFiles, Dumping, BackupOps
  <2>3. proc[p].id \in local'
    BY <2>1, <2>2 DEF DeleteFiles
  <2>. QED
    BY <2>3 DEF AlwaysRecoverable
<1>3. ASSUME UNCHANGED dump, local \cup stored \subseteq local' \cup stored'
      PROVE  AlwaysRecoverable'
  BY <1>3 DEF RetentionInv, AlwaysRecoverable
<1>4. CASE UNCHANGED <<dump, local, stored>>
  BY <1>3, <1>4
<1>5. CASE CreateAdmin \/ UNCHANGED vars \/ Crash
           \/ (\E w \in Write : Admit(w) \/ CommitWrite(w))
           \/ (\E b \in Id, locked \in BOOLEAN : Lock(b, locked))
  BY <1>4, <1>5 DEF CreateAdmin, vars, Crash, Admit, CommitWrite, Lock, files
<1>6. ASSUME NEW p \in Process, StartBackup(p) \/ BackupStep(p)
      PROVE  AlwaysRecoverable'
  <2>1. CASE StoreBackup(p)
    BY <1>3, <2>1 DEF StoreBackup
  <2>2. CASE \/ StartBackup(p) \/ RecordBackup(p) \/ WriteManifest(p) \/ CompleteBackup(p)
             \/ SelectExpired(p) \/ CheckExpired(p) \/ MarkExpired(p) \/ EndBackup(p)
             \/ FailBackup(p)
    BY <1>4, <2>2 DEF StartBackup, RecordBackup, WriteManifest, CompleteBackup,
                      SelectExpired, CheckExpired, MarkExpired, EndBackup, FailBackup, files
  <2>. QED
    BY <1>1, <1>2, <1>6, <2>1, <2>2 DEF BackupStep
<1>7. ASSUME NEW p \in Process,
             RestoreStep(p) \/ Verify(p) \/ LoadBootstrap(p) \/ BootstrapStep(p)
      PROVE  AlwaysRecoverable'
  <2>1. CASE RehydrateRestored(p)
    BY <1>3, <2>1 DEF RehydrateRestored
  <2>2. CASE ~ RehydrateRestored(p)
    BY <1>4, <1>7, <2>2 DEF RestoreStep, BootstrapStep, Verify, LoadBootstrap,
       EnterMaintenance, Enters, ProtectRestore, FailProtect, ReplaceDatabase, CheckCounts,
       FailRestore, RollbackRestore, LeaveMaintenance, EnterBootstrap, OverwriteDatabase,
       RecordImport, FailBootstrap, files
  <2>. QED
    BY <2>1, <2>2
<1>8. ASSUME NEW p \in Process, NEW b \in Id, LoadRestore(p, b) \/ LoadVerify(p, b)
      PROVE  AlwaysRecoverable'
  BY <1>4, <1>8 DEF LoadRestore, LoadVerify, files
<1>. QED
  BY <1>5, <1>6, <1>7, <1>8 DEF Next

\* Initially there is nothing to keep.
LEMMA RetentionInit == Init => RetentionInv
<1> SUFFICES ASSUME Init
             PROVE  RetentionInv
  OBVIOUS
<1>1. BackupInv
  BY BackupInit
<1>2. \A q \in Process : /\ proc[q].op = "idle" /\ proc[q].source.completed = 0
                         /\ proc[q].protection.completed = 0
  BY DEF Init, IdleProc, NoRow
<1>3. \A b \in Id : /\ Row(b).status = "ABSENT" /\ Row(b).completed = 0
                    /\ dump[b] = NoDump
  <2>1. \A a : [Empty EXCEPT !.admin = a].history = [b \in Id |-> NoRow]
    BY DEF Empty
  <2>2. db.history = [b \in Id |-> NoRow]
    BY <2>1 DEF Init
  <2>. QED
    BY <2>2 DEF Init, Row, NoRow
<1>4. Held /\ Aimed /\ Latest
  BY <1>2 DEF Held, HeldOf, Aimed, AimedOf, Aiming, Latest, Dumping, BackupOps, RestoreOps
<1>5. Unknown
  BY <1>2, <1>3 DEF Unknown, Known, Lacks, BackupOps
<1>6. Timed
  BY <1>2, <1>3 DEF Timed, Recalled, Init
<1>7. AlwaysRecoverable
  BY <1>3 DEF AlwaysRecoverable
<1>. QED
  BY <1>1, <1>4, <1>5, <1>6, <1>7 DEF RetentionInv

\* The invariant of retention: a backup that deletes others has a file of its own,
\* which it never selects.
THEOREM RetentionInvariant == Spec => []RetentionInv
<1>1. RetentionInv /\ [Next]_vars => RetentionInv'
  <2> SUFFICES ASSUME RetentionInv, [Next]_vars
               PROVE  RetentionInv'
    OBVIOUS
  <2>1. BackupInv'
    BY BackupStepKeeps DEF RetentionInv
  <2>2. Aged' /\ Aimed' /\ Held' /\ AlwaysRecoverable'
    BY AgesStep, AimedStep, HeldStep, RecoverableStep
  <2>. QED
    BY <2>1, <2>2 DEF RetentionInv, Aged
<1>. QED
  BY <1>1, RetentionInit, PTL DEF Spec

\* Whatever expires, fails, is interrupted or is restored meanwhile, once the database
\* was dumped the file of a backup is left (applyRetention, selectExpiredBackupIds).
THEOREM BackupsStayRecoverable == Spec => []AlwaysRecoverable
<1>1. RetentionInv => AlwaysRecoverable
  BY DEF RetentionInv
<1>. QED
  BY <1>1, RetentionInvariant, PTL

(***************************************************************************)
(* The connection with OneDrive.                                           *)
(*                                                                         *)
(* Metadata comes from a drive that somebody saw, through every await that *)
(* carries it.  One slot (task) keeps two attempts apart until a           *)
(* disconnect empties it under one of them.  A disconnect that met no      *)
(* attempt lasts, because each of its three deletions stays done.          *)
(***************************************************************************)

\* Who has metadata in hand got it from the table or from the drive.
Seen ==
    /\ VerifiedConnection
    /\ \A a \in Attempt : flow[a] \in {"drive", "root"} => verified
    /\ probe.pc \in {"drive", "save"} => probe.metadata
    /\ probe.pc # "idle" /\ probe.metadata => verified

\* An attempt in flight that nobody let go of is the task of the service.
Slot == ~ adrift => \A a \in Attempt : Live(a) => task = a

\* What a disconnect has deleted so far, if no attempt is in flight.
Leaving ==
    /\ left # "no" => \A a \in Attempt : ~ Live(a)
    /\ left = "going" =>
          /\ disconnecting # "idle"
          /\ disconnecting = "cache" => ~ account /\ cached # "ACCOUNT"
          /\ disconnecting = "setting" => ~ account /\ cached = "NONE"
    /\ left = "left" =>
          /\ ~ setting /\ ~ account /\ cached = "NONE" /\ disconnecting = "idle"
          /\ probe.pc # "idle" => ~ probe.metadata

ConnectionInv == DriveTypeOK /\ Seen /\ Slot /\ Leaving

\* The server starts with nothing in progress.
LEMMA ConnectionInit == DriveInit => ConnectionInv
<1> SUFFICES ASSUME DriveInit
             PROVE  ConnectionInv
  OBVIOUS
<1>1. \A a \in Attempt : flow[a] = "new" /\ ~ Live(a)
  BY DEF DriveInit, Live
<1>2. DriveTypeOK
  <2>1. flow \in [Attempt -> {"new", "requested", "code", "token", "drive", "root",
                              "ended", "lost"}]
    BY DEF DriveInit
  <2>. QED
    BY <2>1 DEF DriveInit, DriveTypeOK, Cached, StatusCode, IdleProbe
<1>3. Seen
  BY <1>1 DEF DriveInit, Seen, VerifiedConnection, IdleProbe
<1>4. Slot /\ Leaving
  BY <1>1 DEF DriveInit, Slot, Leaving
<1>. QED
  BY <1>2, <1>3, <1>4 DEF ConnectionInv

\* The tables, the service and the page stay well formed.
LEMMA TypeStep == DriveTypeOK /\ [DriveNext]_driveVars => DriveTypeOK'
<1> SUFFICES ASSUME DriveTypeOK, [DriveNext]_driveVars
             PROVE  DriveTypeOK'
  OBVIOUS
<1> USE DEF DriveTypeOK, Cached, GraphError, StatusCode, database, service, msal, ghosts
<1>1. ASSUME NEW a \in Attempt, Start(a)
      PROVE  DriveTypeOK'
  BY <1>1 DEF Start
<1>2. ASSUME NEW a \in Attempt, CodeArrives(a)
      PROVE  DriveTypeOK'
  BY <1>2 DEF CodeArrives
<1>3. ASSUME NEW a \in Attempt, TokenArrives(a)
      PROVE  DriveTypeOK'
  BY <1>3 DEF TokenArrives, CacheAccount
<1>4. ASSUME NEW a \in Attempt, GetDrive(a)
      PROVE  DriveTypeOK'
  <2>1. CASE /\ flow' = [flow EXCEPT ![a] = "drive"]
             /\ verified' = TRUE
             /\ UNCHANGED service
    BY <1>4, <2>1 DEF GetDrive
  <2>2. CASE /\ AttemptEnds(a)
             /\ runtimeError' = "GRAPH_ERROR"
             /\ UNCHANGED <<account, verified>>
    BY <1>4, <2>2 DEF GetDrive, AttemptEnds, Finally
  <2>. QED
    BY <1>4, <2>1, <2>2 DEF GetDrive
<1>5. ASSUME NEW a \in Attempt, RootFolder(a)
      PROVE  DriveTypeOK'
  BY <1>5 DEF RootFolder
<1>6. ASSUME NEW a \in Attempt, GrantIsLost(a)
      PROVE  DriveTypeOK'
  BY <1>6 DEF GrantIsLost, Finally
<1>7. ASSUME NEW a \in Attempt, AuthorizationFails(a)
      PROVE  DriveTypeOK'
  BY <1>7 DEF AuthorizationFails, AttemptEnds, Finally
<1>8. ASSUME NEW a \in Attempt, CompletionFails(a)
      PROVE  DriveTypeOK'
  BY <1>8 DEF CompletionFails, AttemptEnds, Finally
<1>9. ASSUME NEW a \in Attempt, SaveConnection(a)
      PROVE  DriveTypeOK'
  BY <1>9 DEF SaveConnection, AttemptEnds, Finally
<1>10. CASE Status
  <2> DEFINE Probe == [pc : {"idle", "accounts", "drive", "save"}, metadata : BOOLEAN]
             Page  == [code : StatusCode, account : BOOLEAN]
  <2>0. \A c \in StatusCode, m \in BOOLEAN : Answers(c, m) => probe' \in Probe /\ page' \in Page
    BY DEF Answers, IdleProbe
  <2>1. CASE StatusAuthorizing
    BY <2>1 DEF StatusAuthorizing, Answers, IdleProbe
  <2>2. CASE StatusReads
    BY <2>2 DEF StatusReads
  <2>3. CASE StatusAccounts
    <3>1. \/ \E c \in StatusCode, m \in BOOLEAN : Answers(c, m)
          \/ probe' = [probe EXCEPT !.pc = "drive"] /\ UNCHANGED page
      BY <2>3 DEF StatusAccounts
    <3>2. probe' \in Probe /\ page' \in Page
      BY <2>0, <3>1
    <3>. QED
      BY <2>3, <3>2 DEF StatusAccounts
  <2>4. CASE StatusDrive
    <3>0. \/ \E c \in StatusCode, m \in BOOLEAN : Answers(c, m)
          \/ probe' = [probe EXCEPT !.pc = "save"] /\ UNCHANGED page
      BY <2>4 DEF StatusDrive
    <3>1. probe' \in Probe /\ page' \in Page
      BY <2>0, <3>0
    <3>2. runtimeError' \in GraphError \cup {Nothing}
      BY <2>4 DEF StatusDrive, GraphRefuses
    <3>. QED
      BY <2>4, <3>1, <3>2 DEF StatusDrive
  <2>5. CASE StatusSaves
    <3>1. \E c \in StatusCode, m \in BOOLEAN : Answers(c, m)
      BY <2>5 DEF StatusSaves
    <3>2. probe' \in Probe /\ page' \in Page
      BY <2>0, <3>1
    <3>3. setting' \in BOOLEAN /\ runtimeError' \in GraphError \cup {Nothing}
      BY <2>5 DEF StatusSaves
    <3>. QED
      BY <2>5, <3>2, <3>3 DEF StatusSaves
  <2>. QED
    BY <1>10, <2>1, <2>2, <2>3, <2>4, <2>5 DEF Status
<1>11. CASE Disconnect
  BY <1>11 DEF Disconnect
<1>12. CASE DisconnectAccounts
  <2>1. cached' \in Cached
    BY <1>12 DEF DisconnectAccounts, RemoveAccounts
  <2>2. account' \in BOOLEAN
    BY <1>12 DEF DisconnectAccounts, RemoveAccounts
  <2>3. disconnecting' \in {"idle", "accounts", "cache", "setting"}
    BY <1>12 DEF DisconnectAccounts
  <2>4. UNCHANGED <<setting, authorization, task, cancel, runtimeError, msal, probe, page,
                    restarts, ghosts>>
    BY <1>12 DEF DisconnectAccounts
  <2>. QED
    BY <2>1, <2>2, <2>3, <2>4
<1>13. CASE DisconnectCache
  BY <1>13 DEF DisconnectCache
<1>14. CASE DisconnectSetting
  BY <1>14 DEF DisconnectSetting, LetsGo
<1>15. CASE Restart \/ Move
  <2>1. flow' \in [Attempt -> {"new", "requested", "code", "token", "drive", "root",
                               "ended", "lost"}]
    BY <1>15 DEF Restart, Move, Forgets
  <2>2. cached' \in Cached
    BY <1>15 DEF Restart, Move
  <2>3. UNCHANGED <<setting, cancelled, page, verified>>
    BY <1>15 DEF Restart, Move
  <2>4. /\ account' \in BOOLEAN /\ adrift' \in BOOLEAN
        /\ authorization' = Nothing /\ task' = Nothing /\ cancel' = Nothing /\ runtimeError' = Nothing
        /\ disconnecting' = "idle" /\ left' \in {"no", "going", "left"}
    BY <1>15 DEF Restart, Move, Forgets
  <2>5. probe' \in [pc : {"idle", "accounts", "drive", "save"}, metadata : BOOLEAN]
    <3>1. probe' = [pc |-> "idle", metadata |-> FALSE]
      BY <1>15 DEF Restart, Move, Forgets, IdleProbe
    <3>. QED
      BY <3>1
  <2>. QED
    BY <2>1, <2>2, <2>3, <2>4, <2>5
<1>16. CASE UNCHANGED driveVars
  BY <1>16 DEF driveVars
<1>. QED
  BY <1>1, <1>2, <1>3, <1>4, <1>5, <1>6, <1>7, <1>8, <1>9, <1>10, <1>11, <1>12, <1>13, <1>14,
     <1>15, <1>16 DEF DriveNext, Background, Disconnects

\* Metadata is saved by an attempt that saw the drive, or by a poll that read it
\* when it was there.
LEMMA SeenStep == DriveTypeOK /\ Seen /\ [DriveNext]_driveVars => Seen'
<1> SUFFICES ASSUME DriveTypeOK, Seen, [DriveNext]_driveVars
             PROVE  Seen'
  OBVIOUS
<1> USE DEF Seen, VerifiedConnection, DriveTypeOK, database, service, msal, ghosts
<1>1. ASSUME NEW a \in Attempt, Start(a) \/ CodeArrives(a) \/ TokenArrives(a) \/ GetDrive(a)
                               \/ RootFolder(a)
      PROVE  Seen'
  BY <1>1 DEF Start, CodeArrives, TokenArrives, CacheAccount, GetDrive, RootFolder, AttemptEnds, Finally
<1>2. ASSUME NEW a \in Attempt, GrantIsLost(a) \/ AuthorizationFails(a) \/ CompletionFails(a)
                               \/ SaveConnection(a)
      PROVE  Seen'
  BY <1>2 DEF GrantIsLost, AuthorizationFails, CompletionFails, SaveConnection, AttemptEnds, Finally
<1>3. CASE Status
  BY <1>3 DEF Status, StatusAuthorizing, StatusReads, StatusAccounts, StatusDrive, StatusSaves,
              Answers, IdleProbe
<1>4. CASE Disconnect \/ Disconnects
  BY <1>4 DEF Disconnect, Disconnects, DisconnectAccounts, DisconnectCache, DisconnectSetting,
              LetsGo
<1>5. CASE Restart \/ Move
  BY <1>5 DEF Restart, Move, Forgets, IdleProbe, Live
<1>6. CASE UNCHANGED driveVars
  BY <1>6 DEF driveVars
<1>. QED
  BY <1>1, <1>2, <1>3, <1>4, <1>5, <1>6 DEF DriveNext, Background

\* Start asks for the slot, and who leaves it has ended: only a disconnect resets
\* the slot of an attempt that goes on.
LEMMA SlotStep == DriveTypeOK /\ Slot /\ [DriveNext]_driveVars => Slot'
<1> SUFFICES ASSUME DriveTypeOK, Slot, [DriveNext]_driveVars
             PROVE  Slot'
  OBVIOUS
<1> USE DEF Slot, Live, DriveTypeOK, database, service, msal, ghosts
<1>1. ASSUME NEW a \in Attempt, Start(a)
      PROVE  Slot'
  BY <1>1, OneDriveAssumption DEF Start
<1>2. ASSUME NEW a \in Attempt, CodeArrives(a) \/ TokenArrives(a) \/ RootFolder(a)
      PROVE  Slot'
  BY <1>2 DEF CodeArrives, TokenArrives, RootFolder
<1>3. ASSUME NEW a \in Attempt, GetDrive(a)
      PROVE  Slot'
  BY <1>3 DEF GetDrive, AttemptEnds, Finally
<1>4. ASSUME NEW a \in Attempt, GrantIsLost(a) \/ AuthorizationFails(a) \/ CompletionFails(a)
                               \/ SaveConnection(a)
      PROVE  Slot'
  BY <1>4 DEF GrantIsLost, AuthorizationFails, CompletionFails, SaveConnection, AttemptEnds, Finally
<1>5. CASE Status
  BY <1>5 DEF Status, StatusAuthorizing, StatusReads, StatusAccounts, StatusDrive, StatusSaves
<1>6. CASE Disconnect \/ DisconnectAccounts \/ DisconnectCache
  BY <1>6 DEF Disconnect, DisconnectAccounts, DisconnectCache
<1>7. CASE DisconnectSetting
  BY <1>7 DEF DisconnectSetting, LetsGo
<1>8. CASE Restart \/ Move
  BY <1>8 DEF Restart, Move, Forgets
<1>9. CASE UNCHANGED driveVars
  BY <1>9 DEF driveVars
<1>. QED
  BY <1>1, <1>2, <1>3, <1>4, <1>5, <1>6, <1>7, <1>8, <1>9 DEF DriveNext, Background, Disconnects

\* While a disconnect goes on without an attempt nobody adds an account, and
\* after it nobody writes metadata, unless somebody starts again.
LEMMA LeavingStep == DriveTypeOK /\ Seen /\ Leaving /\ [DriveNext]_driveVars => Leaving'
<1> SUFFICES ASSUME DriveTypeOK, Seen, Leaving, [DriveNext]_driveVars
             PROVE  Leaving'
  OBVIOUS
<1> USE DEF Leaving, Live, DriveTypeOK, database, service, msal, ghosts
<1>1. ASSUME NEW a \in Attempt, Start(a)
      PROVE  Leaving'
  BY <1>1 DEF Start
<1>2. ASSUME NEW a \in Attempt, Background(a)
      PROVE  Leaving'
  <2>1. Live(a) /\ left = "no"
    BY <1>2 DEF Background, CodeArrives, TokenArrives, GrantIsLost, AuthorizationFails, GetDrive,
                RootFolder, CompletionFails, SaveConnection
  <2>2. left' = "no"
    BY <1>2, <2>1 DEF Background, CodeArrives, TokenArrives, GrantIsLost, AuthorizationFails,
                      GetDrive, RootFolder, CompletionFails, SaveConnection
  <2>. QED
    BY <2>2
<1>3. CASE Status
  BY <1>3 DEF Status, StatusAuthorizing, StatusReads, StatusAccounts, StatusDrive, StatusSaves,
              Answers, IdleProbe, Seen
<1>4. CASE Disconnect
  BY <1>4 DEF Disconnect
<1>5. CASE DisconnectAccounts
  BY <1>5 DEF DisconnectAccounts, RemoveAccounts, HasAccount
<1>6. CASE DisconnectCache
  BY <1>6 DEF DisconnectCache
<1>7. CASE DisconnectSetting
  BY <1>7 DEF DisconnectSetting, LetsGo
<1>8. CASE Restart \/ Move
  BY <1>8 DEF Restart, Move, Forgets, IdleProbe
<1>9. CASE UNCHANGED driveVars
  BY <1>9 DEF driveVars
<1>. QED
  BY <1>1, <1>2, <1>3, <1>4, <1>5, <1>6, <1>7, <1>8, <1>9 DEF DriveNext, Disconnects

\* The invariant of the connection.
THEOREM ConnectionInvariant == DriveSpec => []ConnectionInv
<1>1. ConnectionInv /\ [DriveNext]_driveVars => ConnectionInv'
  BY TypeStep, SeenStep, SlotStep, LeavingStep DEF ConnectionInv
<1>. QED
  BY <1>1, ConnectionInit, PTL DEF DriveSpec

\* However attempts, polls, disconnects and restarts interleave, metadata is saved
\* only after somebody saw a personal drive, and one authorisation is in flight
\* unless a disconnect has let go of another (OneDriveService).
THEOREM ConnectionStaysSound == DriveSpec => []ConnectionSound
<1>1. ASSUME ConnectionInv
      PROVE  ConnectionSound
  <2>1. SingleFlow
    <3> SUFFICES ASSUME ~ adrift
                 PROVE  Cardinality({a \in Attempt : Live(a)}) <= 1
      BY DEF SingleFlow
    <3>1. \A a, b \in Attempt : Live(a) /\ Live(b) => a = b
      BY <1>1 DEF ConnectionInv, Slot
    <3>2. CASE {a \in Attempt : Live(a)} = {}
      BY <3>2, FS_EmptySet
    <3>3. CASE {a \in Attempt : Live(a)} # {}
      <4>1. PICK a \in Attempt : {b \in Attempt : Live(b)} = {a}
        BY <3>1, <3>3
      <4>. QED
        BY <4>1, FS_Singleton
    <3>. QED
      BY <3>2, <3>3
  <2>. QED
    BY <1>1, <2>1 DEF ConnectionInv, ConnectionSound, Seen
<1>. QED
  BY <1>1, ConnectionInvariant, PTL

\* After a disconnect that met no attempt and no poll there is no metadata and no
\* account until somebody connects again (disconnect).
THEOREM DisconnectLasts == DriveSpec => []DisconnectHolds
<1>1. ASSUME ConnectionInv
      PROVE  DisconnectHolds
  BY <1>1 DEF ConnectionInv, Leaving, DisconnectHolds, HasAccount
<1>. QED
  BY <1>1, ConnectionInvariant, PTL

(***************************************************************************)
(* Files.                                                                  *)
(*                                                                         *)
(* A file belongs to one request, which goes through its files one after   *)
(* another.  So a file is, at every time, still waiting, in the hands of   *)
(* its request, or settled; only a deletion reaches for it then.  The rows *)
(* and local objects follow from this; that the items at OneDrive are the  *)
(* right ones rests on their names, which only requests that overlap can   *)
(* share; that there is one primary image, and not too many of them, on    *)
(* requests that do not overlap.                                           *)
(***************************************************************************)

RequestPc ==
    {"new", "store", "stored", "staged", "undo", "upload", "put", "switch", "unstage",
     "retract", "mark", "link", "create", "unlink", "undone", "audit", "record"} \cup
    {"answered", "failed"}

\* The requests are well-formed: each is at one of its files.
RequestsOK ==
    /\ req \in [Request -> [pc : RequestPc, at : Nat, plain : BOOLEAN,
                            item : Asset \cup {NoFile}, count : Nat, max : Nat \cup {-1}]]
    /\ \A r \in Request : req[r].at \in DOMAIN FilesOf[r] /\ (req[r].pc = "new" => req[r].at = 1)
    /\ \A r \in Upload : req[r].pc # "audit"
    /\ \A r \in Internal :
          req[r].at = 1 /\ req[r].pc \notin {"link", "create", "unlink", "undone", "record"}

\* The deletions are well-formed.
DeletionsOK ==
    /\ del \in [Deletion -> [pc : {"new", "content", "rows", "record", "answered", "failed"},
                             target : Asset \cup {NoFile}, primary : BOOLEAN]]
    /\ \A d \in Deletion : del[d].pc = "new" <=> del[d].target = NoFile

Types == FilesTypeOK /\ RequestsOK /\ DeletionsOK

\* A file whose turn has not come.
Waiting(r, i) == req[r].at < i \/ (req[r].at = i /\ req[r].pc \in {"new", "store"})

\* A file that its request has finished with.
Past(r, i) ==
    i < req[r].at \/ (i = req[r].at /\ req[r].pc \in {"record", "answered", "failed"})

Settled(f) ==
    \A r \in Request : \A i \in DOMAIN FilesOf[r] : f = FilesOf[r][i] => Past(r, i)

UploadFile(f) == \E r \in Upload : \E i \in DOMAIN FilesOf[r] : f = FilesOf[r][i]

\* The row of a file that is staged.
StagedRow == [status |-> "UPLOADING", provider |-> "MOCK_LOCAL", item |-> NoFile]

RowsOK ==
    \A f \in Asset :
        /\ asset[f].provider = "MOCK_LOCAL" <=> asset[f].item = NoFile
        /\ asset[f].status = "ABSENT" => asset[f] = NoAsset

FilesWait ==
    \A r \in Request : \A i \in DOMAIN FilesOf[r] : Waiting(r, i) =>
        LET f == FilesOf[r][i] IN asset[f] = NoAsset /\ image[f] = NoFile /\ f \notin mock

\* The row and the copy of the file that a request is storing.
RequestRow(r) ==
    LET f == File(r)
    IN /\ req[r].pc = "switch" => req[r].item # NoFile
       /\ req[r].pc \in {"stored", "staged"} => asset[f] = NoAsset /\ f \in mock
       /\ req[r].pc \in {"upload", "put", "switch"} => asset[f] = StagedRow /\ f \in mock
       /\ req[r].pc \in {"retract", "mark"} /\ r \in Upload => asset[f] = StagedRow /\ f \in mock
       /\ req[r].pc = "undo" /\ r \in Upload => asset[f] = NoAsset
       /\ req[r].pc \in {"unstage", "link", "create", "unlink", "undone"} => asset[f].status = "SYNCED"
       /\ req[r].pc = "unstage" => asset[f].provider = "ONEDRIVE"
       /\ req[r].pc \in {"link", "create"} /\ asset[f].provider = "MOCK_LOCAL" => f \in mock

ImagesSettled == \A f \in Images : Settled(f) /\ asset[f].status = "SYNCED" /\ UploadFile(f)

TargetsSettled ==
    \A d \in Deletion : del[d].target # NoFile =>
        /\ Settled(del[d].target)
        /\ UploadFile(del[d].target) => asset[del[d].target].status \in {"SYNCED", "DELETED"}

LocalKept ==
    \A f \in Images \ BeingDeleted : asset[f].provider = "MOCK_LOCAL" => f \in mock

\* What an upload has linked stays linked.
Linked ==
    \A r \in Upload : \A i \in DOMAIN FilesOf[r] :
        i < req[r].at \/ (i = req[r].at /\ req[r].pc \in {"record", "answered"}) =>
            FilesOf[r][i] \in Images \cup BeingDeleted

Complete ==
    \A r \in Upload : req[r].pc \in {"record", "answered"} => req[r].at = Len(FilesOf[r])

FilesInv ==
    /\ FilesTypeOK /\ RequestsOK /\ DeletionsOK /\ RowsOK /\ FilesWait
    /\ \A r \in Request : RequestRow(r)
    /\ ImagesSettled /\ TargetsSettled /\ LocalKept /\ Linked /\ Complete
    /\ StagedUntilSynced

\* One request about the images of the product is in progress.
OneAtATime ==
    /\ \A u, v \in Upload : req[u].pc \notin Ended /\ req[v].pc \notin Ended => u = v
    /\ \A u \in Upload, d \in Deletion :
          ~ (req[u].pc \notin Ended /\ del[d].pc \notin Ended /\ del[d].target \in Images)
    /\ \A d, e \in Deletion :
          /\ del[d].pc \notin Ended /\ del[d].target \in Images
          /\ del[e].pc \notin Ended /\ del[e].target \in Images
          => d = e

\* The files that an upload has still to link fit.
RoomLeft ==
    \A u \in Upload : req[u].pc \notin Ended \cup {"record"} =>
        Cardinality(Images) + Len(FilesOf[u]) - req[u].at + 1 <= MaxImages

Limited == RoomLeft /\ Cardinality(Images) <= MaxImages

\* What was read about the images is still so.
Counted ==
    /\ \A u \in Upload : req[u].pc = "create" => req[u].count = Cardinality(Images)
    /\ \A d \in Deletion : del[d].pc \in {"content", "rows"} /\ del[d].target \in Images =>
          del[d].primary = image[del[d].target].primary

OnePrimary ==
    Images # {} => \E f \in Images : \A g \in Images : image[g].primary <=> g = f

GalleryInv ==
    ~ raced => /\ OneAtATime /\ RoomLeft /\ Counted /\ OnePrimary
               /\ Cardinality(Images) <= MaxImages

\* An item is of a file with the name of the file that refers to it.
NamesAgree ==
    /\ \A g \in Asset : remote[g] # NoFile => NameOf[remote[g].file] = NameOf[g]
    /\ \A g \in Asset : asset[g].item # NoFile =>
          /\ NameOf[asset[g].item] = NameOf[g]
          /\ \E r \in Request : \E i \in DOMAIN FilesOf[r] : g = FilesOf[r][i]
    /\ \A r \in Request :
          req[r].item # NoFile /\ (r \in Internal \/ req[r].pc \in {"switch", "retract"}) =>
              NameOf[req[r].item] = NameOf[File(r)]

\* A file of an upload that shares its name with no upload it may have overlapped.
Single(f) ==
    \E r \in Upload : \E i \in DOMAIN FilesOf[r] :
        /\ f = FilesOf[r][i]
        /\ raced => \A q \in Upload \ {r} : \A j \in DOMAIN FilesOf[q] : NameOf[f] # NameOf[FilesOf[q][j]]

\* Its request finds the name still free, and its item where it has put it.
SingleReq(r) ==
    LET f == File(r)
    IN Single(f) =>
       /\ req[r].pc = "put" /\ req[r].plain => Namesakes(f) = {}
       /\ req[r].pc \in {"switch", "retract"} => req[r].item = f
       /\ req[r].pc = "switch" => remote[f] # NoFile
       /\ req[r].pc \in {"unstage", "link", "create"} /\ asset[f].provider = "ONEDRIVE" => remote[f] # NoFile

SingleInv ==
    /\ \A f \in Asset : Single(f) =>
         /\ asset[f].item \in {NoFile, f}
         /\ remote[f] # NoFile => remote[f].file = f
    /\ \A r \in Upload : SingleReq(r)
    /\ \A f \in Images \ BeingDeleted : Single(f) /\ asset[f].provider = "ONEDRIVE" => remote[f] # NoFile

RemoteInv == NamesAgree /\ SingleInv

\* A file whose item nobody has created.
NotPut(r, i) ==
    \/ req[r].at < i
    \/ req[r].at = i /\ req[r].pc \in {"new", "store", "stored", "staged", "upload", "put"}

\* Nothing is there of it, and nobody refers to it.
ItemsOld ==
    \A r \in Request : \A i \in DOMAIN FilesOf[r] : NotPut(r, i) =>
        LET f == FilesOf[r][i]
        IN /\ remote[f] = NoFile
           /\ \A g \in Asset : asset[g].item # f
           /\ \A q \in Request : req[q].item # f

\* A row refers to the item, or the request that has just put it does.
Accounted(f) ==
    \/ \E g \in Asset : asset[g].item = f /\ asset[g].status # "DELETED"
    \/ \E q \in Request : req[q].pc \in {"switch", "retract"} /\ req[q].item = f /\ File(q) = f

RemoteAccounted == \A f \in Asset : remote[f] # NoFile => Accounted(f)

\* The copy of a file is in use by its request.
InUse(r, i) == i = req[r].at /\ req[r].pc \in {"stored", "staged", "undo", "unstage"}

LocalAccounted ==
    \A r \in Request : \A i \in DOMAIN FilesOf[r] :
        LET f == FilesOf[r][i]
        IN f \in mock /\ ~ InUse(r, i) =>
              asset[f].provider = "MOCK_LOCAL" /\ asset[f].status \notin {"ABSENT", "DELETED"}

\* A row is marked deleted after its object is.
Undone ==
    /\ \A r \in Request : req[r].pc = "undone" =>
          /\ File(r) \notin mock
          /\ asset[File(r)].item # NoFile => remote[asset[File(r)].item] = NoFile
    /\ \A d \in Deletion : del[d].pc = "rows" =>
          /\ del[d].target \notin mock
          /\ asset[del[d].target].item # NoFile => remote[asset[del[d].target].item] = NoFile

OrphanInv == ItemsOld /\ (~ leaked => RemoteAccounted /\ LocalAccounted /\ Undone)

\* What holds of the storage of files.
FilesBooks == FilesInv /\ GalleryInv /\ RemoteInv /\ OrphanInv

\* A request is at one of its files.
LEMMA FileOfRequest ==
    ASSUME RequestsOK, NEW r \in Request
    PROVE  File(r) \in Asset /\ req[r].at \in DOMAIN FilesOf[r]
BY FileStorageAssumption DEF RequestsOK, File

\* Two requests, or two places of one, do not share a file.
LEMMA OwnFile ==
    ASSUME RequestsOK, NEW r \in Request, NEW q \in Request, NEW i \in DOMAIN FilesOf[q],
           File(r) = FilesOf[q][i]
    PROVE  q = r /\ i = req[r].at
BY FileOfRequest, FileStorageAssumption DEF File

\* The largest sort order of some images, or -1.
LEMMA LargestSort ==
    ASSUME FilesTypeOK
    PROVE  Max({-1} \cup {image[f].sort : f \in Images}) \in Nat \cup {-1}
<1> DEFINE sorts(T) == {-1} \cup {image[f].sort : f \in T}
           Good == {T \in SUBSET Images : \E m \in sorts(T) : \A n \in sorts(T) : m >= n}
<1>1. \A f \in Images : image[f].sort \in Nat
  BY DEF FilesTypeOK, Images
<1>2. \A T \in SUBSET Images : sorts(T) \subseteq Nat \cup {-1}
  BY <1>1
<1>3. IsFiniteSet(Images)
  BY FileStorageAssumption, FS_Subset DEF Images
<1>4. {} \in Good
  OBVIOUS
<1>5. ASSUME NEW T \in SUBSET Images, NEW f \in Images \ T, T \in Good
      PROVE  T \cup {f} \in Good
  <2>1. PICK m \in sorts(T) : \A n \in sorts(T) : m >= n
    BY <1>5
  <2>2. sorts(T \cup {f}) = sorts(T) \cup {image[f].sort}
    OBVIOUS
  <2>3. /\ sorts(T) \subseteq Int /\ image[f].sort \in Int
    BY <1>1, <1>2, <1>5
  <2> HIDE DEF sorts
  <2>4. CASE m >= image[f].sort
    <3>1. m \in sorts(T \cup {f}) /\ \A n \in sorts(T \cup {f}) : m >= n
      BY <2>1, <2>2, <2>4
    <3>. QED
      BY <3>1, <1>5
  <2>5. CASE ~ (m >= image[f].sort)
    <3>1. /\ image[f].sort \in sorts(T \cup {f})
          /\ \A n \in sorts(T \cup {f}) : image[f].sort >= n
      BY <2>1, <2>2, <2>3, <2>5
    <3>. QED
      BY <3>1, <1>5
  <2>. QED
    BY <2>4, <2>5
<1>6. Images \in Good
  <2> HIDE DEF Good
  <2>. QED
    BY <1>3, <1>4, <1>5, SubsetInduction
<1>7. Max(sorts(Images)) \in sorts(Images)
  BY <1>6 DEF Max
<1>. QED
  BY <1>2, <1>7

\* Of some images one comes first.
LEMMA FirstImage ==
    ASSUME FilesTypeOK, NEW T \in SUBSET Images, T # {}
    PROVE  \E g \in T : \A h \in T : image[g].sort <= image[h].sort
<1> DEFINE Good == {U \in SUBSET T : U # {} =>
                        \E g \in U : \A h \in U : image[g].sort <= image[h].sort}
<1>1. \A f \in T : image[f].sort \in Nat
  BY DEF FilesTypeOK, Images
<1>2. IsFiniteSet(T)
  BY FileStorageAssumption, FS_Subset DEF Images
<1>3. {} \in Good
  OBVIOUS
<1>4. ASSUME NEW U \in SUBSET T, NEW f \in T \ U, U \in Good
      PROVE  U \cup {f} \in Good
  <2>1. CASE U = {}
    BY <2>1, <1>1
  <2>2. CASE U # {}
    <3>1. PICK g \in U : \A h \in U : image[g].sort <= image[h].sort
      BY <2>2, <1>4
    <3>2. image[g].sort \in Nat /\ image[f].sort \in Nat
      BY <1>1, <1>4
    <3>3. CASE image[g].sort <= image[f].sort
      <4>1. \A h \in U \cup {f} : image[g].sort <= image[h].sort
        BY <3>1, <3>3
      <4>. QED
        BY <4>1
    <3>4. CASE ~ (image[g].sort <= image[f].sort)
      <4>1. \A h \in U \cup {f} : image[f].sort <= image[h].sort
        BY <1>1, <3>1, <3>2, <3>4
      <4>. QED
        BY <4>1
    <3>. QED
      BY <3>3, <3>4
  <2>. QED
    BY <2>1, <2>2
<1>5. T \in Good
  <2> HIDE DEF Good
  <2>. QED
    BY <1>2, <1>3, <1>4, SubsetInduction
<1>. QED
  BY <1>5

(***************************************************************************)
(* Types.                                                                  *)
(***************************************************************************)

\* A request that goes on keeps its form.
LEMMA GoesTypes ==
    ASSUME RequestsOK, NEW r \in Request, NEW pc \in RequestPc \ {"new"}, ReqGoes(r, pc),
           r \in Upload => pc # "audit",
           r \in Internal => pc \notin {"link", "create", "unlink", "undone", "record"}
    PROVE  RequestsOK'
<1>1. /\ req'[r] = [req[r] EXCEPT !.pc = pc]
      /\ \A q \in Request : q # r => req'[q] = req[q]
      /\ req' \in [Request -> [pc : RequestPc, at : Nat, plain : BOOLEAN,
                               item : Asset \cup {NoFile}, count : Nat, max : Nat \cup {-1}]]
  BY DEF RequestsOK, ReqGoes
<1>2. /\ req'[r].pc = pc /\ req'[r].at = req[r].at
  BY <1>1 DEF RequestsOK
<1>. QED
  BY <1>1, <1>2 DEF RequestsOK, Request

\* An upload replaces a namesake, or writes its own item.
LEMMA TargetIsFile ==
    ASSUME Types, NEW r \in Request
    PROVE  Target(r) \in Asset /\ (Target(r) # File(r) => Target(r) \in Namesakes(File(r)))
<1>1. File(r) \in Asset
  BY FileOfRequest DEF Types
<1>2. Namesakes(File(r)) \subseteq Asset
  BY DEF Namesakes
<1>. QED
  BY <1>1, <1>2 DEF Target

\* Requests stay well-formed.
LEMMA RequestsStep == Types /\ [FilesNext]_filesVars => RequestsOK'
<1> SUFFICES ASSUME Types, [FilesNext]_filesVars
             PROVE  RequestsOK'
  OBVIOUS
<1>0. RequestsOK /\ Upload \cap Internal = {} /\ Request = Upload \cup Internal
  BY FileStorageAssumption DEF Types, Request
<1>1. ASSUME NEW r \in Upload, BeginUpload(r)
      PROVE  RequestsOK'
  BY <1>0, <1>1, GoesTypes DEF BeginUpload, RequestPc
<1>2. ASSUME NEW r \in Internal, StoreInternal(r)
      PROVE  RequestsOK'
  BY <1>0, <1>2, GoesTypes DEF StoreInternal, RequestPc
<1>3. ASSUME NEW r \in Request, Stage(r) \/ CreateAsset(r) \/ UndoStage(r)
      PROVE  RequestsOK'
  BY <1>0, <1>3, GoesTypes DEF Stage, CreateAsset, UndoStage, RequestPc
<1>4. ASSUME NEW r \in Request, ChooseName(r)
      PROVE  RequestsOK'
  <2>1. CASE req' = [req EXCEPT ![r].pc = "put", ![r].plain = Namesakes(File(r)) = {}]
    BY <1>0, <2>1 DEF RequestsOK, RequestPc
  <2>2. CASE ReqGoes(r, "mark")
    BY <1>0, <2>2, GoesTypes DEF RequestPc
  <2>. QED
    BY <1>4, <2>1, <2>2 DEF ChooseName
<1>5. ASSUME NEW r \in Request, UploadRemote(r)
      PROVE  RequestsOK'
  <2>1. CASE req' = [req EXCEPT ![r].pc = "switch", ![r].item = Target(r)]
    <3>1. Target(r) \in Asset
      BY TargetIsFile
    <3>. QED
      BY <1>0, <2>1, <3>1 DEF RequestsOK, RequestPc
  <2>2. CASE ReqGoes(r, "mark")
    BY <1>0, <2>2, GoesTypes DEF RequestPc
  <2>. QED
    BY <1>5, <2>1, <2>2 DEF UploadRemote
<1>6. ASSUME NEW r \in Request, Switch(r) \/ Unstage(r) \/ AuditStored(r) \/ Retract(r) \/ MarkFailed(r)
      PROVE  RequestsOK'
  BY <1>0, <1>6, GoesTypes DEF Switch, Unstage, AuditStored, Retract, MarkFailed, RequestPc
<1>7. ASSUME NEW r \in Upload, Aggregate(r)
      PROVE  RequestsOK'
  <2>1. Cardinality(Images) \in Nat
    BY FileStorageAssumption, FS_Subset, FS_CardinalityType DEF Images
  <2>2. Max({-1} \cup {image[f].sort : f \in Images}) \in Nat \cup {-1}
    BY LargestSort DEF Types
  <2>3. PICK c \in Nat, m \in Nat \cup {-1} :
           req' = [req EXCEPT ![r].pc = "create", ![r].count = c, ![r].max = m]
    BY <1>7, <2>1, <2>2 DEF Aggregate
  <2>4. req[r] \in [pc : RequestPc, at : Nat, plain : BOOLEAN,
                    item : Asset \cup {NoFile}, count : Nat, max : Nat \cup {-1}]
    BY <1>0 DEF RequestsOK
  <2> DEFINE Entry == [pc : RequestPc, at : Nat, plain : BOOLEAN,
                       item : Asset \cup {NoFile}, count : Nat, max : Nat \cup {-1}]
  <2>5. PICK s : s = [req[r] EXCEPT !.pc = "create"]
    OBVIOUS
  <2>6. PICK t : t = [s EXCEPT !.count = c]
    OBVIOUS
  <2>7. PICK u : u = [t EXCEPT !.max = m]
    OBVIOUS
  <2>8. req' = [req EXCEPT ![r] = u]
    BY <1>0, <2>3, <2>5, <2>6, <2>7 DEF RequestsOK
  <2>9. s \in Entry /\ s.at = req[r].at /\ s.pc = "create"
    BY <2>4, <2>5 DEF RequestPc
  <2>10. t \in Entry /\ t.at = req[r].at /\ t.pc = "create"
    BY <2>3, <2>6, <2>9
  <2>11. u \in Entry /\ u.at = req[r].at /\ u.pc = "create"
    BY <2>3, <2>7, <2>10
  <2>. QED
    BY <1>0, <2>8, <2>11 DEF RequestsOK
<1>8. ASSUME NEW r \in Upload, CreateImage(r)
      PROVE  RequestsOK'
  <2>1. CASE req' = [req EXCEPT ![r].pc = "store", ![r].at = @ + 1] /\ req[r].at < Len(FilesOf[r])
    <3>1. FilesOf[r] \in Seq(Asset) /\ req[r].at \in DOMAIN FilesOf[r] /\ r \in Request
      BY <1>0, FileStorageAssumption DEF RequestsOK
    <3>2. req[r].at + 1 \in DOMAIN FilesOf[r] /\ req[r].at + 1 \in Nat
      BY <2>1, <3>1
    <3>. QED
      BY <1>0, <2>1, <3>2 DEF RequestsOK, RequestPc
  <2>2. CASE ReqGoes(r, "record") \/ ReqGoes(r, "unlink")
    BY <1>0, <2>2, GoesTypes DEF RequestPc
  <2>. QED
    BY <1>8, <2>1, <2>2 DEF CreateImage, NextFile
<1>9. ASSUME NEW r \in Upload, DeleteStored(r) \/ MarkDeleted(r) \/ RecordUpload(r)
      PROVE  RequestsOK'
  BY <1>0, <1>9, GoesTypes DEF DeleteStored, MarkDeleted, RecordUpload, RequestPc
<1>10. CASE ServerStops
  BY <1>0, <1>10 DEF ServerStops, RequestsOK, RequestPc
<1>11. CASE \/ \E d \in Deletion : Delete(d)
            \/ ConnectionChanges \/ DeactivateProduct \/ UNCHANGED filesVars
  <2>1. req' = req
    BY <1>11 DEF Delete, ReadTarget, DeleteContent, DeleteRows, RecordDeletion, ConnectionChanges,
                 DeactivateProduct, filesVars
  <2>. QED
    BY <1>0, <2>1 DEF RequestsOK
<1>. QED
  BY <1>1, <1>2, <1>3, <1>4, <1>5, <1>6, <1>7, <1>8, <1>9, <1>10, <1>11
  DEF FilesNext, StoreFile, LinkImage

\* Deletions stay well-formed.
LEMMA DeletionsStep == Types /\ [FilesNext]_filesVars => DeletionsOK'
<1> SUFFICES ASSUME Types, [FilesNext]_filesVars
             PROVE  DeletionsOK'
  OBVIOUS
<1>0. DeletionsOK /\ NoFile \notin Asset
  BY FileStorageAssumption DEF Types
<1>1. ASSUME NEW d \in Deletion, ReadTarget(d)
      PROVE  DeletionsOK'
  <2>1. \A r \in Internal : FilesOf[r][1] \in Asset
    BY FileStorageAssumption DEF Request
  <2>2. Deletable \subseteq Asset
    BY <2>1 DEF Deletable, Images
  <2>3. PICK f \in Asset, primary \in BOOLEAN :
           del' = [del EXCEPT ![d] = [pc |-> "content", target |-> f, primary |-> primary]]
    <3>1. PICK f \in Deletable :
             del' = [del EXCEPT ![d] = [pc |-> "content", target |-> f,
                                        primary |-> f \in Images /\ image[f].primary]]
      BY <1>1 DEF ReadTarget
    <3>2. (f \in Images /\ image[f].primary) \in BOOLEAN
      BY DEF Types, FilesTypeOK, Images
    <3>. QED
      BY <2>2, <3>1, <3>2
  <2>. QED
    BY <1>0, <2>3 DEF DeletionsOK
<1>2. ASSUME NEW d \in Deletion, DeleteContent(d) \/ DeleteRows(d) \/ RecordDeletion(d)
      PROVE  DeletionsOK'
  <2>1. PICK pc \in {"rows", "record", "answered", "failed"} : DelGoes(d, pc)
    BY <1>2 DEF DeleteContent, DeleteRows, RecordDeletion
  <2>2. del[d].pc # "new"
    BY <1>2 DEF DeleteContent, DeleteRows, RecordDeletion
  <2>. QED
    BY <1>0, <2>1, <2>2 DEF DeletionsOK, DelGoes
<1>3. CASE ServerStops
  BY <1>0, <1>3 DEF ServerStops, DeletionsOK, Ended
<1>4. CASE ~ ServerStops /\ ~ \E d \in Deletion : Delete(d)
  <2>1. del' = del
    BY <1>4 DEF FilesNext, BeginUpload, StoreInternal, StoreFile, LinkImage, Stage, CreateAsset,
       UndoStage, ChooseName, UploadRemote, Switch, Unstage, AuditStored, Retract, MarkFailed,
       Aggregate, CreateImage, DeleteStored, MarkDeleted, RecordUpload, ConnectionChanges,
       DeactivateProduct, filesVars
  <2>. QED
    BY <1>0, <2>1 DEF DeletionsOK
<1>. QED
  BY <1>1, <1>2, <1>3, <1>4 DEF FilesNext, Delete

\* The quiet deletions of objects keep the types.
LEMMA QuietTypes ==
    ASSUME FilesTypeOK, NEW f,
           DeleteLocalQuietly(f) \/ DeleteRemoteQuietly(f)
    PROVE  /\ DeleteLocalQuietly(f) => mock' \subseteq Asset
           /\ DeleteRemoteQuietly(f) =>
                 remote' \in [Asset -> {NoFile} \cup [file : Asset, plain : BOOLEAN]]
           /\ faults' \in 0..MaxFaults /\ leaked' \in BOOLEAN
<1>1. faults' \in 0..MaxFaults
  BY FileStorageAssumption DEF FilesTypeOK, DeleteLocalQuietly, DeleteRemoteQuietly, Fault
<1>2. leaked' \in BOOLEAN
  BY DEF FilesTypeOK, DeleteLocalQuietly, DeleteRemoteQuietly
<1>3. DeleteLocalQuietly(f) => mock' \subseteq Asset
  BY DEF FilesTypeOK, DeleteLocalQuietly
<1>4. DeleteRemoteQuietly(f) =>
         remote' \in [Asset -> {NoFile} \cup [file : Asset, plain : BOOLEAN]]
  BY DEF FilesTypeOK, DeleteRemoteQuietly
<1>. QED
  BY <1>1, <1>2, <1>3, <1>4

\* The type invariant is kept.
LEMMA FilesTypeStep == Types /\ [FilesNext]_filesVars => FilesTypeOK'
<1> SUFFICES ASSUME Types, [FilesNext]_filesVars
             PROVE  FilesTypeOK'
  OBVIOUS
<1>0. FilesTypeOK /\ MaxFaults \in Nat /\ Request = Upload \cup Internal
  BY FileStorageAssumption DEF Types, Request
<1>f. ASSUME NEW r \in Request
      PROVE  File(r) \in Asset /\ Target(r) \in Asset /\ req[r].item \in Asset \cup {NoFile}
             /\ req[r].plain \in BOOLEAN /\ req[r].max + 1 \in Nat
  BY FileOfRequest, TargetIsFile DEF Types, RequestsOK
<1> USE DEF environment, rows, objects, fileGhosts
<1>1. ASSUME NEW r \in Upload, BeginUpload(r)
      PROVE  FilesTypeOK'
  BY <1>0, <1>1 DEF BeginUpload, FilesTypeOK, Overlaps
<1>2. ASSUME NEW r \in Internal, StoreInternal(r)
      PROVE  FilesTypeOK'
  BY <1>0, <1>2 DEF StoreInternal, FilesTypeOK
<1>3. ASSUME NEW r \in Request, Stage(r)
      PROVE  FilesTypeOK'
  BY <1>0, <1>f, <1>3 DEF Stage, FilesTypeOK, Fault
<1>4. ASSUME NEW r \in Request, CreateAsset(r)
      PROVE  FilesTypeOK'
  BY <1>0, <1>f, <1>4 DEF CreateAsset, SetAsset, FilesTypeOK, Fault
<1>5. ASSUME NEW r \in Request, UndoStage(r) \/ Unstage(r)
      PROVE  FilesTypeOK'
  <2>1. DeleteLocalQuietly(File(r))
    BY <1>5 DEF UndoStage, Unstage
  <2>. QED
    BY <1>0, <1>5, <2>1, QuietTypes DEF UndoStage, Unstage, FilesTypeOK
<1>6. ASSUME NEW r \in Request, Retract(r)
      PROVE  FilesTypeOK'
  <2>1. DeleteRemoteQuietly(req[r].item)
    BY <1>6 DEF Retract
  <2>. QED
    BY <1>0, <1>6, <2>1, QuietTypes DEF Retract, FilesTypeOK
<1>7. ASSUME NEW r \in Request, ChooseName(r) \/ AuditStored(r)
      PROVE  FilesTypeOK'
  BY <1>0, <1>7 DEF ChooseName, AuditStored, FilesTypeOK, Fault
<1>8. ASSUME NEW r \in Request, UploadRemote(r)
      PROVE  FilesTypeOK'
  <2>1. Put(r) => remote' \in [Asset -> {NoFile} \cup [file : Asset, plain : BOOLEAN]]
    <3>1. [file |-> File(r), plain |-> req[r].plain] \in [file : Asset, plain : BOOLEAN]
      BY <1>f
    <3>. QED
      BY <1>0, <3>1 DEF Put, FilesTypeOK
  <2>2. remote' \in [Asset -> {NoFile} \cup [file : Asset, plain : BOOLEAN]]
    BY <1>0, <1>8, <2>1 DEF UploadRemote, FilesTypeOK
  <2>3. faults' \in 0..MaxFaults
    BY <1>0, <1>8 DEF UploadRemote, FilesTypeOK, Fault
  <2>4. UNCHANGED <<environment, rows, mock, raced>> /\ leaked' \in BOOLEAN
    BY <1>0, <1>8 DEF UploadRemote, FilesTypeOK
  <2>. QED
    BY <1>0, <2>2, <2>3, <2>4 DEF FilesTypeOK
<1>9. ASSUME NEW r \in Request, Switch(r)
      PROVE  FilesTypeOK'
  BY <1>0, <1>f, <1>9 DEF Switch, SetAsset, FilesTypeOK, Fault
<1>10. ASSUME NEW r \in Request, MarkFailed(r) \/ MarkDeleted(r)
       PROVE  FilesTypeOK'
  BY <1>0, <1>f, <1>10 DEF MarkFailed, MarkDeleted, SetStatus, FilesTypeOK, Fault
<1>11. ASSUME NEW r \in Upload, Aggregate(r) \/ RecordUpload(r)
       PROVE  FilesTypeOK'
  BY <1>0, <1>11 DEF Aggregate, RecordUpload, FilesTypeOK, Fault
<1>12. ASSUME NEW r \in Upload, CreateImage(r)
       PROVE  FilesTypeOK'
  <2>1. [sort |-> req[r].max + 1, primary |-> req[r].count = 0] \in [sort : Nat, primary : BOOLEAN]
    BY <1>0, <1>f
  <2>2. image' \in [Asset -> {NoFile} \cup [sort : Nat, primary : BOOLEAN]]
    BY <1>0, <1>12, <2>1 DEF CreateImage, FilesTypeOK
  <2>3. faults' \in 0..MaxFaults
    BY <1>0, <1>12 DEF CreateImage, FilesTypeOK, Fault
  <2>. QED
    BY <1>0, <1>12, <2>2, <2>3 DEF CreateImage, FilesTypeOK
<1>13. ASSUME NEW r \in Upload, DeleteStored(r)
       PROVE  FilesTypeOK'
  <2>1. CASE DeleteLocalQuietly(File(r)) /\ UNCHANGED remote
    BY <1>0, <1>13, <2>1, QuietTypes DEF DeleteStored, FilesTypeOK
  <2>2. CASE DeleteRemoteQuietly(asset[File(r)].item) /\ UNCHANGED mock
    BY <1>0, <1>13, <2>2, QuietTypes DEF DeleteStored, FilesTypeOK
  <2>. QED
    BY <1>13, <2>1, <2>2 DEF DeleteStored
<1>14. ASSUME NEW d \in Deletion, ReadTarget(d) \/ DeleteContent(d) \/ RecordDeletion(d)
       PROVE  FilesTypeOK'
  <2>1. UNCHANGED <<environment, rows, leaked>>
    BY <1>14 DEF ReadTarget, DeleteContent, RecordDeletion
  <2>2. faults' \in 0..MaxFaults
    BY <1>0, <1>14 DEF ReadTarget, DeleteContent, RecordDeletion, FilesTypeOK, Fault
  <2>3. raced' \in BOOLEAN
    BY <1>0, <1>14 DEF ReadTarget, DeleteContent, RecordDeletion, FilesTypeOK, Overlaps
  <2>4. mock' \subseteq Asset
    BY <1>0, <1>14 DEF ReadTarget, DeleteContent, RecordDeletion, FilesTypeOK
  <2>5. remote' \in [Asset -> {NoFile} \cup [file : Asset, plain : BOOLEAN]]
    BY <1>0, <1>14 DEF ReadTarget, DeleteContent, RecordDeletion, FilesTypeOK
  <2>. QED
    BY <1>0, <2>1, <2>2, <2>3, <2>4, <2>5 DEF FilesTypeOK
<1>15. ASSUME NEW d \in Deletion, DeleteRows(d)
       PROVE  FilesTypeOK'
  <2>1. image' \in [Asset -> {NoFile} \cup [sort : Nat, primary : BOOLEAN]]
    <3>1. CASE image' = Promoted(del[d].target, del[d].primary)
      <4> DEFINE others == Images \ {del[d].target}
                 first == CHOOSE g \in others : \A h \in others : image[g].sort <= image[h].sort
      <4>1. CASE others # {}
        <5>1. first \in Images
          BY <1>0, <4>1, FirstImage
        <5>2. image[first] \in [sort : Nat, primary : BOOLEAN] /\ first \in Asset /\ first # del[d].target
          BY <1>0, <4>1, <5>1, FirstImage DEF FilesTypeOK, Images
        <5> HIDE DEF first
        <5>3. [[image EXCEPT ![del[d].target] = NoFile] EXCEPT ![first].primary = TRUE]
                \in [Asset -> {NoFile} \cup [sort : Nat, primary : BOOLEAN]]
          BY <1>0, <5>2 DEF FilesTypeOK
        <5>4. [image EXCEPT ![del[d].target] = NoFile]
                \in [Asset -> {NoFile} \cup [sort : Nat, primary : BOOLEAN]]
          BY <1>0 DEF FilesTypeOK
        <5>. QED
          BY <3>1, <5>3, <5>4 DEF Promoted, first
      <4>2. CASE others = {}
        BY <1>0, <3>1, <4>2 DEF Promoted, FilesTypeOK
      <4>. QED
        BY <4>1, <4>2
    <3>2. CASE UNCHANGED image
      BY <1>0, <3>2 DEF FilesTypeOK
    <3>. QED
      BY <1>15, <3>1, <3>2 DEF DeleteRows
  <2>2. asset' \in [Asset -> [status : {"ABSENT", "UPLOADING", "SYNCED", "FAILED", "DELETED"},
                            provider : {"MOCK_LOCAL", "ONEDRIVE"},
                            item : Asset \cup {NoFile}]]
    BY <1>0, <1>15 DEF DeleteRows, SetStatus, FilesTypeOK
  <2>3. faults' \in 0..MaxFaults
    BY <1>0, <1>15 DEF DeleteRows, FilesTypeOK, Fault
  <2>. QED
    BY <1>0, <1>15, <2>1, <2>2, <2>3 DEF DeleteRows, FilesTypeOK
<1>16. CASE ConnectionChanges \/ DeactivateProduct \/ ServerStops \/ UNCHANGED filesVars
  <2>1. UNCHANGED <<rows, objects, raced>>
    BY <1>16 DEF ConnectionChanges, DeactivateProduct, ServerStops, filesVars
  <2>2. faults' \in 0..MaxFaults
    BY <1>0, <1>16 DEF ConnectionChanges, DeactivateProduct, ServerStops, filesVars, FilesTypeOK, Fault
  <2>3. connected' \in BOOLEAN /\ active' \in BOOLEAN /\ leaked' \in BOOLEAN
    BY <1>0, <1>16 DEF ConnectionChanges, DeactivateProduct, ServerStops, filesVars, FilesTypeOK
  <2>. QED
    BY <1>0, <2>1, <2>2, <2>3 DEF FilesTypeOK
<1>. QED
  BY <1>0, <1>1, <1>2, <1>3, <1>4, <1>5, <1>6, <1>7, <1>8, <1>9, <1>10, <1>11, <1>12, <1>13, <1>14,
     <1>15, <1>16
  DEF FilesNext, StoreFile, LinkImage, Delete

\* The types hold at first.
LEMMA FilesTypesInit == FilesInit => Types
<1> SUFFICES ASSUME FilesInit PROVE Types
  OBVIOUS
<1>1. FilesTypeOK
  <2>1. NoAsset \in [status : {"ABSENT", "UPLOADING", "SYNCED", "FAILED", "DELETED"},
                     provider : {"MOCK_LOCAL", "ONEDRIVE"}, item : Asset \cup {NoFile}]
    BY DEF NoAsset
  <2>2. faults = 0 /\ 0 \in 0..MaxFaults
    BY FileStorageAssumption DEF FilesInit
  <2>. QED
    BY <2>1, <2>2 DEF FilesInit, FilesTypeOK
<1>2. RequestsOK
  BY FileStorageAssumption DEF FilesInit, RequestsOK, RequestPc, Request
<1>3. DeletionsOK
  BY DEF FilesInit, DeletionsOK
<1>. QED
  BY <1>1, <1>2, <1>3 DEF Types

(***************************************************************************)
(* Steps.                                                                  *)
(***************************************************************************)

\* A step of a request.
RequestActs(r) ==
    \/ r \in Upload /\ (BeginUpload(r) \/ LinkImage(r))
    \/ r \in Internal /\ StoreInternal(r)
    \/ StoreFile(r)

\* A step of nobody in particular.
Around == ConnectionChanges \/ DeactivateProduct \/ UNCHANGED filesVars

\* Every step is one of a request, of a deletion, or around them.
LEMMA FileKinds ==
    ASSUME [FilesNext]_filesVars
    PROVE  \/ \E r \in Request : RequestActs(r)
           \/ \E d \in Deletion : Delete(d)
           \/ Around \/ ServerStops
BY DEF FilesNext, RequestActs, Around, Request

\* A step of a request leaves everything that is not of its file alone.
LEMMA RequestFrame ==
    ASSUME Types, NEW r \in Request, RequestActs(r)
    PROVE  /\ \A q \in Request : q # r => req'[q] = req[q]
           /\ \A f \in Asset : f # File(r) =>
                 asset'[f] = asset[f] /\ image'[f] = image[f] /\ (f \in mock' <=> f \in mock)
           /\ del' = del
           /\ req[r].pc \notin {"answered", "failed"}
           /\ req[r].pc = "record" => UNCHANGED <<rows, objects>> /\ req'[r].pc \in {"answered", "failed"}
<1>0. req = [q \in Request |-> req[q]] /\ asset = [f \in Asset |-> asset[f]]
      /\ image = [f \in Asset |-> image[f]]
  BY DEF Types, RequestsOK, FilesTypeOK
<1>1. \A q \in Request : q # r => req'[q] = req[q]
  BY <1>0 DEF RequestActs, StoreFile, LinkImage, BeginUpload, StoreInternal, Stage, CreateAsset,
     UndoStage, ChooseName, UploadRemote, Switch, Unstage, AuditStored, Retract, MarkFailed, Aggregate,
     CreateImage, DeleteStored, MarkDeleted, RecordUpload, ReqGoes, NextFile
<1>2. \A f \in Asset : f # File(r) => asset'[f] = asset[f]
  BY <1>0 DEF RequestActs, StoreFile, LinkImage, BeginUpload, StoreInternal, Stage, CreateAsset,
     UndoStage, ChooseName, UploadRemote, Switch, Unstage, AuditStored, Retract, MarkFailed, Aggregate,
     CreateImage, DeleteStored, MarkDeleted, RecordUpload, SetAsset, SetStatus, rows
<1>3. \A f \in Asset : f # File(r) => image'[f] = image[f]
  BY <1>0 DEF RequestActs, StoreFile, LinkImage, BeginUpload, StoreInternal, Stage, CreateAsset,
     UndoStage, ChooseName, UploadRemote, Switch, Unstage, AuditStored, Retract, MarkFailed, Aggregate,
     CreateImage, DeleteStored, MarkDeleted, RecordUpload, rows
<1>4. \A f \in Asset : f # File(r) => (f \in mock' <=> f \in mock)
  BY DEF RequestActs, StoreFile, LinkImage, BeginUpload, StoreInternal, Stage, CreateAsset,
     UndoStage, ChooseName, UploadRemote, Switch, Unstage, AuditStored, Retract, MarkFailed, Aggregate,
     CreateImage, DeleteStored, MarkDeleted, RecordUpload, objects, DeleteLocalQuietly
<1>5. del' = del /\ req[r].pc \notin {"answered", "failed"}
  BY DEF RequestActs, StoreFile, LinkImage, BeginUpload, StoreInternal, Stage, CreateAsset,
     UndoStage, ChooseName, UploadRemote, Switch, Unstage, AuditStored, Retract, MarkFailed, Aggregate,
     CreateImage, DeleteStored, MarkDeleted, RecordUpload
<1>6. ASSUME req[r].pc = "record"
      PROVE  UNCHANGED <<rows, objects>> /\ req'[r].pc \in {"answered", "failed"}
  <2>1. RecordUpload(r)
    BY <1>6 DEF RequestActs, StoreFile, LinkImage, BeginUpload, StoreInternal, Stage, CreateAsset,
     UndoStage, ChooseName, UploadRemote, Switch, Unstage, AuditStored, Retract, MarkFailed, Aggregate,
     CreateImage, DeleteStored, MarkDeleted
  <2>. QED
    BY <2>1 DEF RecordUpload, ReqGoes, Types, RequestsOK
<1>. QED
  BY <1>1, <1>2, <1>3, <1>4, <1>5, <1>6

\* A request that goes on changes its place only.
LEMMA GoesOwn ==
    ASSUME RequestsOK, NEW r \in Request, NEW pc, ReqGoes(r, pc)
    PROVE  /\ req'[r].pc = pc /\ req'[r].at = req[r].at /\ req'[r].item = req[r].item
           /\ req'[r].plain = req[r].plain /\ req'[r].count = req[r].count /\ req'[r].max = req[r].max
           /\ \A q \in Request : q # r => req'[q] = req[q]
BY DEF RequestsOK, ReqGoes

\* A request goes from a file to the next one after it has linked the file.
LEMMA RequestPlace ==
    ASSUME Types, NEW r \in Request, RequestActs(r)
    PROVE  \/ /\ req'[r].at = req[r].at
              /\ req'[r].pc \in {"new", "store"} => req[r].pc = "new"
           \/ /\ req'[r].at = req[r].at + 1 /\ req'[r].pc = "store"
              /\ r \in Upload /\ CreateImage(r)
<1> DEFINE Place == \/ /\ req'[r].at = req[r].at
                       /\ req'[r].pc \in {"new", "store"} => req[r].pc = "new"
                    \/ /\ req'[r].at = req[r].at + 1 /\ req'[r].pc = "store"
                       /\ r \in Upload /\ CreateImage(r)
<1>0. RequestsOK
  BY DEF Types
<1>1. CASE BeginUpload(r) \/ StoreInternal(r)
  <2>1. PICK pc : ReqGoes(r, pc) /\ req[r].pc = "new"
    BY <1>1 DEF BeginUpload, StoreInternal
  <2>. QED
    BY <1>0, <2>1, GoesOwn
<1>2. CASE \/ Stage(r) \/ CreateAsset(r) \/ UndoStage(r) \/ Switch(r) \/ Unstage(r) \/ AuditStored(r)
           \/ Retract(r) \/ MarkFailed(r) \/ DeleteStored(r) \/ MarkDeleted(r) \/ RecordUpload(r)
  <2>1. PICK pc : ReqGoes(r, pc) /\ pc \notin {"new", "store"}
    BY <1>2 DEF Stage, CreateAsset, UndoStage, Switch, Unstage, AuditStored, Retract, MarkFailed,
                DeleteStored, MarkDeleted, RecordUpload
  <2>. QED
    BY <1>0, <2>1, GoesOwn
<1>3. CASE ChooseName(r)
  <2>1. CASE req' = [req EXCEPT ![r].pc = "put", ![r].plain = Namesakes(File(r)) = {}]
    BY <1>0, <2>1 DEF RequestsOK
  <2>2. CASE ReqGoes(r, "mark")
    BY <1>0, <2>2, GoesOwn
  <2>. QED
    BY <1>3, <2>1, <2>2 DEF ChooseName
<1>4. CASE UploadRemote(r)
  <2>1. CASE req' = [req EXCEPT ![r].pc = "switch", ![r].item = Target(r)]
    BY <1>0, <2>1 DEF RequestsOK
  <2>2. CASE ReqGoes(r, "mark")
    BY <1>0, <2>2, GoesOwn
  <2>. QED
    BY <1>4, <2>1, <2>2 DEF UploadRemote
<1>5. CASE Aggregate(r)
  <2>1. PICK c, m : req' = [req EXCEPT ![r].pc = "create", ![r].count = c, ![r].max = m]
    BY <1>5 DEF Aggregate
  <2>. QED
    BY <1>0, <2>1 DEF RequestsOK
<1>6. CASE r \in Upload /\ CreateImage(r)
  <2>1. CASE req' = [req EXCEPT ![r].pc = "store", ![r].at = @ + 1]
    BY <1>0, <1>6, <2>1 DEF RequestsOK
  <2>2. CASE ReqGoes(r, "record") \/ ReqGoes(r, "unlink")
    BY <1>0, <2>2, GoesOwn
  <2>. QED
    BY <1>6, <2>1, <2>2 DEF CreateImage, NextFile
<1>. QED
  BY <1>1, <1>2, <1>3, <1>4, <1>5, <1>6 DEF RequestActs, StoreFile, LinkImage

\* Where a request comes from.
Before == [pc \in RequestPc |->
    CASE pc = "new" -> {}
      [] pc = "store" -> {"new", "create"}
      [] pc \in {"stored", "staged"} -> {"store"}
      [] pc = "upload" -> {"staged"}
      [] pc = "put" -> {"upload"}
      [] pc = "switch" -> {"put"}
      [] pc = "unstage" -> {"switch"}
      [] pc = "link" -> {"stored", "unstage"}
      [] pc = "audit" -> {"stored", "unstage"}
      [] pc = "retract" -> {"switch", "audit"}
      [] pc = "mark" -> {"upload", "put", "retract"}
      [] pc = "undo" -> {"stored", "staged", "audit"}
      [] pc = "create" -> {"link"}
      [] pc \in {"unlink", "record"} -> {"create"}
      [] pc = "undone" -> {"unlink"}
      [] pc = "answered" -> {"record", "audit"}
      [] pc = "failed" -> {"new", "store", "undo", "mark", "undone", "record"}]

\* Every step of a request follows this order.
LEMMA RequestFollows ==
    ASSUME Types, NEW r \in Request, RequestActs(r)
    PROVE  req'[r].pc \in RequestPc /\ req[r].pc \in Before[req'[r].pc]
<1>0. RequestsOK
  BY DEF Types
<1>1. ASSUME NEW pc \in RequestPc, ReqGoes(r, pc), req[r].pc \in Before[pc]
      PROVE  req'[r].pc \in RequestPc /\ req[r].pc \in Before[req'[r].pc]
  BY <1>0, <1>1, GoesOwn
<1>2. CASE BeginUpload(r) \/ StoreInternal(r)
  BY <1>1, <1>2 DEF BeginUpload, StoreInternal, RequestPc, Before
<1>3. CASE Stage(r) \/ CreateAsset(r) \/ UndoStage(r)
  BY <1>1, <1>3 DEF Stage, CreateAsset, UndoStage, RequestPc, Before
<1>4. CASE Switch(r) \/ Unstage(r) \/ AuditStored(r) \/ Retract(r) \/ MarkFailed(r)
  BY <1>1, <1>4 DEF Switch, Unstage, AuditStored, Retract, MarkFailed, RequestPc, Before
<1>5. CASE DeleteStored(r) \/ MarkDeleted(r) \/ RecordUpload(r)
  BY <1>1, <1>5 DEF DeleteStored, MarkDeleted, RecordUpload, RequestPc, Before
<1>6. CASE ChooseName(r)
  <2>1. CASE req' = [req EXCEPT ![r].pc = "put", ![r].plain = Namesakes(File(r)) = {}]
    <3>1. req'[r].pc = "put"
      BY <1>0, <2>1 DEF RequestsOK
    <3>. QED
      BY <1>6, <3>1 DEF ChooseName, RequestPc, Before
  <2>2. CASE ReqGoes(r, "mark")
    BY <1>1, <1>6, <2>2 DEF ChooseName, RequestPc, Before
  <2>. QED
    BY <1>6, <2>1, <2>2 DEF ChooseName
<1>7. CASE UploadRemote(r)
  <2>1. CASE req' = [req EXCEPT ![r].pc = "switch", ![r].item = Target(r)]
    <3>1. req'[r].pc = "switch"
      BY <1>0, <2>1 DEF RequestsOK
    <3>. QED
      BY <1>7, <3>1 DEF UploadRemote, RequestPc, Before
  <2>2. CASE ReqGoes(r, "mark")
    BY <1>1, <1>7, <2>2 DEF UploadRemote, RequestPc, Before
  <2>. QED
    BY <1>7, <2>1, <2>2 DEF UploadRemote
<1>8. CASE Aggregate(r)
  <2>1. PICK c, m : req' = [req EXCEPT ![r].pc = "create", ![r].count = c, ![r].max = m]
    BY <1>8 DEF Aggregate
  <2>2. req'[r].pc = "create"
    BY <1>0, <2>1 DEF RequestsOK
  <2>. QED
    BY <1>8, <2>2 DEF Aggregate, RequestPc, Before
<1>9. CASE CreateImage(r)
  <2>1. CASE req' = [req EXCEPT ![r].pc = "store", ![r].at = @ + 1]
    <3>1. req'[r].pc = "store"
      BY <1>0, <2>1 DEF RequestsOK
    <3>. QED
      BY <1>9, <3>1 DEF CreateImage, RequestPc, Before
  <2>2. CASE ReqGoes(r, "record") \/ ReqGoes(r, "unlink")
    BY <1>1, <1>9, <2>2 DEF CreateImage, RequestPc, Before
  <2>. QED
    BY <1>9, <2>1, <2>2 DEF CreateImage, NextFile
<1>. QED
  BY <1>2, <1>3, <1>4, <1>5, <1>6, <1>7, <1>8, <1>9 DEF RequestActs, StoreFile, LinkImage

\* The place of a request names its step.
LEMMA StepAt ==
    ASSUME Types, NEW r \in Request, RequestActs(r)
    PROVE  /\ req[r].pc = "new" => BeginUpload(r) \/ StoreInternal(r)
           /\ req[r].pc = "store" => Stage(r)
           /\ req[r].pc \in {"stored", "staged"} => CreateAsset(r)
           /\ req[r].pc = "undo" => UndoStage(r)
           /\ req[r].pc = "upload" => ChooseName(r)
           /\ req[r].pc = "put" => UploadRemote(r)
           /\ req[r].pc = "switch" => Switch(r)
           /\ req[r].pc = "unstage" => Unstage(r)
           /\ req[r].pc = "audit" => AuditStored(r)
           /\ req[r].pc = "retract" => Retract(r)
           /\ req[r].pc = "mark" => MarkFailed(r)
           /\ req[r].pc = "link" => Aggregate(r)
           /\ req[r].pc = "create" => r \in Upload /\ CreateImage(r)
           /\ req[r].pc = "unlink" => DeleteStored(r)
           /\ req[r].pc = "undone" => MarkDeleted(r)
           /\ req[r].pc = "record" => RecordUpload(r)
BY DEF RequestActs, StoreFile, LinkImage, BeginUpload, StoreInternal, Stage, CreateAsset, UndoStage,
   ChooseName, UploadRemote, Switch, Unstage, AuditStored, Retract, MarkFailed, Aggregate,
   CreateImage, DeleteStored, MarkDeleted, RecordUpload

\* What happens around leaves everything alone.
LEMMA AroundFrame ==
    ASSUME Around
    PROVE  UNCHANGED <<rows, objects, req, del, fileGhosts>>
BY DEF Around, ConnectionChanges, DeactivateProduct, filesVars

\* What a stop of the server leaves of the requests and the deletions.
LEMMA StopFrame ==
    ASSUME Types, ServerStops
    PROVE  /\ UNCHANGED <<environment, rows, objects, raced>> /\ leaked'
           /\ \A r \in Request :
                 /\ req'[r].at = req[r].at /\ req'[r].pc \in Ended
                 /\ req'[r].pc = IF req[r].pc \in Ended THEN req[r].pc ELSE "failed"
                 /\ req'[r].item = req[r].item
           /\ \A d \in Deletion :
                 /\ del'[d].target = del[d].target /\ del'[d].primary = del[d].primary
                 /\ del'[d].pc = IF del[d].pc \in Ended THEN del[d].pc ELSE "failed"
<1>1. \A r \in Request :
         /\ req'[r].at = req[r].at /\ req'[r].pc \in Ended
         /\ req'[r].pc = IF req[r].pc \in Ended THEN req[r].pc ELSE "failed"
         /\ req'[r].item = req[r].item
  <2>1. \A r \in Request : req[r] \in [pc : RequestPc, at : Nat, plain : BOOLEAN,
                            item : Asset \cup {NoFile}, count : Nat, max : Nat \cup {-1}]
    BY DEF Types, RequestsOK
  <2>. QED
    BY <2>1 DEF ServerStops, Ended
<1>2. \A d \in Deletion :
         /\ del'[d].target = del[d].target /\ del'[d].primary = del[d].primary
         /\ del'[d].pc = IF del[d].pc \in Ended THEN del[d].pc ELSE "failed"
  BY DEF Types, DeletionsOK, ServerStops
<1>. QED
  BY <1>1, <1>2 DEF ServerStops

\* Promoted removes an image, and makes at most one other the primary one.
LEMMA PromotedImage ==
    ASSUME Types, NEW f \in Asset, NEW wasPrimary, image' = Promoted(f, wasPrimary)
    PROVE  /\ Images' = Images \ {f}
           /\ \/ /\ ~ (wasPrimary /\ Images \ {f} # {})
                 /\ \A h \in Asset : h # f => image'[h] = image[h]
              \/ /\ wasPrimary
                 /\ \E g \in Images \ {f} :
                       /\ image'[g].primary = TRUE
                       /\ \A h \in Asset : h # f /\ h # g => image'[h] = image[h]
<1> DEFINE others == Images \ {f}
           first == CHOOSE g \in others : \A h \in others : image[g].sort <= image[h].sort
<1>0. image = [h \in Asset |-> image[h]] /\ Images \subseteq Asset
  BY DEF Types, FilesTypeOK, Images
<1>1. CASE wasPrimary /\ others # {}
  <2>1. first \in Images /\ first # f
    BY <1>1, FirstImage DEF Types
  <2>2. image[first] \in [sort : Nat, primary : BOOLEAN] /\ first \in Asset
    BY <2>1 DEF Types, FilesTypeOK, Images
  <2> HIDE DEF first
  <2>3. image' = [[image EXCEPT ![f] = NoFile] EXCEPT ![first].primary = TRUE]
    BY <1>1 DEF Promoted, first
  <2>4. image'[first] = [image[first] EXCEPT !.primary = TRUE]
    BY <1>0, <2>1, <2>2, <2>3
  <2>5. image'[first] \in [sort : Nat, primary : BOOLEAN] /\ image'[first].primary = TRUE
    BY <2>2, <2>4
  <2>6. image'[first] # NoFile
    BY <2>5, FileStorageAssumption
  <2>7. /\ \A h \in Asset : h # f /\ h # first => image'[h] = image[h]
        /\ image'[f] = NoFile
    BY <1>0, <2>1, <2>3
  <2>8. Images' = Images \ {f}
    BY <2>1, <2>2, <2>6, <2>7 DEF Images
  <2>. QED
    BY <1>1, <2>1, <2>5, <2>7, <2>8
<1>2. CASE ~ (wasPrimary /\ others # {})
  <2>1. image' = [image EXCEPT ![f] = NoFile]
    BY <1>2 DEF Promoted
  <2>2. \A h \in Asset : image'[h] = IF h = f THEN NoFile ELSE image[h]
    BY <1>0, <2>1
  <2>3. Images' = Images \ {f}
    BY <2>2 DEF Images
  <2>. QED
    BY <1>2, <2>2, <2>3
<1>. QED
  BY <1>1, <1>2

\* Of images that are left, Promoted picks one,
LEMMA PromotedFirst ==
    ASSUME Types, NEW f \in Asset, image' = Promoted(f, TRUE), Images \ {f} # {}
    PROVE  \E g \in Images \ {f} :
              /\ image'[g].primary = TRUE
              /\ \A h \in Asset : h # f /\ h # g => image'[h] = image[h]
BY PromotedImage

\* and of none, or when the deleted one was not primary, it picks none.
LEMMA PromotedNone ==
    ASSUME Types, NEW f \in Asset,
           image' = Promoted(f, FALSE) \/ (image' = Promoted(f, TRUE) /\ Images \ {f} = {})
    PROVE  \A h \in Asset : h # f => image'[h] = image[h]
BY PromotedImage

\* A step of a deletion touches its target at most; of the other images it
\* promotes one.
LEMMA DeletionFrame ==
    ASSUME Types, NEW d \in Deletion, Delete(d)
    PROVE  /\ req' = req /\ leaked' = leaked
           /\ \A e \in Deletion : e # d => del'[e] = del[e]
           /\ \/ ReadTarget(d) /\ UNCHANGED <<rows, objects>>
              \/ /\ del'[d].target = del[d].target /\ del'[d].primary = del[d].primary
                 /\ del[d].target \in Asset
                 /\ raced' = raced
                 /\ \A f \in Asset : f # del[d].target =>
                       asset'[f] = asset[f] /\ (f \in mock' <=> f \in mock) /\ (f \in Images' <=> f \in Images)
<1>0. /\ del = [e \in Deletion |-> del[e]] /\ asset = [f \in Asset |-> asset[f]]
      /\ image = [f \in Asset |-> image[f]]
      /\ \A e \in Deletion : del[e].pc = "new" <=> del[e].target = NoFile
      /\ \A e \in Deletion : del[e].target \in Asset \cup {NoFile}
  BY DEF Types, DeletionsOK, FilesTypeOK
<1>1. req' = req /\ leaked' = leaked
  BY DEF Delete, ReadTarget, DeleteContent, DeleteRows, RecordDeletion, fileGhosts
<1>2. \A e \in Deletion : e # d => del'[e] = del[e]
  BY <1>0 DEF Delete, ReadTarget, DeleteContent, DeleteRows, RecordDeletion, DelGoes
<1>3. CASE ReadTarget(d)
  BY <1>1, <1>2, <1>3 DEF ReadTarget
<1>4. CASE DeleteContent(d) \/ DeleteRows(d) \/ RecordDeletion(d)
  <2>1. PICK pc : DelGoes(d, pc) /\ del[d].pc # "new"
    BY <1>4 DEF DeleteContent, DeleteRows, RecordDeletion
  <2>2. /\ del'[d].target = del[d].target /\ del'[d].primary = del[d].primary
        /\ del[d].target \in Asset
    BY <1>0, <2>1 DEF DelGoes, Types, DeletionsOK
  <2>3. \A f \in Asset : f # del[d].target => asset'[f] = asset[f]
    BY <1>0, <1>4 DEF DeleteContent, DeleteRows, RecordDeletion, SetStatus, rows
  <2>4. \A f \in Asset : f # del[d].target => (f \in mock' <=> f \in mock)
    BY <1>4 DEF DeleteContent, DeleteRows, RecordDeletion, objects
  <2>5. \A f \in Asset : f # del[d].target => (f \in Images' <=> f \in Images)
    <3>1. CASE image' = Promoted(del[d].target, del[d].primary)
      <4>1. Images' = Images \ {del[d].target}
        BY <2>2, <3>1, PromotedImage
      <4>. QED
        BY <4>1
    <3>2. CASE UNCHANGED image
      BY <3>2 DEF Images
    <3>. QED
      BY <1>4, <3>1, <3>2 DEF DeleteContent, DeleteRows, RecordDeletion, rows
  <2>6. raced' = raced
    BY <1>4 DEF DeleteContent, DeleteRows, RecordDeletion, fileGhosts
  <2>. QED
    BY <1>1, <1>2, <2>2, <2>3, <2>4, <2>5, <2>6
<1>. QED
  BY <1>3, <1>4 DEF Delete

(***************************************************************************)
(* Requests only go forward.                                               *)
(***************************************************************************)

\* What is past stays past, and what waits has waited.
LEMMA PastStays ==
    ASSUME Types, [FilesNext]_filesVars, NEW r \in Request, NEW i \in DOMAIN FilesOf[r]
    PROVE  /\ Past(r, i) => Past(r, i)'
           /\ Waiting(r, i)' => Waiting(r, i)
<1>0. req[r].at \in Nat /\ i \in Nat
  BY FileStorageAssumption DEF Types, RequestsOK
<1>1. CASE \E q \in Request : RequestActs(q)
  <2>1. PICK q \in Request : RequestActs(q)
    BY <1>1
  <2>2. CASE q # r
    BY <2>1, <2>2, RequestFrame DEF Past, Waiting
  <2>3. CASE q = r
    BY <1>0, <2>1, <2>3, RequestFrame, RequestPlace DEF Past, Waiting
  <2>. QED
    BY <2>2, <2>3
<1>2. CASE (\E d \in Deletion : Delete(d)) \/ Around
  BY <1>2, DeletionFrame, AroundFrame DEF Past, Waiting
<1>3. CASE ServerStops
  BY <1>3, StopFrame DEF Past, Waiting, Ended
<1>. QED
  BY <1>1, <1>2, <1>3, FileKinds

\* A settled file stays settled.
LEMMA SettledStays ==
    ASSUME Types, [FilesNext]_filesVars, NEW f, Settled(f)
    PROVE  Settled(f)'
BY PastStays DEF Settled

\* The file that a request is storing is not settled.
LEMMA Unsettled ==
    ASSUME Types, NEW r \in Request, req[r].pc \notin {"record", "answered", "failed"}
    PROVE  ~ Settled(File(r))
<1>1. req[r].at \in DOMAIN FilesOf[r] /\ req[r].at \in Nat
  BY DEF Types, RequestsOK
<1>. QED
  BY <1>1 DEF Settled, Past, File

(***************************************************************************)
(* Rows, local objects and images.                                         *)
(***************************************************************************)

\* Rows that do not change keep their form.
LEMMA FrameKeepsRows ==
    ASSUME Types, RowsOK, UNCHANGED asset
    PROVE  RowsOK'
BY DEF RowsOK

\* The rows keep their form.
LEMMA RowsStep == Types /\ RowsOK /\ (\A r \in Request : RequestRow(r)) /\ [FilesNext]_filesVars
                    => RowsOK'
<1> SUFFICES ASSUME Types, RowsOK, \A r \in Request : RequestRow(r), [FilesNext]_filesVars
             PROVE  RowsOK'
  OBVIOUS
<1>0. /\ asset \in [Asset -> [status : {"ABSENT", "UPLOADING", "SYNCED", "FAILED", "DELETED"},
                              provider : {"MOCK_LOCAL", "ONEDRIVE"},
                              item : Asset \cup {NoFile}]]
      /\ NoFile \notin Asset
  BY FileStorageAssumption DEF Types, FilesTypeOK
<1>1. ASSUME NEW f \in Asset, NEW status \in {"FAILED", "DELETED"}, SetStatus(f, status)
      PROVE  RowsOK'
  BY <1>0, <1>1 DEF RowsOK, SetStatus, NoAsset
<1>2. ASSUME NEW f \in Asset, NEW status \in {"SYNCED", "UPLOADING"},
             SetAsset(f, status, "MOCK_LOCAL", NoFile)
      PROVE  RowsOK'
  BY <1>0, <1>2 DEF RowsOK, SetAsset, NoAsset
<1>3. ASSUME NEW f \in Asset, NEW item \in Asset,
             SetAsset(f, "SYNCED", "ONEDRIVE", item)
      PROVE  RowsOK'
  BY <1>0, <1>3 DEF RowsOK, SetAsset, NoAsset
<1>4. ASSUME NEW r \in Request, RequestActs(r)
      PROVE  RowsOK'
  <2>1. File(r) \in Asset
    BY FileOfRequest DEF Types
  <2>2. CASE CreateAsset(r)
    BY <1>2, <2>1, <2>2, FrameKeepsRows DEF CreateAsset
  <2>3. CASE Switch(r)
    <3>1. req[r].item \in Asset
      BY <1>0, <2>3 DEF Switch, RequestRow, Types, RequestsOK
    <3>. QED
      BY <1>3, <2>1, <2>3, <3>1, FrameKeepsRows DEF Switch
  <2>4. CASE MarkFailed(r) \/ MarkDeleted(r)
    BY <1>1, <2>1, <2>4, FrameKeepsRows DEF MarkFailed, MarkDeleted
  <2>5. CASE ~ (CreateAsset(r) \/ Switch(r) \/ MarkFailed(r) \/ MarkDeleted(r))
    <3>1. UNCHANGED asset
      BY <1>4, <2>5 DEF RequestActs, StoreFile, LinkImage, BeginUpload, StoreInternal, Stage,
         UndoStage, ChooseName, UploadRemote, Unstage, AuditStored, Retract, Aggregate,
         CreateImage, DeleteStored, RecordUpload, rows
    <3>. QED
      BY <3>1, FrameKeepsRows
  <2>. QED
    BY <2>2, <2>3, <2>4, <2>5
<1>5. ASSUME NEW d \in Deletion, Delete(d)
      PROVE  RowsOK'
  <2>1. CASE DeleteRows(d)
    <3>1. del[d].target \in Asset
      BY <2>1 DEF DeleteRows, Types, DeletionsOK
    <3>. QED
      BY <1>1, <2>1, <3>1, FrameKeepsRows DEF DeleteRows, rows
  <2>2. CASE ~ DeleteRows(d)
    <3>1. UNCHANGED asset
      BY <1>5, <2>2 DEF Delete, ReadTarget, DeleteContent, RecordDeletion, rows
    <3>. QED
      BY <3>1, FrameKeepsRows
  <2>. QED
    BY <2>1, <2>2
<1>6. CASE Around \/ ServerStops
  BY <1>6, AroundFrame, StopFrame, FrameKeepsRows DEF rows
<1>. QED
  BY <1>4, <1>5, <1>6, FileKinds

\* A file that waits has no row, no image and no copy.
LEMMA WaitStep ==
    Types /\ FilesWait /\ TargetsSettled /\ [FilesNext]_filesVars => FilesWait'
<1> SUFFICES ASSUME Types, FilesWait, TargetsSettled, [FilesNext]_filesVars,
                    NEW r \in Request, NEW i \in DOMAIN FilesOf[r], Waiting(r, i)'
             PROVE  /\ asset'[FilesOf[r][i]] = NoAsset /\ image'[FilesOf[r][i]] = NoFile
                    /\ FilesOf[r][i] \notin mock'
  BY DEF FilesWait
<1> DEFINE f == FilesOf[r][i]
<1>0. /\ Waiting(r, i) /\ asset[f] = NoAsset /\ image[f] = NoFile /\ f \notin mock /\ f \in Asset
      /\ req[r].at \in Nat /\ i \in Nat
  BY FileStorageAssumption, PastStays DEF FilesWait, Types, RequestsOK
<1>1. ASSUME NEW q \in Request, RequestActs(q)
      PROVE  asset'[f] = NoAsset /\ image'[f] = NoFile /\ f \notin mock'
  <2>1. CASE f # File(q)
    BY <1>0, <1>1, <2>1, RequestFrame
  <2>2. CASE f = File(q)
    <3>1. r = q /\ i = req[r].at
      BY <2>2, OwnFile DEF Types
    <3>2. req'[r].at = i /\ req'[r].pc \in {"new", "store"} /\ req[r].pc = "new"
      BY <1>0, <1>1, <3>1, RequestPlace DEF Waiting
    <3>3. BeginUpload(r) \/ StoreInternal(r)
      BY <1>1, <3>1, <3>2 DEF RequestActs, StoreFile, LinkImage, Stage, CreateAsset,
         UndoStage, ChooseName, UploadRemote, Switch, Unstage, AuditStored, Retract, MarkFailed,
         Aggregate, CreateImage, DeleteStored, MarkDeleted, RecordUpload
    <3>. QED
      BY <1>0, <3>3 DEF BeginUpload, StoreInternal, rows, objects
  <2>. QED
    BY <2>1, <2>2
<1>2. ASSUME NEW d \in Deletion, Delete(d)
      PROVE  asset'[f] = NoAsset /\ image'[f] = NoFile /\ f \notin mock'
  <2>1. CASE UNCHANGED <<rows, objects>>
    BY <1>0, <2>1 DEF rows, objects
  <2>2. CASE ~ UNCHANGED <<rows, objects>>
    <3>1. del[d].target \in Asset /\ Settled(del[d].target)
      BY <1>2, <2>2, DeletionFrame, FileStorageAssumption DEF TargetsSettled
    <3>2. f # del[d].target
      BY <1>0, <3>1 DEF Settled, Past, Waiting
    <3>. QED
      BY <1>0, <1>2, <2>2, <3>2, DeletionFrame DEF Images
  <2>. QED
    BY <2>1, <2>2
<1>3. CASE Around \/ ServerStops
  BY <1>0, <1>3, AroundFrame, StopFrame DEF rows, objects
<1>. QED
  BY <1>1, <1>2, <1>3, FileKinds

\* What a step of a request makes of its own file.
LEMMA OwnRowStep ==
    ASSUME Types, FilesWait, NEW r \in Request, RequestRow(r), RequestActs(r)
    PROVE  /\ RequestRow(r)'
           /\ r \in Upload /\ (asset[File(r)].status \in {"UPLOADING", "FAILED"} => File(r) \in mock)
                 => (asset'[File(r)].status \in {"UPLOADING", "FAILED"} => File(r) \in mock')
<1> DEFINE f == File(r)
           RowsAsTheyWere == r \in Upload /\ (asset[f].status \in {"UPLOADING", "FAILED"} => f \in mock)
                     => (asset'[f].status \in {"UPLOADING", "FAILED"} => f \in mock')
<1>0. /\ RequestsOK /\ f \in Asset /\ NoFile \notin Asset
      /\ Request = Upload \cup Internal /\ Upload \cap Internal = {}
      /\ req[r].at \in DOMAIN FilesOf[r] /\ req[r].at \in Nat
  BY FileOfRequest, FileStorageAssumption DEF Types, RequestsOK, Request
<1>a. /\ asset \in [Asset -> [status : {"ABSENT", "UPLOADING", "SYNCED", "FAILED", "DELETED"},
                              provider : {"MOCK_LOCAL", "ONEDRIVE"},
                              item : Asset \cup {NoFile}]]
  BY DEF Types, FilesTypeOK
<1>g. ASSUME NEW pc, ReqGoes(r, pc)
      PROVE  req'[r].pc = pc /\ File(r)' = f /\ req'[r].item = req[r].item
  BY <1>0, <1>g, GoesOwn DEF File
<1>1. CASE BeginUpload(r) \/ StoreInternal(r) \/ Aggregate(r) \/ ChooseName(r)
  <2>1. UNCHANGED <<asset, mock>>
    BY <1>1 DEF BeginUpload, StoreInternal, Aggregate, ChooseName, rows, objects
  <2>2. CASE BeginUpload(r) \/ StoreInternal(r)
    BY <1>g, <2>1, <2>2 DEF BeginUpload, StoreInternal, RequestRow
  <2>3. CASE Aggregate(r)
    <3>1. PICK c, m : req' = [req EXCEPT ![r].pc = "create", ![r].count = c, ![r].max = m]
      BY <2>3 DEF Aggregate
    <3>2. req'[r].pc = "create" /\ req'[r].at = req[r].at
      BY <1>0, <3>1 DEF RequestsOK
    <3>. QED
      BY <2>1, <2>3, <3>2 DEF Aggregate, RequestRow, File
  <2>4. CASE ChooseName(r)
    <3>1. req'[r].pc \in {"put", "mark"} /\ req'[r].at = req[r].at
      BY <1>0, <1>g, <2>4 DEF ChooseName, RequestsOK, ReqGoes
    <3>. QED
      BY <2>1, <2>4, <3>1 DEF ChooseName, RequestRow, File
  <2>. QED
    BY <1>1, <2>2, <2>3, <2>4
<1>2. CASE Stage(r)
  <2>1. asset[f] = NoAsset
    BY <1>0, <1>2 DEF Stage, FilesWait, Waiting, File
  <2>. QED
    BY <1>g, <1>2, <2>1 DEF Stage, RequestRow, rows, NoAsset
<1>3. CASE CreateAsset(r)
  <2>1. asset[f] = NoAsset /\ f \in mock
    BY <1>3 DEF CreateAsset, RequestRow
  <2>2. UNCHANGED mock
    BY <1>3 DEF CreateAsset, objects
  <2>3. CASE /\ SetAsset(f, IF req[r].pc = "stored" THEN "SYNCED" ELSE "UPLOADING", "MOCK_LOCAL", NoFile)
             /\ ReqGoes(r, IF req[r].pc = "staged" THEN "upload"
                     ELSE IF r \in Upload THEN "link" ELSE "audit")
    <3>1. asset'[f] = [status |-> IF req[r].pc = "stored" THEN "SYNCED" ELSE "UPLOADING",
                       provider |-> "MOCK_LOCAL", item |-> NoFile]
      BY <1>0, <1>a, <2>3 DEF SetAsset
    <3>2. CASE req[r].pc = "staged"
      BY <1>g, <2>1, <2>2, <2>3, <3>1, <3>2 DEF RequestRow, StagedRow
    <3>3. CASE req[r].pc = "stored"
      BY <1>g, <2>1, <2>2, <2>3, <3>1, <3>3 DEF RequestRow
    <3>. QED
      BY <1>3, <3>2, <3>3 DEF CreateAsset
  <2>4. CASE ReqGoes(r, "undo") /\ UNCHANGED asset
    BY <1>g, <2>1, <2>2, <2>4 DEF RequestRow
  <2>. QED
    BY <1>3, <2>3, <2>4 DEF CreateAsset
<1>4. CASE UndoStage(r)
  <2>1. RequestRow(r)'
    BY <1>g, <1>4 DEF UndoStage, RequestRow
  <2>2. RowsAsTheyWere
    BY <1>4 DEF UndoStage, RequestRow, rows, NoAsset
  <2>. QED
    BY <2>1, <2>2
<1>5. CASE UploadRemote(r)
  <2>1. UNCHANGED <<asset, mock>> /\ asset[f] = StagedRow /\ f \in mock
    BY <1>5 DEF UploadRemote, RequestRow, rows
  <2>2. CASE req' = [req EXCEPT ![r].pc = "switch", ![r].item = Target(r)]
    <3>1. Target(r) \in Asset
      BY TargetIsFile
    <3>2. req'[r].pc = "switch" /\ req'[r].item = Target(r) /\ req'[r].at = req[r].at
      BY <1>0, <2>2 DEF RequestsOK
    <3>. QED
      BY <1>0, <2>1, <3>1, <3>2 DEF RequestRow, File
  <2>3. CASE ReqGoes(r, "mark")
    BY <1>g, <2>1, <2>3 DEF RequestRow
  <2>. QED
    BY <1>5, <2>2, <2>3 DEF UploadRemote
<1>6. CASE Switch(r)
  <2>1. UNCHANGED mock /\ asset[f] = StagedRow /\ f \in mock /\ req[r].item # NoFile
    BY <1>6 DEF Switch, RequestRow, objects
  <2>2. CASE SetAsset(f, "SYNCED", "ONEDRIVE", req[r].item) /\ ReqGoes(r, "unstage")
    <3>1. asset'[f] = [status |-> "SYNCED", provider |-> "ONEDRIVE", item |-> req[r].item]
      BY <1>0, <1>a, <2>2 DEF SetAsset
    <3>. QED
      BY <1>g, <2>1, <2>2, <3>1 DEF RequestRow
  <2>3. CASE ReqGoes(r, "retract") /\ UNCHANGED asset
    BY <1>g, <2>1, <2>3 DEF RequestRow
  <2>. QED
    BY <1>6, <2>2, <2>3 DEF Switch
<1>7. CASE Unstage(r)
  <2>1. asset[f].status = "SYNCED" /\ asset[f].provider = "ONEDRIVE" /\ UNCHANGED asset
    BY <1>7 DEF Unstage, RequestRow, rows
  <2>2. ReqGoes(r, "link") \/ (ReqGoes(r, "audit") /\ r \in Internal)
    BY <1>0, <1>7 DEF Unstage
  <2>. QED
    BY <1>g, <2>1, <2>2 DEF RequestRow
<1>8. CASE AuditStored(r)
  <2>1. r \in Internal
    BY <1>0, <1>8 DEF AuditStored, RequestsOK
  <2>. QED
    BY <1>0, <1>g, <1>8, <2>1 DEF AuditStored, RequestRow
<1>9. CASE Retract(r)
  BY <1>g, <1>9 DEF Retract, RequestRow, rows
<1>10. CASE MarkFailed(r)
  <2>1. RequestRow(r)'
    BY <1>g, <1>10 DEF MarkFailed, RequestRow
  <2>2. RowsAsTheyWere
    BY <1>10 DEF MarkFailed, RequestRow, objects
  <2>. QED
    BY <2>1, <2>2
<1>11. CASE r \in Upload /\ CreateImage(r)
  <2>1. UNCHANGED <<asset, mock>>
    BY <1>11 DEF CreateImage, objects
  <2>2. CASE req' = [req EXCEPT ![r].pc = "store", ![r].at = @ + 1]
    <3>1. req'[r].pc = "store"
      BY <1>0, <2>2 DEF RequestsOK
    <3>. QED
      BY <2>1, <3>1 DEF RequestRow
  <2>3. CASE ReqGoes(r, "record") \/ ReqGoes(r, "unlink")
    BY <1>g, <1>11, <2>1, <2>3 DEF CreateImage, RequestRow
  <2>. QED
    BY <1>11, <2>2, <2>3 DEF CreateImage, NextFile
<1>12. CASE DeleteStored(r)
  <2>1. asset[f].status = "SYNCED" /\ UNCHANGED asset
    BY <1>12 DEF DeleteStored, RequestRow, rows
  <2>. QED
    BY <1>g, <1>12, <2>1 DEF DeleteStored, RequestRow
<1>13. CASE MarkDeleted(r)
  <2>1. RequestRow(r)'
    BY <1>g, <1>13 DEF MarkDeleted, RequestRow
  <2>2. asset'[f].status \in {"SYNCED", "DELETED"}
    BY <1>0, <1>a, <1>13 DEF MarkDeleted, RequestRow, SetStatus
  <2>. QED
    BY <2>1, <2>2
<1>14. CASE RecordUpload(r)
  BY <1>g, <1>14 DEF RecordUpload, RequestRow, rows, objects
<1>. QED
  BY <1>1, <1>2, <1>3, <1>4, <1>5, <1>6, <1>7, <1>8, <1>9, <1>10, <1>11, <1>12, <1>13, <1>14
  DEF RequestActs, StoreFile, LinkImage

\* What leaves a request, its row and its copy alone keeps what RequestRow says.
LEMMA RequestRowSame ==
    ASSUME NEW r \in Request, RequestRow(r), req'[r] = req[r],
           asset'[File(r)] = asset[File(r)], File(r) \in mock' <=> File(r) \in mock
    PROVE  RequestRow(r)'
BY DEF RequestRow, File

\* The row of a file fits the place of its request: others cannot reach it.
LEMMA RequestRowStep ==
    Types /\ FilesWait /\ TargetsSettled /\ (\A r \in Request : RequestRow(r)) /\ [FilesNext]_filesVars
        => (\A r \in Request : RequestRow(r))'
<1> SUFFICES ASSUME Types, FilesWait, TargetsSettled, \A r \in Request : RequestRow(r),
                    [FilesNext]_filesVars, NEW r \in Request
             PROVE  RequestRow(r)'
  OBVIOUS
<1>0. File(r) \in Asset
  BY FileOfRequest DEF Types
<1>1. ASSUME NEW q \in Request, RequestActs(q)
      PROVE  RequestRow(r)'
  <2>1. CASE q = r
    BY <1>1, <2>1, OwnRowStep
  <2>2. CASE q # r
    <3>1. File(r) # File(q)
      BY <2>2, OwnFile, FileOfRequest DEF Types, File
    <3>. QED
      BY <1>0, <1>1, <2>2, <3>1, RequestFrame, RequestRowSame
  <2>. QED
    BY <2>1, <2>2
<1>2. ASSUME NEW d \in Deletion, Delete(d)
      PROVE  RequestRow(r)'
  <2>1. req' = req
    BY <1>2, DeletionFrame
  <2>2. CASE UNCHANGED <<rows, objects>>
    BY <2>1, <2>2, RequestRowSame DEF rows, objects
  <2>3. CASE ~ UNCHANGED <<rows, objects>>
    <3>1. del[d].target \in Asset /\ Settled(del[d].target)
      BY <1>2, <2>3, DeletionFrame, FileStorageAssumption DEF TargetsSettled
    <3>2. CASE req[r].pc \in {"record", "answered", "failed"}
      BY <2>1, <3>2 DEF RequestRow
    <3>3. CASE req[r].pc \notin {"record", "answered", "failed"}
      <4>1. File(r) # del[d].target
        BY <3>1, <3>3, Unsettled
      <4>. QED
        BY <1>0, <1>2, <2>1, <2>3, <4>1, DeletionFrame, RequestRowSame
    <3>. QED
      BY <3>2, <3>3
  <2>. QED
    BY <2>2, <2>3
<1>3. CASE Around
  BY <1>3, AroundFrame, RequestRowSame DEF rows, objects
<1>4. CASE ServerStops
  BY <1>4, StopFrame DEF RequestRow, Ended
<1>. QED
  BY <1>1, <1>2, <1>3, <1>4, FileKinds

\* CreateImage links the file and goes on, or leaves the images alone.
LEMMA CreateLinks ==
    ASSUME Types, NEW r \in Upload, CreateImage(r)
    PROVE  \/ UNCHANGED image /\ ReqGoes(r, "unlink")
           \/ /\ Images' = Images \cup {File(r)} /\ NextFile(r)
              /\ image' = [image EXCEPT ![File(r)] = [sort |-> req[r].max + 1, primary |-> req[r].count = 0]]
<1>1. CASE UNCHANGED image /\ ReqGoes(r, "unlink")
  BY <1>1
<1>2. CASE ~ (UNCHANGED image /\ ReqGoes(r, "unlink"))
  <2>1. /\ image' = [image EXCEPT ![File(r)] = [sort |-> req[r].max + 1, primary |-> req[r].count = 0]]
        /\ NextFile(r)
    BY <1>2 DEF CreateImage
  <2>2. r \in Request /\ File(r) \in Asset /\ req[r].max + 1 \in Nat
    BY FileOfRequest DEF Types, RequestsOK, Request
  <2>3. PICK i : i = [sort |-> req[r].max + 1, primary |-> req[r].count = 0]
    OBVIOUS
  <2>4. i \in [sort : Nat, primary : BOOLEAN]
    BY <2>2, <2>3
  <2>5. i # NoFile
    BY <2>4, FileStorageAssumption
  <2>6. image' = [image EXCEPT ![File(r)] = i]
    BY <2>1, <2>3
  <2>7. Images' = Images \cup {File(r)}
    BY <2>2, <2>5, <2>6 DEF Images, Types, FilesTypeOK
  <2>. QED
    BY <2>1, <2>7
<1>. QED
  BY <1>1, <1>2

\* Only CreateImage makes an image.
LEMMA NewImage ==
    ASSUME Types, NEW r \in Request, RequestActs(r)
    PROVE  \/ UNCHANGED image /\ Images' = Images
           \/ /\ r \in Upload /\ CreateImage(r) /\ Images' = Images \cup {File(r)}
              /\ NextFile(r) /\ UNCHANGED <<asset, objects, raced>>
<1>1. CASE r \in Upload /\ CreateImage(r)
  BY <1>1, CreateLinks DEF CreateImage, fileGhosts, Images
<1>2. CASE ~ (r \in Upload /\ CreateImage(r))
  <2>1. UNCHANGED image
    BY <1>2 DEF RequestActs, StoreFile, LinkImage, BeginUpload, StoreInternal, Stage, CreateAsset,
     UndoStage, ChooseName, UploadRemote, Switch, Unstage, AuditStored, Retract, MarkFailed, Aggregate,
     DeleteStored, MarkDeleted, RecordUpload, rows
  <2>. QED
    BY <2>1 DEF Images
<1>. QED
  BY <1>1, <1>2

\* A file of a request is past when the request goes on to the next one.
LEMMA NextIsPast ==
    ASSUME Types, NEW r \in Request, NextFile(r),
           NEW i \in DOMAIN FilesOf[r], i = req[r].at, NEW f \in Asset, f = File(r)
    PROVE  /\ Past(r, i)' /\ Settled(f)'
           /\ i < req'[r].at \/ (i = req'[r].at /\ req'[r].pc = "record")
<1>1. i < req'[r].at \/ (i = req'[r].at /\ req'[r].pc = "record")
  BY DEF NextFile, ReqGoes, Types, RequestsOK
<1>2. Past(r, i)'
  BY <1>1 DEF Past
<1>3. ASSUME NEW q \in Request, NEW j \in DOMAIN FilesOf[q], f = FilesOf[q][j]
      PROVE  Past(q, j)'
  <2>1. q = r /\ j = i
    BY <1>3, OwnFile DEF Types
  <2>. QED
    BY <1>2, <2>1
<1>. QED
  BY <1>1, <1>2, <1>3 DEF Settled

\* A file that is being deleted stays so.
LEMMA BeingDeletedStays ==
    ASSUME Types, [FilesNext]_filesVars
    PROVE  BeingDeleted \subseteq BeingDeleted'
<1> SUFFICES ASSUME NEW d \in Deletion, del[d].pc \notin {"new", "content"}
             PROVE  del'[d].pc \notin {"new", "content"} /\ del'[d].target = del[d].target
  BY DEF BeingDeleted
<1>1. ASSUME NEW e \in Deletion, Delete(e)
      PROVE  del'[d].pc \notin {"new", "content"} /\ del'[d].target = del[d].target
  <2>1. CASE e # d
    BY <1>1, <2>1, DeletionFrame
  <2>2. CASE e = d
    <3>1. PICK pc \in {"record", "failed", "answered"} : DelGoes(d, pc)
      BY <1>1, <2>2 DEF Delete, ReadTarget, DeleteContent, DeleteRows, RecordDeletion
    <3>. QED
      BY <3>1 DEF DelGoes, Types, DeletionsOK
  <2>. QED
    BY <2>1, <2>2
<1>2. CASE (\E r \in Request : RequestActs(r)) \/ Around
  BY <1>2, RequestFrame, AroundFrame
<1>3. CASE ServerStops
  BY <1>3, StopFrame DEF Ended
<1>. QED
  BY <1>1, <1>2, <1>3, FileKinds

\* The files of uploads are not those of backups.
LEMMA UploadsAreNotInternal ==
    ASSUME NEW f, UploadFile(f)
    PROVE  \A r \in Internal : f # FilesOf[r][1]
<1>1. \A r \in Internal : 1 \in DOMAIN FilesOf[r]
  BY FileStorageAssumption DEF Request
<1>. QED
  BY <1>1, FileStorageAssumption DEF UploadFile, Request

\* Images are settled and SYNCED: only CreateImage makes one, only DeleteRows ends one.
LEMMA ImagesStep ==
    Types /\ (\A r \in Request : RequestRow(r)) /\ ImagesSettled /\ TargetsSettled /\ [FilesNext]_filesVars
        => ImagesSettled'
<1> SUFFICES ASSUME Types, \A r \in Request : RequestRow(r), ImagesSettled, TargetsSettled,
                    [FilesNext]_filesVars, NEW f \in Asset, f \in Images'
             PROVE  Settled(f)' /\ asset'[f].status = "SYNCED" /\ UploadFile(f)
  BY DEF ImagesSettled, Images, UploadFile
<1>1. ASSUME NEW r \in Request, RequestActs(r)
      PROVE  Settled(f)' /\ asset'[f].status = "SYNCED" /\ UploadFile(f)
  <2>1. CASE f \in Images
    <3>1. Settled(f) /\ asset[f].status = "SYNCED" /\ UploadFile(f)
      BY <2>1 DEF ImagesSettled
    <3>2. asset'[f] = asset[f]
      <4>1. CASE f # File(r)
        BY <1>1, <4>1, RequestFrame
      <4>2. CASE f = File(r)
        <5>1. req[r].pc = "record"
          BY <1>1, <3>1, <4>2, Unsettled, RequestFrame
        <5>. QED
          BY <1>1, <5>1, RequestFrame DEF rows
      <4>. QED
        BY <4>1, <4>2
    <3>. QED
      BY <3>1, <3>2, SettledStays
  <2>2. CASE f \notin Images
    <3>1. r \in Upload /\ CreateImage(r) /\ f = File(r) /\ NextFile(r) /\ UNCHANGED asset
      BY <1>1, <2>2, NewImage
    <3>2. asset[f].status = "SYNCED"
      BY <3>1 DEF CreateImage, RequestRow
    <3>3. req[r].at \in DOMAIN FilesOf[r]
      BY FileOfRequest DEF Types
    <3>4. Settled(f)'
      BY <3>1, <3>3, NextIsPast
    <3>. QED
      BY <3>1, <3>2, <3>3, <3>4 DEF UploadFile, File
  <2>. QED
    BY <2>1, <2>2
<1>2. ASSUME NEW d \in Deletion, Delete(d)
      PROVE  Settled(f)' /\ asset'[f].status = "SYNCED" /\ UploadFile(f)
  <2>1. CASE UNCHANGED rows
    BY <2>1, SettledStays DEF ImagesSettled, Images, rows
  <2>2. CASE ~ UNCHANGED rows
    <3>1. DeleteRows(d)
      BY <1>2, <2>2 DEF Delete, ReadTarget, DeleteContent, RecordDeletion
    <3>2. del[d].target \in Asset
      BY <3>1 DEF DeleteRows, Types, DeletionsOK
    <3>3. CASE f = del[d].target
      <4>1. f \notin Images
        <5>1. CASE f \in Images
          <6>1. image' = Promoted(f, del[d].primary)
            BY <2>2, <3>1, <3>3, <5>1, UploadsAreNotInternal DEF DeleteRows, ImagesSettled
          <6>2. Images' = Images \ {f}
            BY <6>1, PromotedImage
          <6>. QED
            BY <6>2
        <5>. QED
          BY <5>1
      <4>2. UNCHANGED image
        BY <3>1, <3>3, <4>1 DEF DeleteRows, rows
      <4>. QED
        BY <4>1, <4>2 DEF Images
    <3>4. CASE f # del[d].target
      BY <1>2, <2>2, <3>4, DeletionFrame, SettledStays DEF ImagesSettled
    <3>. QED
      BY <3>3, <3>4
  <2>. QED
    BY <2>1, <2>2
<1>3. CASE Around \/ ServerStops
  BY <1>3, AroundFrame, StopFrame, SettledStays DEF ImagesSettled, Images, rows
<1>. QED
  BY <1>1, <1>2, <1>3, FileKinds

\* A deletion is of a settled file.
LEMMA TargetsStep ==
    Types /\ ImagesSettled /\ TargetsSettled /\ [FilesNext]_filesVars => TargetsSettled'
<1> SUFFICES ASSUME Types, ImagesSettled, TargetsSettled, [FilesNext]_filesVars,
                    NEW d \in Deletion, NEW f, f = del'[d].target, f # NoFile
             PROVE  Settled(f)' /\ (UploadFile(f) => asset'[f].status \in {"SYNCED", "DELETED"})
  BY DEF TargetsSettled, Settled, UploadFile, Past
<1> DEFINE Goal == Settled(f)' /\ (UploadFile(f) => asset'[f].status \in {"SYNCED", "DELETED"})
<1>0. DeletionsOK /\ asset \in [Asset -> [status : {"ABSENT", "UPLOADING", "SYNCED", "FAILED", "DELETED"},
                            provider : {"MOCK_LOCAL", "ONEDRIVE"},
                            item : Asset \cup {NoFile}]]
  BY DEF Types, FilesTypeOK
<1>1. ASSUME NEW r \in Request, RequestActs(r)
      PROVE  Goal
  <2>1. f = del[d].target /\ f \in Asset /\ Settled(f)
        /\ (UploadFile(f) => asset[f].status \in {"SYNCED", "DELETED"})
    BY <1>0, <1>1, RequestFrame DEF TargetsSettled, DeletionsOK
  <2>2. asset'[f] = asset[f]
    <3>1. CASE f # File(r)
      BY <1>1, <2>1, <3>1, RequestFrame
    <3>2. CASE f = File(r)
      <4>1. req[r].pc = "record"
        BY <1>1, <2>1, <3>2, Unsettled, RequestFrame
      <4>. QED
        BY <1>1, <4>1, RequestFrame DEF rows
    <3>. QED
      BY <3>1, <3>2
  <2>. QED
    BY <2>1, <2>2, SettledStays
<1>2. ASSUME NEW e \in Deletion, Delete(e)
      PROVE  Goal
  <2>1. CASE e = d /\ ReadTarget(d)
    <3>1. PICK g \in Deletable : del' = [del EXCEPT ![d] = [pc |-> "content", target |-> g,
                                        primary |-> g \in Images /\ image[g].primary]]
      BY <2>1 DEF ReadTarget
    <3>2. f = g
      BY <1>0, <3>1 DEF DeletionsOK
    <3>3. UNCHANGED asset
      BY <2>1 DEF ReadTarget, rows
    <3>4. CASE f \in Images
      BY <3>3, <3>4, SettledStays DEF ImagesSettled
    <3>5. CASE f \notin Images
      <4>1. PICK r \in Internal : f = FilesOf[r][1] /\ req[r].pc = "answered"
        BY <3>2, <3>5 DEF Deletable
      <4>2. r \in Request /\ 1 \in DOMAIN FilesOf[r] /\ req[r].at = 1
        BY FileStorageAssumption DEF Request, Types, RequestsOK
      <4>3. Settled(f)
        <5>1. File(r) = f
          BY <4>1, <4>2 DEF File
        <5>. QED
          BY <4>1, <4>2, <5>1, OwnFile DEF Settled, Past, Types
      <4>. QED
        BY <4>1, <4>3, SettledStays, UploadsAreNotInternal
    <3>. QED
      BY <3>4, <3>5
  <2>2. CASE ~ (e = d /\ ReadTarget(d))
    <3>1. f = del[d].target /\ f \in Asset /\ Settled(f)
          /\ (UploadFile(f) => asset[f].status \in {"SYNCED", "DELETED"})
      BY <1>0, <1>2, <2>2, DeletionFrame DEF TargetsSettled, DeletionsOK
    <3>2. asset'[f].status \in {asset[f].status, "DELETED"}
      BY <1>0, <1>2, <3>1 DEF Delete, ReadTarget, DeleteContent, DeleteRows, RecordDeletion, SetStatus, rows
    <3>. QED
      BY <3>1, <3>2, SettledStays
  <2>. QED
    BY <2>1, <2>2
<1>3. CASE Around \/ ServerStops
  BY <1>3, AroundFrame, StopFrame, SettledStays DEF TargetsSettled, rows
<1>. QED
  BY <1>1, <1>2, <1>3, FileKinds

\* The local object of an image stays until a deletion reaches for it.
LEMMA LocalKeptStep ==
    Types /\ (\A r \in Request : RequestRow(r)) /\ ImagesSettled /\ LocalKept
          /\ [FilesNext]_filesVars => LocalKept'
<1> SUFFICES ASSUME Types, \A r \in Request : RequestRow(r), ImagesSettled, LocalKept,
                    [FilesNext]_filesVars, NEW f \in Asset, f \in Images', f \notin BeingDeleted',
                    asset'[f].provider = "MOCK_LOCAL"
             PROVE  f \in mock'
  BY DEF LocalKept, Images
<1>0. f \notin BeingDeleted
  BY BeingDeletedStays
<1>1. ASSUME NEW r \in Request, RequestActs(r)
      PROVE  f \in mock'
  <2>1. CASE f \in Images
    <3>1. asset'[f] = asset[f] /\ (f \in mock' <=> f \in mock)
      <4>1. CASE f # File(r)
        BY <1>1, <4>1, RequestFrame
      <4>2. CASE f = File(r)
        <5>1. req[r].pc = "record"
          BY <1>1, <2>1, <4>2, Unsettled, RequestFrame DEF ImagesSettled
        <5>. QED
          BY <1>1, <5>1, RequestFrame DEF rows, objects
      <4>. QED
        BY <4>1, <4>2
    <3>. QED
      BY <1>0, <2>1, <3>1 DEF LocalKept
  <2>2. CASE f \notin Images
    <3>1. CreateImage(r) /\ f = File(r) /\ UNCHANGED <<asset, objects>>
      BY <1>1, <2>2, NewImage
    <3>. QED
      BY <3>1 DEF CreateImage, RequestRow, objects
  <2>. QED
    BY <2>1, <2>2
<1>2. ASSUME NEW d \in Deletion, Delete(d)
      PROVE  f \in mock'
  <2>1. CASE ReadTarget(d)
    BY <1>0, <2>1 DEF ReadTarget, LocalKept, rows, objects, Images
  <2>2. CASE ~ ReadTarget(d)
    <3>1. f # del'[d].target
      <4>1. del'[d].pc \in {"rows", "record", "answered", "failed"}
        BY <1>2, <2>2 DEF Delete, DeleteContent, DeleteRows, RecordDeletion, DelGoes, Types, DeletionsOK
      <4>. QED
        BY <4>1 DEF BeingDeleted
    <3>2. f # del[d].target
      BY <1>2, <2>2, <3>1, DeletionFrame
    <3>3. f \in Images /\ asset'[f] = asset[f] /\ (f \in mock' <=> f \in mock)
      BY <1>2, <2>2, <3>2, DeletionFrame
    <3>. QED
      BY <1>0, <3>3 DEF LocalKept
  <2>. QED
    BY <2>1, <2>2
<1>3. CASE Around \/ ServerStops
  BY <1>0, <1>3, AroundFrame, StopFrame DEF LocalKept, Images, rows, objects
<1>. QED
  BY <1>1, <1>2, <1>3, FileKinds

\* Images leave with their deletion only.
LEMMA ImagesLeave ==
    ASSUME Types, [FilesNext]_filesVars, NEW f \in Images \cup BeingDeleted
    PROVE  f \in Images' \cup BeingDeleted'
<1> SUFFICES ASSUME f \in Images, f \notin Images' PROVE f \in BeingDeleted'
  BY BeingDeletedStays
<1>1. PICK d \in Deletion : Delete(d)
  <2>1. CASE \E r \in Request : RequestActs(r)
    BY <2>1, NewImage
  <2>2. CASE Around \/ ServerStops
    BY <2>2, AroundFrame, StopFrame DEF Images, rows
  <2>. QED
    BY <2>1, <2>2, FileKinds
<1>2. f \in Asset
  BY DEF Images
<1>3. DeleteRows(d) /\ ~ UNCHANGED image
  BY <1>1 DEF Delete, ReadTarget, DeleteContent, RecordDeletion, rows, Images
<1>4. f = del[d].target
  BY <1>1, <1>2, <1>3, DeletionFrame DEF Images, rows
<1>5. del'[d].target = f /\ del'[d].pc = "record"
  BY <1>3, <1>4 DEF DeleteRows, DelGoes, rows, Types, DeletionsOK
<1>. QED
  BY <1>5 DEF BeingDeleted

\* What was linked stays linked, or is being deleted.
LEMMA LinkedStep == Types /\ Linked /\ [FilesNext]_filesVars => Linked'
<1> SUFFICES ASSUME Types, Linked, [FilesNext]_filesVars,
                    NEW r \in Upload, NEW i \in DOMAIN FilesOf[r],
                    i < req'[r].at \/ (i = req'[r].at /\ req'[r].pc \in {"record", "answered"})
             PROVE  FilesOf[r][i] \in Images' \cup BeingDeleted'
  BY DEF Linked
<1>0. /\ r \in Request /\ RequestsOK /\ req[r].at \in Nat /\ i \in Nat
      /\ req[r].at \in DOMAIN FilesOf[r]
  BY FileStorageAssumption DEF Types, RequestsOK, Request
<1>1. CASE i < req[r].at \/ (i = req[r].at /\ req[r].pc \in {"record", "answered"})
  BY <1>1, ImagesLeave DEF Linked
<1>2. CASE ~ (i < req[r].at \/ (i = req[r].at /\ req[r].pc \in {"record", "answered"}))
  <2>1. RequestActs(r)
    <3>1. req'[r] # req[r]
      BY <1>0, <1>2
    <3>2. ASSUME ServerStops PROVE FALSE
      BY <1>0, <1>2, <3>2, StopFrame DEF Ended
    <3>. QED
      BY <1>0, <3>1, <3>2, FileKinds, RequestFrame, DeletionFrame, AroundFrame
  <2>2. CreateImage(r) /\ NextFile(r) /\ i = req[r].at
    <3>1. CASE req'[r].at = req[r].at
      <4>1. req'[r].pc \in {"record", "answered"} /\ i = req[r].at /\ req[r].pc \notin {"record", "answered"}
        BY <1>0, <1>2, <3>1
      <4>2. req[r].pc = "create"
        BY <1>0, <2>1, <4>1, RequestFollows DEF Before, RequestPc, RequestsOK
      <4>3. CreateImage(r) /\ ~ ReqGoes(r, "unlink")
        BY <1>0, <2>1, <4>1, <4>2, StepAt, GoesOwn
      <4>. QED
        BY <4>1, <4>3 DEF CreateImage
    <3>2. CASE req'[r].at # req[r].at
      <4>1. CreateImage(r) /\ req'[r].at = req[r].at + 1
        BY <1>0, <2>1, <3>2, RequestPlace
      <4>2. ~ ReqGoes(r, "unlink")
        BY <1>0, <3>2, GoesOwn
      <4>3. req'[r].pc = "store"
        BY <1>0, <2>1, <3>2, RequestPlace
      <4>. QED
        BY <1>0, <1>2, <4>1, <4>2, <4>3 DEF CreateImage
    <3>. QED
      BY <3>1, <3>2
  <2>3. FilesOf[r][i] \in Images'
    <3>1. ~ ReqGoes(r, "unlink")
      <4>1. req'[r].pc \in {"store", "record"}
        BY <1>0, <2>2 DEF NextFile, ReqGoes, RequestsOK
      <4>. QED
        BY <1>0, <4>1, GoesOwn
    <3>. QED
      BY <2>2, <3>1, CreateLinks DEF File
  <2>. QED
    BY <2>3
<1>. QED
  BY <1>1, <1>2

\* The staged copy stays as long as the row says UPLOADING or FAILED.
LEMMA StagedStep ==
    /\ Types /\ FilesWait /\ TargetsSettled /\ (\A r \in Request : RequestRow(r))
    /\ StagedUntilSynced /\ [FilesNext]_filesVars
    => StagedUntilSynced'
<1> SUFFICES ASSUME Types, FilesWait, TargetsSettled, \A r \in Request : RequestRow(r),
                    StagedUntilSynced, [FilesNext]_filesVars,
                    NEW r \in Upload, NEW i \in DOMAIN FilesOf[r], NEW f, f = FilesOf[r][i],
                    asset'[f].status \in {"UPLOADING", "FAILED"}
             PROVE  f \in mock'
  BY DEF StagedUntilSynced
<1>0. /\ r \in Request /\ f \in Asset /\ UploadFile(f)
      /\ asset[f].status \in {"UPLOADING", "FAILED"} => f \in mock
  BY FileStorageAssumption DEF StagedUntilSynced, Request, UploadFile
<1>1. ASSUME NEW q \in Request, RequestActs(q)
      PROVE  f \in mock'
  <2>1. CASE f # File(q)
    BY <1>0, <1>1, <2>1, RequestFrame
  <2>2. CASE f = File(q)
    <3>1. q = r
      BY <1>0, <2>2, OwnFile DEF Types
    <3>. QED
      BY <1>0, <1>1, <2>2, <3>1, OwnRowStep
  <2>. QED
    BY <2>1, <2>2
<1>2. ASSUME NEW d \in Deletion, Delete(d)
      PROVE  f \in mock'
  <2>1. CASE UNCHANGED <<rows, objects>>
    BY <1>0, <2>1 DEF rows, objects
  <2>2. CASE ~ UNCHANGED <<rows, objects>>
    <3>1. f # del[d].target
      <4>1. SUFFICES ASSUME f = del[d].target PROVE FALSE
        OBVIOUS
      <4>2. asset[f].status \in {"SYNCED", "DELETED"}
        BY <1>0, <4>1, FileStorageAssumption DEF TargetsSettled
      <4>3. asset'[f].status \in {asset[f].status, "DELETED"}
        BY <1>0, <1>2 DEF Delete, ReadTarget, DeleteContent, DeleteRows, RecordDeletion, SetStatus, rows,
           Types, FilesTypeOK
      <4>. QED
        BY <4>2, <4>3
    <3>. QED
      BY <1>0, <1>2, <2>2, <3>1, DeletionFrame
  <2>. QED
    BY <2>1, <2>2
<1>3. CASE Around \/ ServerStops
  BY <1>0, <1>3, AroundFrame, StopFrame DEF rows, objects
<1>. QED
  BY <1>1, <1>2, <1>3, FileKinds

(***************************************************************************)
(* The gallery.                                                            *)
(***************************************************************************)

\* The images can be counted.
LEMMA ImagesFinite ==
    ASSUME Types
    PROVE  /\ IsFiniteSet(Images) /\ Cardinality(Images) \in Nat
           /\ Cardinality(Images) = 0 <=> Images = {}
           /\ \A f : f \notin Images => Cardinality(Images \cup {f}) = Cardinality(Images) + 1
BY FileStorageAssumption, FS_Subset, FS_CardinalityType, FS_EmptySet, FS_AddElement DEF Images

\* An overlap is remembered.
LEMMA RacedGrows ==
    ASSUME [FilesNext]_filesVars, raced
    PROVE  raced'
<1>1. ASSUME NEW r \in Request, RequestActs(r)
      PROVE  raced'
  BY <1>1 DEF RequestActs, StoreFile, LinkImage, BeginUpload, StoreInternal, Stage, CreateAsset,
     UndoStage, ChooseName, UploadRemote, Switch, Unstage, AuditStored, Retract, MarkFailed, Aggregate,
     CreateImage, DeleteStored, MarkDeleted, RecordUpload, fileGhosts
<1>2. ASSUME NEW d \in Deletion, Delete(d)
      PROVE  raced'
  BY <1>2 DEF Delete, ReadTarget, DeleteContent, DeleteRows, RecordDeletion, fileGhosts
<1>. QED
  BY <1>1, <1>2, FileKinds DEF Around, ConnectionChanges, DeactivateProduct, ServerStops, filesVars,
     fileGhosts

\* Deletions of images in progress.
Deleting(d) == del[d].pc \notin Ended /\ del[d].target \in Images

\* Rows are deleted by a deletion in progress.
LEMMA RowsGone ==
    ASSUME Types, ImagesSettled, NEW d \in Deletion, Delete(d)
    PROVE  \/ UNCHANGED image /\ Images' = Images
           \/ /\ DeleteRows(d) /\ Deleting(d) /\ del'[d].pc = "record"
              /\ del[d].target \in Asset
              /\ image' = Promoted(del[d].target, del[d].primary)
              /\ Images' = Images \ {del[d].target}
<1>1. CASE UNCHANGED image
  BY <1>1 DEF Images
<1>2. CASE ~ UNCHANGED image
  <2>1. DeleteRows(d)
    BY <1>2 DEF Delete, ReadTarget, DeleteContent, RecordDeletion, rows
  <2>2. /\ del[d].target \in Images /\ image' = Promoted(del[d].target, del[d].primary)
        /\ DelGoes(d, "record")
    BY <1>2, <2>1 DEF DeleteRows, rows
  <2>3. del[d].target \in Asset
    BY <2>2 DEF Images
  <2>4. Images' = Images \ {del[d].target}
    BY <2>2, <2>3, PromotedImage
  <2>5. del'[d].pc = "record" /\ Deleting(d)
    BY <2>1, <2>2 DEF DeleteRows, Deleting, DelGoes, Ended, Types, DeletionsOK
  <2>. QED
    BY <2>1, <2>2, <2>3, <2>4, <2>5
<1>. QED
  BY <1>1, <1>2

\* Who is in progress was so before, unless it has just begun.
LEMMA BeginsOnce ==
    ASSUME Types, TargetsSettled, ImagesSettled, [FilesNext]_filesVars
    PROVE  /\ \A u \in Upload : req'[u].pc \notin Ended =>
                 req[u].pc \notin Ended \/ (BeginUpload(u) /\ RequestActs(u))
           /\ \A d \in Deletion : Deleting(d)' => Deleting(d) \/ (ReadTarget(d) /\ Delete(d))
<1>1. ASSUME NEW u \in Upload, req'[u].pc \notin Ended, req[u].pc \in Ended
      PROVE  BeginUpload(u) /\ RequestActs(u)
  <2>1. u \in Request /\ req'[u] # req[u] /\ Upload \cap Internal = {}
    BY <1>1, FileStorageAssumption DEF Request
  <2>2. ~ ServerStops
    BY <1>1, <2>1, StopFrame DEF Ended
  <2>3. RequestActs(u)
    BY <2>1, <2>2, FileKinds, RequestFrame, DeletionFrame, AroundFrame
  <2>4. req[u].pc = "new"
    BY <1>1, <2>1, <2>3, RequestFrame DEF Ended
  <2>. QED
    BY <2>1, <2>3, <2>4 DEF RequestActs, StoreFile, LinkImage, StoreInternal, Stage, CreateAsset,
     UndoStage, ChooseName, UploadRemote, Switch, Unstage, AuditStored, Retract, MarkFailed, Aggregate,
     CreateImage, DeleteStored, MarkDeleted, RecordUpload
<1>2. ASSUME NEW d \in Deletion, Deleting(d)'
      PROVE  Deleting(d) \/ (ReadTarget(d) /\ Delete(d))
  <2>0. DeletionsOK /\ NoFile \notin Asset
    BY FileStorageAssumption DEF Types
  <2>d. del'[d].pc \notin Ended /\ del'[d].target \in Images' /\ del'[d].target \in Asset
    BY <1>2 DEF Deleting, Images
  <2>1. ASSUME NEW r \in Request, RequestActs(r)
        PROVE  Deleting(d)
    <3>1. del' = del
      BY <2>1, RequestFrame
    <3>2. Settled(del[d].target)
      BY <2>0, <2>d, <3>1 DEF TargetsSettled
    <3>3. CASE Images' = Images
      BY <2>d, <3>1, <3>3 DEF Deleting
    <3>4. CASE r \in Upload /\ CreateImage(r) /\ Images' = Images \cup {File(r)}
      <4>1. ~ Settled(File(r))
        BY <3>4, Unsettled DEF CreateImage
      <4>. QED
        BY <2>d, <3>1, <3>2, <3>4, <4>1 DEF Deleting
    <3>. QED
      BY <2>1, <3>3, <3>4, NewImage
  <2>2. ASSUME NEW e \in Deletion, Delete(e), ~ (e = d /\ ReadTarget(d))
        PROVE  Deleting(d)
    <3>1. del'[d].target = del[d].target /\ Images' \subseteq Images
      BY <2>2, DeletionFrame, RowsGone
    <3>2. del[d].pc \notin Ended
      <4>1. CASE e # d
        BY <2>2, <2>d, <4>1, DeletionFrame
      <4>2. CASE e = d
        BY <2>2, <4>2 DEF Delete, DeleteContent, DeleteRows, RecordDeletion, Ended
      <4>. QED
        BY <4>1, <4>2
    <3>. QED
      BY <2>d, <3>1, <3>2 DEF Deleting
  <2>3. CASE Around \/ ServerStops
    BY <2>3, <2>d, AroundFrame, StopFrame DEF Deleting, Images, rows, Ended
  <2>. QED
    BY <2>1, <2>2, <2>3, FileKinds
<1>. QED
  BY <1>1, <1>2

\* Without an overlap one request about the images is in progress.
LEMMA OneAtATimeStep ==
    Types /\ TargetsSettled /\ ImagesSettled /\ OneAtATime /\ ~ raced' /\ [FilesNext]_filesVars => OneAtATime'
<1> SUFFICES ASSUME Types, TargetsSettled, ImagesSettled, OneAtATime, ~ raced', [FilesNext]_filesVars
             PROVE  OneAtATime'
  OBVIOUS
<1>0. /\ \A u, v \in Upload : req[u].pc \notin Ended /\ req[v].pc \notin Ended => u = v
      /\ \A u \in Upload, d \in Deletion : ~ (req[u].pc \notin Ended /\ Deleting(d))
      /\ \A d, e \in Deletion : Deleting(d) /\ Deleting(e) => d = e
  BY DEF OneAtATime, Deleting
<1>s. SUFFICES
        /\ \A u, v \in Upload : req'[u].pc \notin Ended /\ req'[v].pc \notin Ended => u = v
        /\ \A u \in Upload, d \in Deletion : ~ (req'[u].pc \notin Ended /\ Deleting(d)')
        /\ \A d, e \in Deletion : Deleting(d)' /\ Deleting(e)' => d = e
  BY DEF OneAtATime, Deleting
<1>d. Upload \cap Deletion = {} /\ Upload \subseteq Request
  BY FileStorageAssumption DEF Request
<1>1. ASSUME NEW r \in Upload, BeginUpload(r), RequestActs(r)
      PROVE  /\ \A u \in Upload : u # r => req[u].pc \in Ended
             /\ \A u \in Upload : u # r => ~ (BeginUpload(u) /\ RequestActs(u))
             /\ \A d \in Deletion : ~ Deleting(d) /\ ~ (ReadTarget(d) /\ Delete(d))
  <2>1. ~ Overlaps(r)
    BY <1>1 DEF BeginUpload
  <2>2. /\ \A u \in Upload : u # r => req[u].pc \in Ended
        /\ \A d \in Deletion : ~ Deleting(d)
    BY <1>d, <2>1 DEF Overlaps, Deleting
  <2>3. \A u \in Upload : u # r => req'[u] = req[u]
    BY <1>1, <1>d, RequestFrame
  <2>4. req'[r] # req[r] /\ del' = del
    BY <1>1, <1>d, GoesOwn DEF BeginUpload, Types
  <2>5. \A u \in Upload : u # r => ~ (BeginUpload(u) /\ RequestActs(u))
    BY <1>d, <2>3, GoesOwn DEF BeginUpload, Types
  <2>6. \A d \in Deletion : ~ Delete(d)
    BY <2>4, <1>d, DeletionFrame
  <2>. QED
    BY <2>2, <2>5, <2>6
<1>2. ASSUME NEW d \in Deletion, ReadTarget(d), Delete(d), Deleting(d)'
      PROVE  /\ \A u \in Upload : req[u].pc \in Ended /\ ~ (BeginUpload(u) /\ RequestActs(u))
             /\ \A e \in Deletion : e # d => ~ Deleting(e) /\ ~ (ReadTarget(e) /\ Delete(e))
  <2>1. del'[d].target \in Images
    BY <1>2 DEF Deleting, ReadTarget, rows, Images
  <2>2. PICK f \in Deletable : /\ del' = [del EXCEPT ![d] = [pc |-> "content", target |-> f,
                                           primary |-> f \in Images /\ image[f].primary]]
                               /\ raced' = (raced \/ (f \in Images /\ Overlaps(d)))
    BY <1>2 DEF ReadTarget
  <2>3. del'[d].target = f /\ del'[d].pc = "content"
    BY <2>2 DEF Types, DeletionsOK
  <2>4. ~ Overlaps(d)
    BY <2>1, <2>2, <2>3
  <2>5. /\ \A u \in Upload : req[u].pc \in Ended
        /\ \A e \in Deletion : e # d => ~ Deleting(e)
    BY <1>d, <2>4 DEF Overlaps, Deleting
  <2>6. del[d].pc = "new" /\ req' = req /\ \A e \in Deletion : e # d => del'[e] = del[e]
    BY <1>2, DeletionFrame DEF ReadTarget
  <2>7. \A u \in Upload : ~ (BeginUpload(u) /\ RequestActs(u))
    BY <1>d, <2>3, <2>6, RequestFrame
  <2>8. \A e \in Deletion : e # d => ~ (ReadTarget(e) /\ Delete(e))
    BY <2>3, <2>6, DeletionFrame
  <2>. QED
    BY <2>5, <2>7, <2>8
<1>3. \A u, v \in Upload : req'[u].pc \notin Ended /\ req'[v].pc \notin Ended => u = v
  BY <1>0, <1>1, BeginsOnce
<1>4. \A u \in Upload, d \in Deletion : ~ (req'[u].pc \notin Ended /\ Deleting(d)')
  BY <1>0, <1>1, <1>2, BeginsOnce
<1>5. \A d, e \in Deletion : Deleting(d)' /\ Deleting(e)' => d = e
  BY <1>0, <1>2, BeginsOnce
<1>. QED
  BY <1>3, <1>4, <1>5

\* Who changes the images while nobody else is at it.
LEMMA ImagesChange ==
    ASSUME Types, ImagesSettled, [FilesNext]_filesVars
    PROVE  \/ UNCHANGED image /\ Images' = Images
           \/ \E r \in Upload :
                 /\ RequestActs(r) /\ req[r].pc = "create" /\ NextFile(r)
                 /\ Images' = Images \cup {File(r)} /\ ~ Settled(File(r)) /\ File(r) \in Asset
                 /\ image' = [image EXCEPT ![File(r)] = [sort |-> req[r].max + 1, primary |-> req[r].count = 0]]
           \/ \E d \in Deletion :
                 /\ Delete(d) /\ DeleteRows(d) /\ Deleting(d) /\ del'[d].pc = "record"
                 /\ del[d].target \in Asset
                 /\ image' = Promoted(del[d].target, del[d].primary)
                 /\ Images' = Images \ {del[d].target}
<1>1. ASSUME NEW r \in Request, RequestActs(r), ~ (UNCHANGED image /\ Images' = Images)
      PROVE  /\ r \in Upload /\ req[r].pc = "create" /\ NextFile(r)
             /\ Images' = Images \cup {File(r)} /\ ~ Settled(File(r)) /\ File(r) \in Asset
             /\ image' = [image EXCEPT ![File(r)] = [sort |-> req[r].max + 1, primary |-> req[r].count = 0]]
  <2>1. r \in Upload /\ CreateImage(r) /\ ~ UNCHANGED image
    BY <1>1, NewImage DEF Images
  <2>2. req[r].pc = "create"
    BY <2>1 DEF CreateImage
  <2>3. ~ Settled(File(r)) /\ File(r) \in Asset
    BY <2>2, Unsettled, FileOfRequest DEF Types
  <2>. QED
    BY <2>1, <2>2, <2>3, CreateLinks
<1>2. CASE Around \/ ServerStops
  BY <1>2, AroundFrame, StopFrame DEF Images, rows
<1>. QED
  BY <1>1, <1>2, FileKinds, RowsGone

\* Without an overlap the images stay within the limit.
LEMMA LimitedStep ==
    Types /\ ImagesSettled /\ TargetsSettled /\ OneAtATime /\ Limited /\ ~ raced' /\ [FilesNext]_filesVars => Limited'
<1> SUFFICES ASSUME Types, ImagesSettled, TargetsSettled, OneAtATime, Limited, ~ raced', [FilesNext]_filesVars
             PROVE  Limited'
  OBVIOUS
<1>0. /\ Upload \subseteq Request /\ MaxImages \in Nat /\ Cardinality(Images) \in Nat
      /\ \A u \in Upload : /\ Len(FilesOf[u]) \in Nat /\ req[u].at \in 1..Len(FilesOf[u])
                           /\ FilesOf[u] \in Seq(Asset)
  <2>1. \A u \in Upload : FilesOf[u] \in Seq(Asset) /\ req[u].at \in DOMAIN FilesOf[u]
    BY FileStorageAssumption DEF Types, RequestsOK, Request
  <2>. QED
    BY <2>1, FileStorageAssumption, ImagesFinite DEF Request
<1> DEFINE Room(u) == Cardinality(Images) + Len(FilesOf[u]) - req[u].at + 1 <= MaxImages
<1>1. ASSUME NEW u \in Upload, req'[u].pc \notin Ended \cup {"record"}, Images' = Images
      PROVE  Room(u)'
  <2>1. CASE req[u].pc \in Ended
    <3>1. BeginUpload(u) /\ RequestActs(u)
      BY <1>1, <2>1, BeginsOnce
    <3>2. ReqGoes(u, IF active /\ WithinLimit(u) THEN "store" ELSE "failed") /\ req[u].pc = "new"
      BY <3>1 DEF BeginUpload
    <3>3. req'[u].at = 1 /\ WithinLimit(u)
      BY <1>0, <1>1, <3>2, GoesOwn DEF Types, RequestsOK, Ended
    <3>. QED
      BY <1>0, <1>1, <3>3 DEF WithinLimit
  <2>2. CASE req[u].pc \notin Ended
    <3>1. req'[u].at = req[u].at
      <4>1. CASE RequestActs(u)
        <5>1. ASSUME CreateImage(u), req'[u].at = req[u].at + 1 PROVE FALSE
          <6>1. ~ ReqGoes(u, "unlink")
            BY <1>0, <5>1, GoesOwn DEF Types
          <6>2. File(u) \in Images'
            BY <5>1, <6>1, CreateLinks
          <6>3. ~ Settled(File(u))
            BY <1>0, <5>1, Unsettled DEF CreateImage
          <6>. QED
            BY <1>1, <6>2, <6>3 DEF ImagesSettled
        <5>. QED
          BY <1>0, <4>1, <5>1, RequestPlace
      <4>2. CASE ~ RequestActs(u)
        BY <1>0, <4>2, FileKinds, RequestFrame, DeletionFrame, AroundFrame, StopFrame
      <4>. QED
        BY <4>1, <4>2
    <3>2. req[u].pc # "record"
      <4>1. ASSUME req[u].pc = "record" PROVE req'[u].pc \in {"record", "answered", "failed"}
        BY <1>0, <4>1, FileKinds, RequestFrame, DeletionFrame, AroundFrame, StopFrame
      <4>. QED
        BY <1>1, <4>1 DEF Ended
    <3>3. Room(u)
      BY <2>2, <3>2 DEF Limited, RoomLeft
    <3>. QED
      BY <1>1, <3>1, <3>3
  <2>. QED
    BY <2>1, <2>2
<1>2. CASE Images' = Images
  BY <1>1, <1>2 DEF Limited, RoomLeft
<1>3. ASSUME NEW r \in Upload, RequestActs(r), req[r].pc = "create", NextFile(r),
             Images' = Images \cup {File(r)}, ~ Settled(File(r)), File(r) \in Asset
      PROVE  Limited'
  <2>1. Cardinality(Images') = Cardinality(Images) + 1
    BY <1>3, ImagesFinite DEF ImagesSettled
  <2>2. Room(r)
    BY <1>3 DEF Limited, RoomLeft, Ended
  <2>3. Cardinality(Images') <= MaxImages
    BY <1>0, <2>1, <2>2
  <2>4. ASSUME NEW u \in Upload, req'[u].pc \notin Ended \cup {"record"}
        PROVE  Room(u)'
    <3>1. u = r
      <4>1. req[r].pc \notin Ended
        BY <1>3 DEF Ended
      <4>2. ~ BeginUpload(r)
        BY <1>3 DEF BeginUpload
      <4>3. u # r => req'[u] = req[u]
        BY <1>0, <1>3, RequestFrame
      <4>. QED
        BY <2>4, <4>1, <4>3 DEF OneAtATime
    <3>2. req'[r].at = req[r].at + 1
      BY <1>0, <1>3, <2>4, <3>1 DEF NextFile, ReqGoes, Types, RequestsOK
    <3>. QED
      BY <1>0, <2>1, <2>2, <3>1, <3>2
  <2>. QED
    BY <2>3, <2>4 DEF Limited, RoomLeft
<1>4. ASSUME NEW d \in Deletion, Deleting(d), Delete(d), Images' = Images \ {del[d].target}
      PROVE  Limited'
  <2>1. req' = req /\ \A u \in Upload : req[u].pc \in Ended
    BY <1>4, DeletionFrame DEF OneAtATime, Deleting
  <2>2. Cardinality(Images') <= Cardinality(Images) /\ Cardinality(Images') \in Nat
    BY <1>4, ImagesFinite, FS_Subset, FS_CardinalityType
  <2>. QED
    BY <1>0, <2>1, <2>2 DEF Limited, RoomLeft
<1>. QED
  BY <1>2, <1>3, <1>4, ImagesChange

\* Without an overlap nothing that was read about the images goes stale.
LEMMA CountedStep ==
    Types /\ ImagesSettled /\ TargetsSettled /\ OneAtATime /\ Counted /\ ~ raced' /\ [FilesNext]_filesVars => Counted'
<1> SUFFICES ASSUME Types, ImagesSettled, TargetsSettled, OneAtATime, Counted, ~ raced', [FilesNext]_filesVars
             PROVE  Counted'
  OBVIOUS
<1>0. Upload \subseteq Request /\ OneAtATime' /\ RequestsOK /\ RequestsOK' /\ DeletionsOK
  BY OneAtATimeStep, RequestsStep DEF Request, Types
<1>1. ASSUME NEW u \in Upload, req'[u].pc = "create"
      PROVE  req'[u].count = Cardinality(Images')
  <2>1. CASE Aggregate(u) /\ RequestActs(u)
    <3>1. Images' = Images
      BY <2>1 DEF Aggregate, Images, rows
    <3>2. PICK m : req' = [req EXCEPT ![u].pc = "create", ![u].count = Cardinality(Images), ![u].max = m]
      BY <2>1 DEF Aggregate
    <3>3. req'[u].count = Cardinality(Images)
      BY <1>0, <3>2 DEF RequestsOK
    <3>. QED
      BY <3>1, <3>3
  <2>2. CASE ~ (Aggregate(u) /\ RequestActs(u))
    <3>1. req'[u] = req[u]
      <4>1. CASE RequestActs(u)
        BY <1>0, <1>1, <2>2, <4>1, RequestFollows, StepAt DEF Before, RequestPc
      <4>2. CASE ~ RequestActs(u)
        <5>1. ~ ServerStops
          BY <1>0, <1>1, StopFrame DEF Ended
        <5>. QED
          BY <1>0, <4>2, <5>1, FileKinds, RequestFrame, DeletionFrame, AroundFrame
      <4>. QED
        BY <4>1, <4>2
    <3>2. Images' = Images
      <4>1. ASSUME NEW r \in Upload, RequestActs(r), req[r].pc = "create", NextFile(r) PROVE FALSE
        <5>1. u = r
          BY <1>1, <3>1, <4>1 DEF OneAtATime, Ended
        <5>2. req'[r].pc \in {"store", "record"}
          BY <1>0, <4>1 DEF NextFile, ReqGoes, RequestsOK
        <5>. QED
          BY <1>1, <5>1, <5>2
      <4>2. \A d \in Deletion : ~ Deleting(d)
        BY <1>1, <3>1 DEF OneAtATime, Deleting, Ended
      <4>. QED
        BY <4>1, <4>2, ImagesChange
    <3>. QED
      BY <1>1, <3>1, <3>2 DEF Counted
  <2>. QED
    BY <2>1, <2>2
<1>2. ASSUME NEW d \in Deletion, del'[d].pc \in {"content", "rows"}, del'[d].target \in Images'
      PROVE  del'[d].primary = image'[del'[d].target].primary
  <2>0. Deleting(d)'
    BY <1>2 DEF Deleting, Ended
  <2>1. CASE ReadTarget(d) /\ Delete(d)
    <3>1. PICK f \in Deletable : del' = [del EXCEPT ![d] = [pc |-> "content", target |-> f,
                                           primary |-> f \in Images /\ image[f].primary]]
      BY <2>1 DEF ReadTarget
    <3>2. del'[d].target = f /\ del'[d].primary = (f \in Images /\ image[f].primary)
      BY <1>0, <3>1 DEF DeletionsOK
    <3>3. image' = image /\ Images' = Images
      BY <2>1 DEF ReadTarget, Images, rows
    <3>4. f \in Images /\ image[f].primary \in BOOLEAN
      <4>1. f \in Images
        BY <1>2, <3>2, <3>3
      <4>2. image[f] \in [sort : Nat, primary : BOOLEAN]
        BY <4>1 DEF Types, FilesTypeOK, Images
      <4>. QED
        BY <4>1, <4>2
    <3>. QED
      BY <3>2, <3>3, <3>4
  <2>2. CASE ~ (ReadTarget(d) /\ Delete(d))
    <3>1. Deleting(d)
      BY <2>0, <2>2, BeginsOnce
    <3>2. del'[d].target = del[d].target /\ del'[d].primary = del[d].primary
      BY <2>2, FileKinds, RequestFrame, DeletionFrame, AroundFrame, StopFrame
    <3>3. UNCHANGED image
      <4>1. ASSUME NEW r \in Upload, req[r].pc = "create" PROVE FALSE
        BY <3>1, <4>1 DEF OneAtATime, Deleting, Ended
      <4>2. ASSUME NEW e \in Deletion, Deleting(e), del'[e].pc = "record" PROVE FALSE
        BY <1>2, <3>1, <4>2 DEF OneAtATime, Deleting
      <4>. QED
        BY <4>1, <4>2, ImagesChange
    <3>4. del[d].pc \in {"content", "rows"}
      <4>1. CASE Delete(d)
        <5>1. ~ RecordDeletion(d)
          BY <1>0, <1>2 DEF RecordDeletion, DelGoes, DeletionsOK
        <5>. QED
          BY <2>2, <4>1, <5>1 DEF Delete, DeleteContent, DeleteRows
      <4>2. CASE ~ Delete(d)
        <5>1. ~ ServerStops
          BY <1>2, StopFrame DEF Ended
        <5>. QED
          BY <1>2, <4>2, <5>1, FileKinds, RequestFrame, DeletionFrame, AroundFrame
      <4>. QED
        BY <4>1, <4>2
    <3>. QED
      BY <3>1, <3>2, <3>3, <3>4 DEF Counted, Deleting
  <2>. QED
    BY <2>1, <2>2
<1>. QED
  BY <1>1, <1>2 DEF Counted

\* Without an overlap exactly one image stays primary.
LEMMA PrimaryStep ==
    Types /\ ImagesSettled /\ TargetsSettled /\ OneAtATime /\ Counted /\ OnePrimary /\ [FilesNext]_filesVars
       => OnePrimary'
<1> SUFFICES ASSUME Types, ImagesSettled, TargetsSettled, OneAtATime, Counted, OnePrimary, [FilesNext]_filesVars
             PROVE  OnePrimary'
  OBVIOUS
<1>0. /\ \A f \in Images : f \in Asset /\ image[f].primary \in BOOLEAN
      /\ image = [f \in Asset |-> image[f]]
  <2>1. \A f \in Images : f \in Asset /\ image[f] \in [sort : Nat, primary : BOOLEAN]
    BY DEF Types, FilesTypeOK, Images
  <2>. QED
    BY <2>1 DEF Types, FilesTypeOK
<1>1. CASE UNCHANGED image /\ Images' = Images
  BY <1>1 DEF OnePrimary
<1>2. ASSUME NEW r \in Upload, req[r].pc = "create",
             Images' = Images \cup {File(r)}, ~ Settled(File(r)), File(r) \in Asset,
             image' = [image EXCEPT ![File(r)] = [sort |-> req[r].max + 1, primary |-> req[r].count = 0]]
      PROVE  OnePrimary'
  <2>1. File(r) \notin Images
    BY <1>2 DEF ImagesSettled
  <2>2. /\ image'[File(r)].primary = (req[r].count = 0)
        /\ \A f \in Images : image'[f] = image[f]
    BY <1>0, <1>2, <2>1
  <2>3. req[r].count = 0 <=> Images = {}
    BY <1>2, ImagesFinite DEF Counted
  <2>4. CASE Images = {}
    <3>1. Images' = {File(r)} /\ image'[File(r)].primary
      BY <1>2, <2>2, <2>3, <2>4
    <3>. QED
      BY <3>1 DEF OnePrimary
  <2>5. CASE Images # {}
    <3>1. PICK f \in Images : \A g \in Images : image[g].primary <=> g = f
      BY <2>5 DEF OnePrimary
    <3>2. f \in Images' /\ \A g \in Images' : image'[g].primary <=> g = f
      BY <1>2, <2>1, <2>2, <2>3, <2>5, <3>1
    <3>. QED
      BY <3>2 DEF OnePrimary
  <2>. QED
    BY <2>4, <2>5
<1>3. ASSUME NEW d \in Deletion, DeleteRows(d), Deleting(d), del[d].target \in Asset,
             image' = Promoted(del[d].target, del[d].primary),
             Images' = Images \ {del[d].target}
      PROVE  OnePrimary'
  <2> DEFINE f == del[d].target
  <2>1. f \in Images /\ del[d].primary = image[f].primary
    BY <1>3 DEF Deleting, DeleteRows, Counted
  <2>2. PICK p \in Images : \A g \in Images : image[g].primary <=> g = p
    BY <2>1 DEF OnePrimary
  <2>w. del[d].primary \in BOOLEAN
    BY DEF Types, DeletionsOK
  <2>3. CASE del[d].primary = FALSE \/ Images \ {f} = {}
    <3>1. \A h \in Asset : h # f => image'[h] = image[h]
      <4>1. CASE del[d].primary = FALSE
        BY <1>3, <4>1, PromotedNone
      <4>2. CASE del[d].primary = TRUE /\ Images \ {f} = {}
        BY <1>3, <4>2, PromotedNone
      <4>. QED
        BY <2>3, <2>w, <4>1, <4>2
    <3>2. CASE Images \ {f} = {}
      BY <1>3, <3>2 DEF OnePrimary
    <3>3. CASE Images \ {f} # {}
      <4>1. p # f
        BY <2>1, <2>2, <2>3, <3>3
      <4>2. p \in Images' /\ \A g \in Images' : image'[g].primary <=> g = p
        BY <1>0, <1>3, <2>2, <3>1, <4>1
      <4>. QED
        BY <4>2 DEF OnePrimary
    <3>. QED
      BY <3>2, <3>3
  <2>4. CASE del[d].primary = TRUE /\ Images \ {f} # {}
    <3>1. PICK g \in Images \ {f} : /\ image'[g].primary = TRUE
                                    /\ \A h \in Asset : h # f /\ h # g => image'[h] = image[h]
      BY <1>3, <2>4, PromotedFirst
    <3>2. p = f
      BY <2>1, <2>2, <2>4
    <3>3. \A h \in Images' : h # g => ~ image'[h].primary
      BY <1>0, <1>3, <2>2, <3>1, <3>2
    <3>4. g \in Images' /\ \A h \in Images' : image'[h].primary <=> h = g
      BY <1>3, <3>1, <3>3
    <3>. QED
      BY <3>4 DEF OnePrimary
  <2>. QED
    BY <2>3, <2>4, <2>w
<1>. QED
  BY <1>1, <1>2, <1>3, ImagesChange

(***************************************************************************)
(* Items at OneDrive.                                                      *)
(***************************************************************************)

\* Who writes an item, and who deletes one.
LEMMA RemoteChange ==
    ASSUME Types, [FilesNext]_filesVars
    PROVE  \/ UNCHANGED remote
           \/ \E r \in Request : RequestActs(r) /\ UploadRemote(r) /\ Put(r)
           \/ \E r \in Request :
                 /\ RequestActs(r) /\ req[r].pc = "retract"
                 /\ remote' = [remote EXCEPT ![req[r].item] = NoFile]
           \/ \E r \in Request :
                 /\ RequestActs(r) /\ req[r].pc = "unlink"
                 /\ remote' = [remote EXCEPT ![asset[File(r)].item] = NoFile]
           \/ \E d \in Deletion :
                 /\ Delete(d) /\ del[d].pc = "content" /\ del'[d].pc = "rows"
                 /\ del'[d].target = del[d].target
                 /\ remote' = [remote EXCEPT ![asset[del[d].target].item] = NoFile]
<1>1. ASSUME NEW r \in Request, RequestActs(r), ~ UNCHANGED remote
      PROVE  \/ UploadRemote(r) /\ Put(r)
             \/ /\ req[r].pc = "retract"
                /\ remote' = [remote EXCEPT ![req[r].item] = NoFile]
             \/ /\ req[r].pc = "unlink"
                /\ remote' = [remote EXCEPT ![asset[File(r)].item] = NoFile]
  <2>1. UploadRemote(r) \/ Retract(r) \/ DeleteStored(r)
    BY <1>1 DEF RequestActs, StoreFile, LinkImage, BeginUpload, StoreInternal, Stage, CreateAsset,
     UndoStage, ChooseName, Switch, Unstage, AuditStored, MarkFailed, Aggregate,
     CreateImage, MarkDeleted, RecordUpload, objects
  <2>. QED
    BY <1>1, <2>1 DEF UploadRemote, Retract, DeleteStored, DeleteRemoteQuietly
<1>2. ASSUME NEW d \in Deletion, Delete(d), ~ UNCHANGED remote
      PROVE  /\ del[d].pc = "content" /\ del'[d].pc = "rows"
             /\ del'[d].target = del[d].target
             /\ remote' = [remote EXCEPT ![asset[del[d].target].item] = NoFile]
  <2>1. DeleteContent(d)
    BY <1>2 DEF Delete, ReadTarget, DeleteRows, RecordDeletion, objects
  <2>2. DelGoes(d, "rows") /\ remote' = [remote EXCEPT ![asset[del[d].target].item] = NoFile]
    BY <1>2, <2>1 DEF DeleteContent, objects
  <2>. QED
    BY <2>1, <2>2 DEF DeleteContent, DelGoes, Types, DeletionsOK
<1>3. CASE Around \/ ServerStops
  BY <1>3, AroundFrame, StopFrame DEF objects
<1>. QED
  BY <1>1, <1>2, <1>3, FileKinds

\* The upload writes its target, which has the name of the file.
LEMMA PutWrites ==
    ASSUME Types, NEW r \in Request, Put(r)
    PROVE  /\ remote'[Target(r)].file = File(r) /\ remote'[Target(r)].plain = req[r].plain
           /\ remote'[Target(r)] # NoFile
           /\ \A g \in Asset : g # Target(r) => remote'[g] = remote[g]
           /\ NameOf[Target(r)] = NameOf[File(r)]
<1>1. Target(r) \in Asset /\ (Target(r) # File(r) => Target(r) \in Namesakes(File(r)))
      /\ File(r) \in Asset /\ req[r].plain \in BOOLEAN
  BY TargetIsFile, FileOfRequest DEF Types, RequestsOK
<1>2. PICK i : i = [file |-> File(r), plain |-> req[r].plain]
  OBVIOUS
<1>3. i \in [file : Asset, plain : BOOLEAN]
  BY <1>1, <1>2
<1>4. i # NoFile
  BY <1>3, FileStorageAssumption
<1>5. remote' = [remote EXCEPT ![Target(r)] = i]
  BY <1>2 DEF Put
<1>6. remote'[Target(r)] = i /\ \A g \in Asset : g # Target(r) => remote'[g] = remote[g]
  BY <1>1, <1>5 DEF Types, FilesTypeOK
<1>7. NameOf[Target(r)] = NameOf[File(r)]
  BY <1>1 DEF Namesakes
<1>. QED
  BY <1>2, <1>4, <1>6, <1>7

\* What a step makes of the item that a request refers to.
LEMMA ItemStays ==
    ASSUME Types, [FilesNext]_filesVars, NEW r \in Request, req'[r].item # req[r].item
    PROVE  /\ RequestActs(r) /\ UploadRemote(r) /\ Put(r) /\ req'[r].pc = "switch"
           /\ req'[r].item = Target(r) /\ req'[r].at = req[r].at
<1>0. RequestsOK
  BY DEF Types
<1>1. RequestActs(r)
  BY FileKinds, RequestFrame, DeletionFrame, AroundFrame, StopFrame
<1>2. CASE UploadRemote(r)
  <2>1. ~ ReqGoes(r, "mark")
    BY <1>0, GoesOwn
  <2>2. Put(r) /\ req' = [req EXCEPT ![r].pc = "switch", ![r].item = Target(r)]
    BY <1>2, <2>1 DEF UploadRemote
  <2>. QED
    BY <1>0, <1>1, <1>2, <2>2 DEF RequestsOK
<1>3. CASE ChooseName(r) \/ Aggregate(r) \/ CreateImage(r)
  <2>1. ASSUME NEW pc, ReqGoes(r, pc) PROVE FALSE
    BY <1>0, <2>1, GoesOwn
  <2>2. CASE ChooseName(r)
    BY <1>0, <2>1, <2>2 DEF ChooseName, RequestsOK
  <2>3. CASE Aggregate(r)
    <3>1. PICK c, m : req' = [req EXCEPT ![r].pc = "create", ![r].count = c, ![r].max = m]
      BY <2>3 DEF Aggregate
    <3>. QED
      BY <1>0, <3>1 DEF RequestsOK
  <2>4. CASE CreateImage(r)
    BY <1>0, <2>1, <2>4 DEF CreateImage, NextFile, RequestsOK
  <2>. QED
    BY <1>3, <2>2, <2>3, <2>4
<1>4. CASE ~ (UploadRemote(r) \/ ChooseName(r) \/ Aggregate(r) \/ CreateImage(r))
  <2>1. \E pc : ReqGoes(r, pc)
    BY <1>1, <1>4 DEF RequestActs, StoreFile, LinkImage, BeginUpload, StoreInternal, Stage, CreateAsset,
     UndoStage, Switch, Unstage, AuditStored, Retract, MarkFailed, DeleteStored, MarkDeleted, RecordUpload
  <2>. QED
    BY <1>0, <2>1, GoesOwn
<1>. QED
  BY <1>2, <1>3, <1>4

\* The row of a file refers to an item after the switch only.
LEMMA RowItem ==
    ASSUME Types, [FilesNext]_filesVars, NEW g \in Asset, asset'[g].item # asset[g].item,
           asset'[g].item # NoFile
    PROVE  \E r \in Request : /\ RequestActs(r) /\ Switch(r) /\ g = File(r) /\ asset'[g].item = req[r].item
                              /\ asset'[g].status = "SYNCED"
<1>0. asset \in [Asset -> [status : {"ABSENT", "UPLOADING", "SYNCED", "FAILED", "DELETED"},
                              provider : {"MOCK_LOCAL", "ONEDRIVE"},
                              item : Asset \cup {NoFile}]]
  BY DEF Types, FilesTypeOK
<1>1. ASSUME NEW f \in Asset, NEW status, SetStatus(f, status)
      PROVE  FALSE
  BY <1>0, <1>1 DEF SetStatus
<1>2. CASE (\E d \in Deletion : Delete(d)) \/ Around \/ ServerStops
  <2>1. \A d \in Deletion : DeleteRows(d) => del[d].target \in Asset
    BY DEF DeleteRows, Types, DeletionsOK
  <2>. QED
    BY <1>1, <1>2, <2>1, AroundFrame, StopFrame
    DEF rows, Delete, ReadTarget, DeleteContent, DeleteRows, RecordDeletion
<1>3. ASSUME NEW r \in Request, RequestActs(r)
      PROVE  /\ Switch(r) /\ g = File(r) /\ asset'[g].item = req[r].item
             /\ asset'[g].status = "SYNCED"
  <2>1. g = File(r)
    BY <1>3, RequestFrame
  <2>2. ~ CreateAsset(r)
    BY <1>0, <2>1 DEF CreateAsset, SetAsset
  <2>3. ~ MarkFailed(r) /\ ~ MarkDeleted(r)
    BY <1>1, <2>1 DEF MarkFailed, MarkDeleted
  <2>4. Switch(r)
    BY <1>3, <2>2, <2>3 DEF RequestActs, StoreFile, LinkImage, BeginUpload, StoreInternal, Stage,
     UndoStage, ChooseName, UploadRemote, Unstage, AuditStored, Retract, Aggregate,
     CreateImage, DeleteStored, RecordUpload, rows
  <2>5. SetAsset(g, "SYNCED", "ONEDRIVE", req[r].item)
    BY <2>1, <2>4 DEF Switch
  <2>. QED
    BY <1>0, <2>1, <2>4, <2>5 DEF SetAsset
<1>. QED
  BY <1>2, <1>3, FileKinds

\* Names agree: only the upload and the switch make a reference.
LEMMA NamesStep ==
    Types /\ NamesAgree /\ (\A r \in Request : RequestRow(r)) /\ [FilesNext]_filesVars => NamesAgree'
<1> SUFFICES ASSUME Types, NamesAgree, \A r \in Request : RequestRow(r), [FilesNext]_filesVars
             PROVE  NamesAgree'
  OBVIOUS
<1>0. RequestsOK /\ Upload \cap Internal = {} /\ Request = Upload \cup Internal /\ RequestsOK'
  BY FileStorageAssumption, RequestsStep DEF Types, Request
<1>1. ASSUME NEW g \in Asset, remote'[g] # NoFile
      PROVE  NameOf[remote'[g].file] = NameOf[g]
  <2>1. CASE remote'[g] = remote[g]
    BY <1>1, <2>1 DEF NamesAgree
  <2>2. CASE remote'[g] # remote[g]
    <3>1. PICK r \in Request : Put(r)
      BY <1>1, <2>2, RemoteChange DEF Types, FilesTypeOK
    <3>. QED
      BY <2>2, <3>1, PutWrites
  <2>. QED
    BY <2>1, <2>2
<1>2. ASSUME NEW g \in Asset, asset'[g].item # NoFile
      PROVE  /\ NameOf[asset'[g].item] = NameOf[g]
             /\ \E r \in Request : \E i \in DOMAIN FilesOf[r] : g = FilesOf[r][i]
  <2>1. CASE asset'[g].item = asset[g].item
    BY <1>2, <2>1 DEF NamesAgree
  <2>2. CASE asset'[g].item # asset[g].item
    <3>1. PICK r \in Request : Switch(r) /\ g = File(r) /\ asset'[g].item = req[r].item
      BY <1>2, <2>2, RowItem
    <3>2. NameOf[req[r].item] = NameOf[File(r)]
      BY <1>2, <3>1 DEF NamesAgree, Switch
    <3>. QED
      BY <3>1, <3>2, FileOfRequest DEF File, Types
  <2>. QED
    BY <2>1, <2>2
<1>3. ASSUME NEW r \in Request, req'[r].item # NoFile, r \in Internal \/ req'[r].pc \in {"switch", "retract"}
      PROVE  NameOf[req'[r].item] = NameOf[FilesOf[r][req'[r].at]]
  <2>1. CASE req'[r].item # req[r].item
    <3>1. Put(r) /\ req'[r].item = Target(r) /\ req'[r].at = req[r].at
      BY <2>1, ItemStays
    <3>. QED
      BY <3>1, PutWrites DEF File
  <2>2. CASE req'[r].item = req[r].item /\ r \in Internal
    BY <1>0, <1>3, <2>2 DEF NamesAgree, RequestsOK, File
  <2>3. CASE req'[r].item = req[r].item /\ r \in Upload
    <3>1. CASE RequestActs(r)
      <4>1. Switch(r) \/ UploadRemote(r)
        BY <1>0, <1>3, <2>3, <3>1, RequestFollows, StepAt DEF Before, RequestPc, RequestsOK
      <4>2. CASE Switch(r)
        <5>1. req'[r].at = req[r].at /\ req[r].pc = "switch"
          BY <1>0, <4>2, GoesOwn DEF Switch
        <5>. QED
          BY <1>3, <2>3, <5>1 DEF NamesAgree, File
      <4>3. CASE UploadRemote(r)
        <5>1. ~ ReqGoes(r, "mark")
          BY <1>0, <1>3, <2>3, GoesOwn
        <5>2. Put(r) /\ req' = [req EXCEPT ![r].pc = "switch", ![r].item = Target(r)]
          BY <4>3, <5>1 DEF UploadRemote
        <5>3. req'[r].item = Target(r) /\ req'[r].at = req[r].at
          BY <1>0, <5>2 DEF RequestsOK
        <5>. QED
          BY <5>2, <5>3, PutWrites DEF File
      <4>. QED
        BY <4>1, <4>2, <4>3
    <3>2. CASE ~ RequestActs(r)
      <4>1. ~ ServerStops
        BY <1>3, <2>3, <1>0, StopFrame DEF Ended
      <4>2. req'[r] = req[r]
        BY <3>2, <4>1, FileKinds, RequestFrame, DeletionFrame, AroundFrame
      <4>. QED
        BY <1>3, <4>2 DEF NamesAgree, File
    <3>. QED
      BY <3>1, <3>2
  <2>. QED
    BY <1>0, <2>1, <2>2, <2>3
<1>. QED
  BY <1>1, <1>2, <1>3 DEF NamesAgree, File

\* A file of a request with the name of a single file belongs to an upload, and is
\* single as well; two uploads have such files only while none overlaps another.
LEMMA SameName ==
    ASSUME NEW f, Single(f), NEW r \in Request, NEW i \in DOMAIN FilesOf[r],
           NameOf[FilesOf[r][i]] = NameOf[f]
    PROVE  /\ r \in Upload /\ Single(FilesOf[r][i])
           /\ \A q \in Upload : \A j \in DOMAIN FilesOf[q] : f = FilesOf[q][j] => q = r \/ ~ raced
<1>1. PICK u \in Upload : \E k \in DOMAIN FilesOf[u] :
         /\ f = FilesOf[u][k]
         /\ raced => \A q \in Upload \ {u} : \A j \in DOMAIN FilesOf[q] : NameOf[f] # NameOf[FilesOf[q][j]]
  BY DEF Single
<1>2. r \in Upload
  BY <1>1, FileStorageAssumption DEF Request
<1>3. Single(FilesOf[r][i])
  BY <1>1, <1>2 DEF Single
<1>4. ASSUME NEW q \in Upload, NEW j \in DOMAIN FilesOf[q], f = FilesOf[q][j]
      PROVE  q = r \/ ~ raced
  <2>1. q = u
    BY <1>1, <1>4, FileStorageAssumption DEF Request
  <2>. QED
    BY <1>1, <1>2, <2>1
<1>. QED
  BY <1>2, <1>3, <1>4

\* A file that is single was single before.
LEMMA SingleShrinks ==
    ASSUME [FilesNext]_filesVars, NEW f, Single(f)'
    PROVE  Single(f)
BY RacedGrows DEF Single

\* What the steps of single files rest on.
Remotely == Types /\ TargetsSettled /\ NamesAgree /\ SingleInv /\ (~ raced => OneAtATime)

\* A single file's item is its own.
LEMMA OwnItem ==
    ASSUME Remotely, NEW f \in Asset, Single(f)
    PROVE  /\ \A r \in Request : req[r].pc \in {"switch", "retract"} /\ req[r].item = f => File(r) = f
           /\ \A g \in Asset : asset[g].item = f => g = f
           /\ \A r \in Request : req[r].pc = "put" /\ Target(r) = f => File(r) = f
<1>0. NoFile \notin Asset /\ Types
  BY FileStorageAssumption DEF Remotely
<1>1. ASSUME NEW r \in Request, NameOf[File(r)] = NameOf[f]
      PROVE  r \in Upload /\ Single(File(r)) /\ SingleReq(r)
  BY <1>0, <1>1, FileOfRequest, SameName DEF File, Types, Remotely, SingleInv
<1>2. ASSUME NEW r \in Request, req[r].pc \in {"switch", "retract"}, req[r].item = f
      PROVE  File(r) = f
  <2>1. NameOf[File(r)] = NameOf[f]
    BY <1>0, <1>2 DEF NamesAgree, Remotely
  <2>. QED
    BY <1>1, <1>2, <2>1 DEF SingleReq
<1>3. ASSUME NEW g \in Asset, asset[g].item = f
      PROVE  g = f
  <2>1. PICK r \in Request : \E i \in DOMAIN FilesOf[r] : g = FilesOf[r][i] /\ NameOf[g] = NameOf[f]
    BY <1>0, <1>3 DEF NamesAgree, Remotely
  <2>2. Single(g)
    BY <2>1, SameName
  <2>. QED
    BY <1>0, <1>3, <2>2 DEF Remotely, SingleInv
<1>4. ASSUME NEW r \in Request, req[r].pc = "put", Target(r) = f
      PROVE  File(r) = f
  <2>1. SUFFICES ASSUME File(r) # f PROVE FALSE
    OBVIOUS
  <2>2. Target(r) \in Namesakes(File(r)) /\ req[r].plain
    BY <1>0, <1>4, <2>1, TargetIsFile DEF Target
  <2>3. NameOf[File(r)] = NameOf[f]
    BY <1>4, <2>2 DEF Namesakes
  <2>. QED
    BY <1>1, <1>4, <2>2, <2>3 DEF SingleReq
<1>. QED
  BY <1>2, <1>3, <1>4

\* Only its own request and its own deletion delete the item of a single file.
LEMMA ItemGone ==
    ASSUME Remotely, [FilesNext]_filesVars, NEW f \in Asset, Single(f), remote[f] # NoFile,
           remote'[f] = NoFile
    PROVE  \/ \E r \in Request : /\ RequestActs(r) /\ File(r) = f
                                 /\ req[r].pc \in {"retract", "unlink"}
           \/ \E d \in Deletion : /\ Delete(d) /\ del[d].pc = "content" /\ del'[d].pc = "rows"
                                  /\ del[d].target = f /\ del'[d].target = f
<1>0. Types /\ NoFile \notin Asset /\ remote = [g \in Asset |-> remote[g]]
  BY FileStorageAssumption DEF Remotely, Types, FilesTypeOK
<1>1. ASSUME NEW item, remote' = [remote EXCEPT ![item] = NoFile]
      PROVE  item = f
  BY <1>0, <1>1
<1>2. ASSUME NEW r \in Request, Put(r)
      PROVE  FALSE
  BY <1>0, <1>2, PutWrites
<1>3. ASSUME NEW r \in Request, RequestActs(r), req[r].pc = "retract",
             remote' = [remote EXCEPT ![req[r].item] = NoFile]
      PROVE  File(r) = f
  BY <1>1, <1>3, OwnItem
<1>4. ASSUME NEW r \in Request, RequestActs(r), req[r].pc = "unlink",
             remote' = [remote EXCEPT ![asset[File(r)].item] = NoFile]
      PROVE  File(r) = f
  <2>1. asset[File(r)].item = f /\ File(r) \in Asset
    BY <1>0, <1>1, <1>4, FileOfRequest DEF Types
  <2>. QED
    BY <2>1, OwnItem
<1>5. ASSUME NEW d \in Deletion, del[d].pc = "content",
             remote' = [remote EXCEPT ![asset[del[d].target].item] = NoFile]
      PROVE  del[d].target = f
  <2>1. asset[del[d].target].item = f /\ del[d].target \in Asset
    BY <1>0, <1>1, <1>5 DEF Types, DeletionsOK
  <2>. QED
    BY <2>1, OwnItem
<1>. QED
  BY <1>0, <1>2, <1>3, <1>4, <1>5, RemoteChange

\* The item of a single file holds that file.
LEMMA SingleItemsStep ==
    Remotely /\ [FilesNext]_filesVars =>
        \A f \in Asset : Single(f)' =>
            /\ asset'[f].item \in {NoFile, f}
            /\ remote'[f] # NoFile => remote'[f].file = f
<1> SUFFICES ASSUME Remotely, [FilesNext]_filesVars, NEW f \in Asset, Single(f)
             PROVE  /\ asset'[f].item \in {NoFile, f}
                    /\ remote'[f] # NoFile => remote'[f].file = f
  BY SingleShrinks
<1>0. /\ Types /\ asset[f].item \in {NoFile, f}
      /\ remote[f] # NoFile => remote[f].file = f
      /\ remote = [g \in Asset |-> remote[g]] /\ NoFile \notin Asset
  BY FileStorageAssumption DEF Remotely, SingleInv, Types, FilesTypeOK
<1>1. asset'[f].item \in {NoFile, f}
  <2>1. SUFFICES ASSUME asset'[f].item # asset[f].item, asset'[f].item # NoFile
                 PROVE  asset'[f].item = f
    BY <1>0
  <2>2. PICK r \in Request : Switch(r) /\ f = File(r) /\ asset'[f].item = req[r].item
    BY <1>0, <2>1, RowItem
  <2>3. r \in Upload
    BY <1>0, <2>2, FileOfRequest, SameName DEF File, Types
  <2>. QED
    BY <2>2, <2>3 DEF Remotely, SingleInv, SingleReq, Switch
<1>2. ASSUME remote'[f] # NoFile
      PROVE  remote'[f].file = f
  <2>1. CASE remote'[f] = remote[f]
    BY <1>0, <1>2, <2>1
  <2>2. CASE remote'[f] # remote[f]
    <3>1. PICK r \in Request : UploadRemote(r) /\ Put(r)
      <4>1. ASSUME NEW item, remote' = [remote EXCEPT ![item] = NoFile]
            PROVE  FALSE
        BY <1>0, <1>2, <2>2, <4>1
      <4>. QED
        BY <1>0, <2>2, <4>1, RemoteChange
    <3>2. Target(r) = f
      BY <1>0, <2>2, <3>1, PutWrites
    <3>3. File(r) = f
      BY <3>1, <3>2, OwnItem DEF UploadRemote
    <3>. QED
      BY <1>0, <3>1, <3>2, <3>3, PutWrites
  <2>. QED
    BY <2>1, <2>2
<1>. QED
  BY <1>1, <1>2
\* What others do leaves a request and the file it is storing alone.
LEMMA Undisturbed ==
    ASSUME Types, TargetsSettled, [FilesNext]_filesVars, NEW r \in Request, ~ RequestActs(r),
           req'[r].pc \notin Ended \cup {"record"}
    PROVE  /\ req'[r] = req[r] /\ asset'[File(r)] = asset[File(r)]
           /\ \A d \in Deletion : del[d].target # File(r)
<1>1. ~ ServerStops
  BY StopFrame
<1>2. req'[r] = req[r]
  BY <1>1, FileKinds, RequestFrame, DeletionFrame, AroundFrame
<1>3. ~ Settled(File(r)) /\ File(r) \in Asset /\ NoFile \notin Asset
  BY <1>2, Unsettled, FileOfRequest, FileStorageAssumption DEF Ended, Types
<1>4. \A d \in Deletion : del[d].target # File(r)
  BY <1>3 DEF TargetsSettled
<1>5. ASSUME NEW q \in Request, RequestActs(q)
      PROVE  asset'[File(r)] = asset[File(r)]
  <2>1. File(r) # File(q)
    BY <1>5, OwnFile, FileOfRequest DEF Types, File
  <2>. QED
    BY <1>3, <1>5, <2>1, RequestFrame
<1>6. ASSUME NEW d \in Deletion, Delete(d)
      PROVE  asset'[File(r)] = asset[File(r)]
  BY <1>3, <1>4, <1>6, DeletionFrame DEF rows
<1>. QED
  BY <1>1, <1>2, <1>4, <1>5, <1>6, FileKinds, AroundFrame DEF rows

\* Nobody takes the name, or the item, of a single file from its request.
LEMMA SingleReqStep ==
    Remotely /\ (\A r \in Request : RequestRow(r)) /\ [FilesNext]_filesVars
        => \A r \in Upload : SingleReq(r)'
<1> SUFFICES ASSUME Remotely, \A r \in Request : RequestRow(r), [FilesNext]_filesVars, NEW r \in Upload
             PROVE  SingleReq(r)'
  OBVIOUS
<1>0. Types /\ r \in Request /\ RequestsOK /\ SingleReq(r) /\ File(r) \in Asset /\ NoFile \notin Asset
  BY FileOfRequest, FileStorageAssumption DEF Remotely, Types, SingleInv, Request
<1>1. CASE req'[r].pc \notin {"put", "switch", "retract", "unstage", "link", "create"}
  BY <1>1 DEF SingleReq
<1>2. CASE req'[r].pc \in {"put", "switch", "retract", "unstage", "link", "create"}
  <2>0. PICK f \in Asset : f = File(r)
    BY <1>0
  <2>1. req'[r].at = req[r].at
    <3>1. CASE RequestActs(r)
      BY <1>0, <1>2, <3>1, RequestPlace
    <3>2. CASE ~ RequestActs(r)
      BY <1>0, <1>2, <3>2, Undisturbed DEF Ended, Remotely
    <3>. QED
      BY <3>1, <3>2
  <2>2. FilesOf[r][req'[r].at] = f
    BY <2>0, <2>1 DEF File
  <2>3. SUFFICES ASSUME Single(f)
                 PROVE  /\ req'[r].pc = "put" /\ req'[r].plain => Namesakes(f)' = {}
                        /\ req'[r].pc \in {"switch", "retract"} => req'[r].item = f
                        /\ req'[r].pc = "switch" => remote'[f] # NoFile
                        /\ req'[r].pc \in {"unstage", "link", "create"} /\ asset'[f].provider = "ONEDRIVE"
                              => remote'[f] # NoFile
    <3>1. Single(f)' => Single(f)
      BY SingleShrinks
    <3>. QED
      BY <2>2, <3>1 DEF SingleReq, File
  <2>4. CASE RequestActs(r)
    <3>0. /\ f \in Asset /\ f = File(r) /\ req[r].pc \in Before[req'[r].pc]
          /\ req[r].pc = "put" /\ req[r].plain => Namesakes(f) = {}
          /\ req[r].pc \in {"switch", "retract"} => req[r].item = f
          /\ req[r].pc = "switch" => remote[f] # NoFile
          /\ req[r].pc \in {"unstage", "link", "create"} /\ asset[f].provider = "ONEDRIVE" => remote[f] # NoFile
      BY <1>0, <2>0, <2>3, <2>4, RequestFollows DEF SingleReq
    <3>1. CASE req'[r].pc = "put"
      <4>1. ChooseName(r)
        BY <1>0, <2>4, <3>0, <3>1, StepAt DEF Before, RequestPc
      <4>2. req'[r].plain = (Namesakes(f) = {}) /\ UNCHANGED remote
        <5>1. ~ ReqGoes(r, "mark")
          BY <1>0, <3>1, GoesOwn
        <5>. QED
          BY <1>0, <3>0, <4>1, <5>1 DEF ChooseName, RequestsOK, objects
      <4>. QED
        BY <3>1, <4>2 DEF Namesakes
    <3>2. CASE req'[r].pc = "switch"
      <4>1. UploadRemote(r) /\ req[r].pc = "put"
        BY <1>0, <2>4, <3>0, <3>2, StepAt DEF Before, RequestPc
      <4>2. Put(r) /\ req' = [req EXCEPT ![r].pc = "switch", ![r].item = Target(r)]
        <5>1. ~ ReqGoes(r, "mark")
          BY <1>0, <3>2, GoesOwn
        <5>. QED
          BY <4>1, <5>1 DEF UploadRemote
      <4>3. Target(r) = f
        BY <3>0, <4>1 DEF Target
      <4>4. req'[r].item = f
        BY <1>0, <4>2, <4>3 DEF RequestsOK
      <4>. QED
        BY <1>0, <3>2, <4>2, <4>3, <4>4, PutWrites
    <3>3. CASE req'[r].pc = "retract"
      <4>1. Switch(r) /\ req[r].pc = "switch"
        BY <1>0, <2>4, <3>0, <3>3, StepAt DEF Before, RequestPc, RequestsOK
      <4>2. req'[r].item = req[r].item
        BY <1>0, <4>1, GoesOwn DEF Switch
      <4>. QED
        BY <3>0, <3>3, <4>1, <4>2
    <3>4. CASE req'[r].pc = "unstage"
      <4>1. Switch(r) /\ req[r].pc = "switch"
        BY <1>0, <2>4, <3>0, <3>4, StepAt DEF Before, RequestPc
      <4>. QED
        BY <3>0, <3>4, <4>1 DEF Switch, objects
    <3>5. CASE req'[r].pc = "link"
      <4>1. CASE req[r].pc = "unstage"
        <5>1. Unstage(r)
          BY <1>0, <2>4, <4>1, StepAt
        <5>. QED
          BY <3>0, <3>5, <4>1, <5>1 DEF Unstage, rows
      <4>2. CASE req[r].pc = "stored"
        <5>1. CreateAsset(r)
          BY <1>0, <2>4, <4>2, StepAt
        <5>2. \E status : SetAsset(f, status, "MOCK_LOCAL", NoFile)
          <6>1. ~ ReqGoes(r, "undo")
            BY <1>0, <3>5, GoesOwn
          <6>. QED
            BY <3>0, <5>1, <6>1 DEF CreateAsset
        <5>3. asset'[f].provider = "MOCK_LOCAL"
          BY <1>0, <3>0, <5>2 DEF SetAsset, Types, FilesTypeOK
        <5>. QED
          BY <3>5, <5>3
      <4>. QED
        BY <3>0, <3>5, <4>1, <4>2 DEF Before, RequestPc
    <3>6. CASE req'[r].pc = "create"
      <4>1. Aggregate(r) /\ req[r].pc = "link"
        BY <1>0, <2>4, <3>0, <3>6, StepAt DEF Before, RequestPc
      <4>. QED
        BY <3>0, <3>6, <4>1 DEF Aggregate, rows, objects
    <3>. QED
      BY <1>2, <3>1, <3>2, <3>3, <3>4, <3>5, <3>6
  <2>5. CASE ~ RequestActs(r)
    <3>0. /\ f \in Asset /\ f = File(r) /\ req'[r] = req[r] /\ asset'[f] = asset[f]
          /\ \A d \in Deletion : del[d].target # f
          /\ req[r].pc = "put" /\ req[r].plain => Namesakes(f) = {}
          /\ req[r].pc \in {"switch", "retract"} => req[r].item = f
          /\ req[r].pc = "switch" => remote[f] # NoFile
          /\ req[r].pc \in {"unstage", "link", "create"} /\ asset[f].provider = "ONEDRIVE" => remote[f] # NoFile
      BY <1>0, <1>2, <2>0, <2>3, <2>5, Undisturbed DEF SingleReq, Ended, Remotely
    <3>1. remote[f] # NoFile => remote'[f] # NoFile
      <4>1. ASSUME NEW q \in Request, RequestActs(q)
            PROVE  File(q) # f
        BY <1>0, <2>5, <3>0, <4>1, OwnFile, FileOfRequest DEF File
      <4>. QED
        BY <2>3, <3>0, <4>1, ItemGone
    <3>2. ASSUME req[r].pc = "put", req[r].plain, NEW g \in Namesakes(f)'
          PROVE  FALSE
      <4>1. /\ g \in Asset /\ remote'[g] # NoFile /\ remote'[g].plain /\ NameOf[g] = NameOf[f]
            /\ g \notin Namesakes(f)
        BY <3>0, <3>2 DEF Namesakes
      <4>2. remote'[g] # remote[g]
        BY <4>1 DEF Namesakes
      <4>3. PICK q \in Request : RequestActs(q) /\ UploadRemote(q) /\ Put(q)
        <5>1. ASSUME NEW item, remote' = [remote EXCEPT ![item] = NoFile]
              PROVE  FALSE
          BY <1>0, <4>1, <4>2, <5>1 DEF Types, FilesTypeOK
        <5>. QED
          BY <1>0, <4>2, <5>1, RemoteChange
      <4>4. NameOf[File(q)] = NameOf[f]
        BY <1>0, <4>1, <4>2, <4>3, PutWrites
      <4>5. q \in Upload /\ (q = r \/ ~ raced)
        <5>1. \E i \in DOMAIN FilesOf[q] : NameOf[FilesOf[q][i]] = NameOf[f]
          BY <1>0, <4>4, FileOfRequest DEF File
        <5>2. \E j \in DOMAIN FilesOf[r] : f = FilesOf[r][j]
          BY <1>0, <3>0, FileOfRequest DEF File
        <5>. QED
          BY <2>3, <5>1, <5>2, SameName
      <4>6. req[q].pc \notin Ended /\ req[r].pc \notin Ended
        BY <3>2, <4>3 DEF UploadRemote, Ended
      <4>. QED
        BY <2>5, <4>3, <4>5, <4>6 DEF Remotely, OneAtATime
    <3>. QED
      BY <3>0, <3>1, <3>2
  <2>. QED
    BY <2>4, <2>5
<1>. QED
  BY <1>1, <1>2

\* The item of an image that nobody deletes stays.
LEMMA SingleImagesStep ==
    Remotely /\ ImagesSettled /\ (\A r \in Request : RequestRow(r)) /\ [FilesNext]_filesVars =>
        (\A f \in Images \ BeingDeleted : Single(f) /\ asset[f].provider = "ONEDRIVE" => remote[f] # NoFile)'
<1> SUFFICES ASSUME Remotely, ImagesSettled, \A r \in Request : RequestRow(r), [FilesNext]_filesVars,
                    NEW f \in Images', f \notin BeingDeleted', Single(f), asset'[f].provider = "ONEDRIVE"
             PROVE  remote'[f] # NoFile
  BY SingleShrinks
<1>0. Types /\ f \in Asset /\ f \notin BeingDeleted
  BY BeingDeletedStays DEF Remotely, Images
<1>1. CASE f \in Images
  <2>1. Settled(f) /\ asset[f].status = "SYNCED"
    BY <1>1 DEF ImagesSettled
  <2>2. asset'[f].provider = asset[f].provider
    <3>1. ASSUME NEW r \in Request, RequestActs(r)
          PROVE  asset'[f].provider = asset[f].provider
      <4>1. CASE f = File(r)
        <5>1. req[r].pc \in {"record", "answered", "failed"}
          BY <1>0, <2>1, <4>1, Unsettled
        <5>. QED
          BY <1>0, <3>1, <5>1, RequestFrame DEF rows
      <4>2. CASE f # File(r)
        BY <1>0, <3>1, <4>2, RequestFrame
      <4>. QED
        BY <4>1, <4>2
    <3>2. ASSUME NEW d \in Deletion, Delete(d)
          PROVE  asset'[f].provider = asset[f].provider
      <4>1. UNCHANGED asset \/ SetStatus(del[d].target, "DELETED")
        BY <3>2 DEF Delete, ReadTarget, DeleteContent, DeleteRows, RecordDeletion, rows
      <4>. QED
        BY <1>0, <4>1 DEF SetStatus, Types, FilesTypeOK
    <3>. QED
      BY <1>0, <3>1, <3>2, FileKinds, AroundFrame, StopFrame DEF rows
  <2>3. remote[f] # NoFile
    BY <1>0, <1>1, <2>2 DEF Remotely, SingleInv
  <2>4. ASSUME NEW r \in Request, RequestActs(r), File(r) = f, req[r].pc \in {"retract", "unlink"}
        PROVE  FALSE
    BY <1>0, <2>1, <2>4, Unsettled
  <2>5. ASSUME NEW d \in Deletion, del'[d].pc = "rows", del'[d].target = f
        PROVE  FALSE
    BY <2>5 DEF BeingDeleted
  <2>. QED
    BY <1>0, <2>3, <2>4, <2>5, ItemGone
<1>2. CASE f \notin Images
  <2>1. PICK r \in Upload : /\ RequestActs(r) /\ CreateImage(r) /\ f = File(r)
                            /\ UNCHANGED <<asset, objects>>
    <3>1. ASSUME NEW r \in Request, RequestActs(r)
          PROVE  r \in Upload /\ CreateImage(r) /\ f = File(r) /\ UNCHANGED <<asset, objects>>
      BY <1>0, <1>2, <3>1, NewImage
    <3>2. ASSUME NEW d \in Deletion, Delete(d)
          PROVE  FALSE
      BY <1>0, <1>2, <3>2, RowsGone
    <3>. QED
      BY <1>0, <1>2, <3>1, <3>2, FileKinds, AroundFrame, StopFrame DEF rows, Images
  <2>. QED
    BY <1>0, <2>1 DEF CreateImage, Remotely, SingleInv, SingleReq, objects
<1>. QED
  BY <1>1, <1>2

\* All that is said of single files is kept.
LEMMA SingleStep ==
    Remotely /\ ImagesSettled /\ (\A r \in Request : RequestRow(r)) /\ [FilesNext]_filesVars => SingleInv'
<1> SUFFICES ASSUME Remotely, ImagesSettled, \A r \in Request : RequestRow(r), [FilesNext]_filesVars
             PROVE  SingleInv'
  OBVIOUS
<1>1. \A f \in Asset : Single(f)' =>
            /\ asset'[f].item \in {NoFile, f}
            /\ remote'[f] # NoFile => remote'[f].file = f
  BY SingleItemsStep
<1>2. \A r \in Upload : SingleReq(r)'
  BY SingleReqStep
<1>3. (\A f \in Images \ BeingDeleted : Single(f) /\ asset[f].provider = "ONEDRIVE" => remote[f] # NoFile)'
  BY SingleImagesStep
<1>. QED
  BY <1>1, <1>2, <1>3 DEF SingleInv
(***************************************************************************)
(* Objects without a row.                                                  *)
(***************************************************************************)

\* What is put where nothing was is the file's own item.
LEMMA PutNew ==
    ASSUME Types, NEW q \in Request, Put(q), UploadRemote(q), NEW f \in Asset, remote[f] = NoFile,
           remote'[f] # NoFile \/ Target(q) = f
    PROVE  Target(q) = f /\ File(q) = f
<1>1. Target(q) = f
  BY PutWrites
<1>. QED
  BY <1>1, TargetIsFile DEF Namesakes

\* An item that is not there stays away until its file is put.
LEMMA ItemStaysAway ==
    ASSUME Types, [FilesNext]_filesVars, NEW f \in Asset, remote[f] = NoFile, remote'[f] # NoFile
    PROVE  \E q \in Request : RequestActs(q) /\ UploadRemote(q) /\ Put(q) /\ File(q) = f /\ Target(q) = f
<1>1. ASSUME NEW item, remote' = [remote EXCEPT ![item] = NoFile]
      PROVE  FALSE
  BY <1>1 DEF Types, FilesTypeOK
<1>2. PICK q \in Request : RequestActs(q) /\ UploadRemote(q) /\ Put(q)
  BY <1>1, RemoteChange
<1>. QED
  BY <1>2, PutNew

\* A file that is not put has not been put before.
LEMMA NotPutBefore ==
    ASSUME Types, [FilesNext]_filesVars, NEW r \in Request, NEW i \in DOMAIN FilesOf[r], NotPut(r, i)'
    PROVE  NotPut(r, i)
<1>0. req[r].at \in Nat /\ i \in Nat /\ RequestsOK
  BY FileStorageAssumption DEF Types, RequestsOK
<1>1. CASE RequestActs(r)
  <2>1. CASE req'[r].at = req[r].at
    <3>1. req'[r].pc \in RequestPc /\ req[r].pc \in Before[req'[r].pc]
      BY <1>1, RequestFollows
    <3>. QED
      BY <1>0, <1>1, <2>1, <3>1, RequestPlace DEF NotPut, Before, RequestPc
  <2>2. CASE req'[r].at = req[r].at + 1
    <3>1. req[r].at # i
      <4>1. SUFFICES ASSUME req[r].at = i PROVE FALSE
        OBVIOUS
      <4>. QED
        BY <1>0, <2>2, <4>1 DEF NotPut
    <3>. QED
      BY <1>0, <2>2, <3>1 DEF NotPut
  <2>. QED
    BY <1>1, <2>1, <2>2, RequestPlace
<1>2. CASE ServerStops
  BY <1>0, <1>2, StopFrame DEF NotPut, Ended
<1>3. CASE ~ RequestActs(r) /\ ~ ServerStops
  <2>1. req'[r] = req[r]
    BY <1>3, FileKinds, RequestFrame, DeletionFrame, AroundFrame
  <2>. QED
    BY <2>1 DEF NotPut
<1>. QED
  BY <1>1, <1>2, <1>3

\* An item that nobody has created is not referred to.
LEMMA ItemsOldStep == Types /\ ItemsOld /\ [FilesNext]_filesVars => ItemsOld'
<1> SUFFICES ASSUME Types, ItemsOld, [FilesNext]_filesVars, NEW r \in Request, NEW i \in DOMAIN FilesOf[r],
                    NotPut(r, i)'
             PROVE  /\ remote'[FilesOf[r][i]] = NoFile
                    /\ \A g \in Asset : asset'[g].item # FilesOf[r][i]
                    /\ \A q \in Request : req'[q].item # FilesOf[r][i]
  BY DEF ItemsOld
<1>0. PICK f \in Asset : f = FilesOf[r][i]
  BY FileStorageAssumption
<1>1. /\ remote[f] = NoFile /\ RequestsOK /\ NoFile \notin Asset
      /\ \A g \in Asset : asset[g].item # f
      /\ \A q \in Request : req[q].item # f
  BY <1>0, NotPutBefore, FileStorageAssumption DEF ItemsOld, Types
<1>2. ASSUME NEW q \in Request, RequestActs(q), UploadRemote(q), Put(q), Target(q) = f
      PROVE  FALSE
  <2>1. q = r /\ i = req[r].at
    BY <1>0, <1>1, <1>2, PutNew, OwnFile
  <2>2. req'[r].pc \in {"switch", "mark"} /\ req'[r].at = req[r].at
    <3>1. CASE ReqGoes(r, "mark")
      BY <1>1, <3>1, GoesOwn
    <3>2. CASE req' = [req EXCEPT ![r].pc = "switch", ![r].item = Target(r)]
      BY <1>1, <3>2 DEF RequestsOK
    <3>. QED
      BY <1>2, <2>1, <3>1, <3>2 DEF UploadRemote
  <2>. QED
    BY <2>1, <2>2, <1>1 DEF NotPut, RequestsOK
<1>3. remote'[f] = NoFile
  BY <1>1, <1>2, ItemStaysAway
<1>4. ASSUME NEW g \in Asset, asset'[g].item = f
      PROVE  FALSE
  BY <1>1, <1>4, RowItem
<1>5. ASSUME NEW q \in Request, req'[q].item = f
      PROVE  FALSE
  BY <1>1, <1>2, <1>5, ItemStays
<1>. QED
  BY <1>0, <1>3, <1>4, <1>5

\* What a settled file is, only a deletion changes.
LEMMA SettledAlone ==
    ASSUME Types, NEW q \in Request, RequestActs(q), NEW f \in Asset, Settled(f)
    PROVE  asset'[f] = asset[f] /\ (f \in mock' <=> f \in mock)
<1>1. CASE f = File(q)
  <2>1. req[q].pc \in {"record", "answered", "failed"}
    BY <1>1, Unsettled
  <2>. QED
    BY <2>1, RequestFrame DEF rows, objects
<1>2. CASE f # File(q)
  BY <1>2, RequestFrame
<1>. QED
  BY <1>1, <1>2

\* A row keeps the item it refers to.
LEMMA RowKeepsItem ==
    ASSUME Types, \A r \in Request : RequestRow(r), [FilesNext]_filesVars, NEW g \in Asset,
           asset[g].item # NoFile
    PROVE  asset'[g].item = asset[g].item
<1>0. asset \in [Asset -> [status : {"ABSENT", "UPLOADING", "SYNCED", "FAILED", "DELETED"},
                              provider : {"MOCK_LOCAL", "ONEDRIVE"},
                              item : Asset \cup {NoFile}]]
  BY DEF Types, FilesTypeOK
<1>1. ASSUME NEW f, NEW status, UNCHANGED asset \/ SetStatus(f, status)
      PROVE  asset'[g].item = asset[g].item
  BY <1>0, <1>1 DEF SetStatus
<1>2. ASSUME NEW r \in Request, RequestActs(r)
      PROVE  asset'[g].item = asset[g].item
  <2>1. CASE g = File(r) /\ req[r].pc \in {"stored", "staged", "switch"}
    BY <2>1 DEF RequestRow, NoAsset, StagedRow
  <2>2. CASE g # File(r)
    BY <1>2, <2>2, RequestFrame
  <2>3. CASE req[r].pc \notin {"stored", "staged", "switch"}
    <3>1. ~ CreateAsset(r) /\ ~ Switch(r)
      BY <2>3 DEF CreateAsset, Switch
    <3>2. UNCHANGED asset \/ \E f, status : SetStatus(f, status)
      BY <1>2, <3>1 DEF RequestActs, StoreFile, LinkImage, BeginUpload, StoreInternal, Stage,
       UndoStage, ChooseName, UploadRemote, Unstage, AuditStored, Retract, MarkFailed, Aggregate,
       CreateImage, DeleteStored, MarkDeleted, RecordUpload, rows
    <3>. QED
      BY <1>1, <3>2
  <2>. QED
    BY <2>1, <2>2, <2>3
<1>3. ASSUME NEW d \in Deletion, Delete(d)
      PROVE  asset'[g].item = asset[g].item
  <2>1. UNCHANGED asset \/ SetStatus(del[d].target, "DELETED")
    BY <1>3 DEF Delete, ReadTarget, DeleteContent, DeleteRows, RecordDeletion, rows
  <2>. QED
    BY <1>1, <2>1
<1>. QED
  BY <1>2, <1>3, FileKinds, AroundFrame, StopFrame DEF rows

\* A leak is remembered.
LEMMA LeakedGrows ==
    ASSUME [FilesNext]_filesVars, leaked
    PROVE  leaked'
<1>1. ASSUME NEW r \in Request, RequestActs(r)
      PROVE  leaked'
  BY <1>1 DEF RequestActs, StoreFile, LinkImage, BeginUpload, StoreInternal, Stage, CreateAsset,
     UndoStage, ChooseName, UploadRemote, Switch, Unstage, AuditStored, Retract, MarkFailed, Aggregate,
     CreateImage, DeleteStored, MarkDeleted, RecordUpload, fileGhosts, DeleteLocalQuietly,
     DeleteRemoteQuietly
<1>2. ASSUME NEW d \in Deletion, Delete(d)
      PROVE  leaked'
  BY <1>2 DEF Delete, ReadTarget, DeleteContent, DeleteRows, RecordDeletion, fileGhosts
<1>. QED
  BY <1>1, <1>2, FileKinds DEF Around, ConnectionChanges, DeactivateProduct, ServerStops, filesVars,
     fileGhosts

\* The invariants of the files, and of the items that nothing has leaked.
Tidy ==
    /\ Types /\ RowsOK /\ FilesWait /\ TargetsSettled /\ NamesAgree /\ ItemsOld
    /\ \A r \in Request : RequestRow(r)
    /\ RemoteAccounted /\ LocalAccounted /\ Undone

\* An item at OneDrive is accounted for.
LEMMA RemoteAccountedStep == Tidy /\ [FilesNext]_filesVars /\ ~ leaked' => RemoteAccounted'
<1> SUFFICES ASSUME Tidy, [FilesNext]_filesVars, ~ leaked', NEW f \in Asset, remote'[f] # NoFile
             PROVE  Accounted(f)'
  BY DEF RemoteAccounted
<1>0. Types /\ RequestsOK /\ NoFile \notin Asset /\ ~ ServerStops
      /\ (\A r \in Request : RequestRow(r))
      /\ remote = [g \in Asset |-> remote[g]]
      /\ asset \in [Asset -> [status : {"ABSENT", "UPLOADING", "SYNCED", "FAILED", "DELETED"},
                              provider : {"MOCK_LOCAL", "ONEDRIVE"},
                              item : Asset \cup {NoFile}]]
  BY FileStorageAssumption, StopFrame DEF Tidy, Types, FilesTypeOK
<1>1. CASE remote[f] = NoFile
  <2>1. PICK q \in Request : UploadRemote(q) /\ Put(q) /\ File(q) = f /\ Target(q) = f
    BY <1>0, <1>1, ItemStaysAway
  <2>2. UNCHANGED remote => FALSE
    BY <1>1
  <2>3. req' = [req EXCEPT ![q].pc = "switch", ![q].item = Target(q)]
    BY <2>1, <2>2 DEF UploadRemote
  <2>4. req'[q].pc = "switch" /\ req'[q].item = f /\ req'[q].at = req[q].at
    BY <1>0, <2>1, <2>3 DEF RequestsOK
  <2>. QED
    BY <2>1, <2>4 DEF Accounted, File
<1>2. CASE remote[f] # NoFile /\ \E g \in Asset : asset[g].item = f /\ asset[g].status # "DELETED"
  <2>1. PICK g \in Asset : asset[g].item = f /\ asset[g].status # "DELETED"
    BY <1>2
  <2>2. asset'[g].item = f
    BY <1>0, <2>1, RowKeepsItem
  <2>3. ASSUME NEW r \in Request, MarkDeleted(r)
        PROVE  g # File(r)
    BY <1>0, <1>2, <2>1, <2>3 DEF Tidy, Undone, MarkDeleted
  <2>4. ASSUME NEW d \in Deletion, DeleteRows(d)
        PROVE  g # del[d].target
    BY <1>0, <1>2, <2>1, <2>4 DEF Tidy, Undone, DeleteRows
  <2>5. ASSUME NEW h, g # h, SetStatus(h, "DELETED")
        PROVE  asset'[g].status # "DELETED"
    BY <1>0, <2>1, <2>5 DEF SetStatus
  <2>6. ASSUME NEW h, NEW s \in {"FAILED", "SYNCED", "UPLOADING"}, NEW p, NEW n,
               SetStatus(h, s) \/ SetAsset(h, s, p, n)
        PROVE  asset'[g].status # "DELETED"
    BY <1>0, <2>1, <2>6 DEF SetStatus, SetAsset
  <2>7. asset'[g].status # "DELETED"
    <3>1. ASSUME NEW r \in Request, RequestActs(r)
          PROVE  asset'[g].status # "DELETED"
      <4>1. CASE MarkDeleted(r)
        BY <2>1, <2>3, <2>5, <4>1 DEF MarkDeleted
      <4>2. CASE MarkFailed(r) \/ CreateAsset(r) \/ Switch(r)
        BY <2>1, <2>6, <4>2 DEF MarkFailed, CreateAsset, Switch
      <4>3. CASE ~ (MarkDeleted(r) \/ MarkFailed(r) \/ CreateAsset(r) \/ Switch(r))
        BY <2>1, <3>1, <4>3 DEF RequestActs, StoreFile, LinkImage, BeginUpload, StoreInternal, Stage,
         UndoStage, ChooseName, UploadRemote, Unstage, AuditStored, Retract, Aggregate,
         CreateImage, DeleteStored, RecordUpload, rows
      <4>. QED
        BY <4>1, <4>2, <4>3
    <3>2. ASSUME NEW d \in Deletion, Delete(d)
          PROVE  asset'[g].status # "DELETED"
      BY <2>1, <2>4, <2>5, <3>2 DEF Delete, ReadTarget, DeleteContent, DeleteRows, RecordDeletion, rows
    <3>. QED
      BY <1>0, <2>1, <3>1, <3>2, FileKinds, AroundFrame DEF rows
  <2>. QED
    BY <2>2, <2>7 DEF Accounted
<1>3. CASE remote[f] # NoFile /\ \E q \in Request : req[q].pc \in {"switch", "retract"} /\ req[q].item = f /\ File(q) = f
  <2>1. PICK q \in Request : req[q].pc \in {"switch", "retract"} /\ req[q].item = f /\ File(q) = f
    BY <1>3
  <2>2. CASE ~ RequestActs(q)
    <3>1. req'[q] = req[q]
      BY <1>0, <2>2, FileKinds, RequestFrame, DeletionFrame, AroundFrame
    <3>. QED
      BY <2>1, <3>1 DEF Accounted, File
  <2>3. CASE RequestActs(q) /\ req[q].pc = "retract"
    <3>1. DeleteRemoteQuietly(f)
      BY <1>0, <2>1, <2>3, StepAt DEF Retract
    <3>2. remote' = [remote EXCEPT ![f] = NoFile]
      BY <3>1 DEF DeleteRemoteQuietly
    <3>. QED
      BY <1>0, <3>2
  <2>4. CASE RequestActs(q) /\ req[q].pc = "switch"
    <3>1. Switch(q)
      BY <1>0, <2>4, StepAt
    <3>2. CASE ReqGoes(q, "retract")
      <4>1. req'[q].pc = "retract" /\ req'[q].item = f /\ req'[q].at = req[q].at
        BY <1>0, <2>1, <3>2, GoesOwn
      <4>. QED
        BY <2>1, <4>1 DEF Accounted, File
    <3>3. CASE SetAsset(f, "SYNCED", "ONEDRIVE", f)
      <4>1. asset'[f].item = f /\ asset'[f].status = "SYNCED"
        BY <1>0, <3>3 DEF SetAsset
      <4>. QED
        BY <4>1 DEF Accounted
    <3>. QED
      BY <2>1, <3>1, <3>2, <3>3 DEF Switch
  <2>. QED
    BY <2>1, <2>2, <2>3, <2>4
<1>. QED
  BY <1>1, <1>2, <1>3 DEF Tidy, RemoteAccounted, Accounted
\* A step of the request of a file accounts for its copy.
LEMMA LocalAccountedOwn ==
    ASSUME Tidy, ~ leaked', NEW r \in Request, RequestActs(r), NEW i \in DOMAIN FilesOf[r],
           i = req[r].at, NEW f \in Asset, f = File(r), f \in mock', ~ InUse(r, i)'
    PROVE  asset'[f].provider = "MOCK_LOCAL" /\ asset'[f].status \notin {"ABSENT", "DELETED"}
<1>0. /\ Types /\ RequestsOK /\ RequestRow(r) /\ f = FilesOf[r][i]
      /\ asset \in [Asset -> [status : {"ABSENT", "UPLOADING", "SYNCED", "FAILED", "DELETED"},
                              provider : {"MOCK_LOCAL", "ONEDRIVE"},
                              item : Asset \cup {NoFile}]]
      /\ req[r].pc \notin {"answered", "failed"} /\ req[r].pc \in RequestPc
  BY RequestFrame DEF Tidy, Types, FilesTypeOK, File, RequestsOK
<1>1. f \in mock /\ ~ InUse(r, i) =>
         asset[f].provider = "MOCK_LOCAL" /\ asset[f].status \notin {"ABSENT", "DELETED"}
  BY <1>0 DEF Tidy, LocalAccounted, InUse
<1>2. req[r].pc \in {"new", "store"} => f \notin mock
  BY <1>0 DEF Tidy, FilesWait, Waiting
<1>3. ASSUME NEW pc \in {"stored", "staged", "undo", "unstage"}, ReqGoes(r, pc)
      PROVE  FALSE
  BY <1>0, <1>3, GoesOwn DEF InUse
<1>4. CASE UNCHANGED <<asset, mock>> /\ req[r].pc \notin {"stored", "staged", "undo", "unstage"}
  BY <1>1, <1>4 DEF InUse
<1>5. CASE req[r].pc = "new"
  BY <1>0, <1>2, <1>5, StepAt DEF BeginUpload, StoreInternal, objects
<1>6. CASE req[r].pc = "store"
  BY <1>0, <1>2, <1>3, <1>6, StepAt DEF Stage
<1>7. CASE req[r].pc \in {"stored", "staged"}
  <2>1. CreateAsset(r)
    BY <1>0, <1>7, StepAt
  <2>2. PICK status \in {"SYNCED", "UPLOADING"} : SetAsset(f, status, "MOCK_LOCAL", NoFile)
    BY <1>3, <2>1 DEF CreateAsset
  <2>. QED
    BY <1>0, <2>2 DEF SetAsset
<1>8. CASE req[r].pc \in {"undo", "unstage"}
  <2>1. DeleteLocalQuietly(f)
    BY <1>0, <1>8, StepAt DEF UndoStage, Unstage
  <2>. QED
    BY <2>1 DEF DeleteLocalQuietly
<1>9. CASE req[r].pc \in {"upload", "put", "audit", "retract", "link", "create", "record"}
  <2>1. \/ ChooseName(r) \/ UploadRemote(r) \/ AuditStored(r) \/ Retract(r) \/ Aggregate(r)
        \/ CreateImage(r) \/ RecordUpload(r)
    BY <1>0, <1>9, StepAt
  <2>. QED
    BY <1>4, <1>9, <2>1 DEF ChooseName, UploadRemote, AuditStored, Retract, Aggregate, CreateImage,
       RecordUpload, rows, objects
<1>10. CASE req[r].pc = "switch"
  <2>1. Switch(r)
    BY <1>0, <1>10, StepAt
  <2>2. UNCHANGED <<asset, mock>>
    BY <1>3, <2>1 DEF Switch, objects
  <2>. QED
    BY <1>4, <1>10, <2>2
<1>11. CASE req[r].pc = "mark"
  <2>1. MarkFailed(r)
    BY <1>0, <1>11, StepAt
  <2>2. mock' = mock /\ (SetStatus(f, "FAILED") \/ UNCHANGED asset)
    BY <2>1 DEF MarkFailed, objects
  <2>3. asset[f].provider = "MOCK_LOCAL" /\ asset[f].status \notin {"ABSENT", "DELETED"}
    BY <1>1, <1>11, <2>2 DEF InUse
  <2>. QED
    BY <1>0, <2>2, <2>3 DEF SetStatus
<1>12. CASE req[r].pc = "unlink"
  <2>1. DeleteStored(r)
    BY <1>0, <1>12, StepAt
  <2>2. asset' = asset /\ f \in mock
    BY <2>1 DEF DeleteStored, rows, DeleteLocalQuietly
  <2>. QED
    BY <1>1, <1>12, <2>2 DEF InUse
<1>13. CASE req[r].pc = "undone"
  BY <1>0, <1>13, StepAt DEF Tidy, Undone, MarkDeleted, objects
<1>. QED
  BY <1>0, <1>5, <1>6, <1>7, <1>8, <1>9, <1>10, <1>11, <1>12, <1>13 DEF RequestPc

\* A local object is accounted for.
LEMMA LocalAccountedStep == Tidy /\ [FilesNext]_filesVars /\ ~ leaked' => LocalAccounted'
<1> SUFFICES ASSUME Tidy, [FilesNext]_filesVars, ~ leaked', NEW r \in Request, NEW i \in DOMAIN FilesOf[r],
                    FilesOf[r][i] \in mock', ~ InUse(r, i)'
             PROVE  /\ asset'[FilesOf[r][i]].provider = "MOCK_LOCAL"
                    /\ asset'[FilesOf[r][i]].status \notin {"ABSENT", "DELETED"}
  BY DEF LocalAccounted, InUse
<1>0. Types /\ RequestsOK /\ ~ ServerStops
      /\ asset \in [Asset -> [status : {"ABSENT", "UPLOADING", "SYNCED", "FAILED", "DELETED"},
                              provider : {"MOCK_LOCAL", "ONEDRIVE"},
                              item : Asset \cup {NoFile}]]
  BY StopFrame DEF Tidy, Types, FilesTypeOK
<1>1. PICK f \in Asset : f = FilesOf[r][i]
  BY FileStorageAssumption
<1>2. f \in mock /\ ~ InUse(r, i) =>
         asset[f].provider = "MOCK_LOCAL" /\ asset[f].status \notin {"ABSENT", "DELETED"}
  BY <1>1 DEF Tidy, LocalAccounted, InUse
<1>3. CASE RequestActs(r) /\ i = req[r].at
  BY <1>1, <1>3, LocalAccountedOwn DEF File
<1>4. CASE RequestActs(r) /\ i # req[r].at
  <2>1. f # File(r)
    BY <1>0, <1>1, <1>4, OwnFile
  <2>. QED
    BY <1>0, <1>1, <1>2, <1>4, <2>1, RequestFrame DEF InUse
<1>5. CASE ~ RequestActs(r)
  <2>1. req'[r] = req[r]
    BY <1>0, <1>5, FileKinds, RequestFrame, DeletionFrame, AroundFrame
  <2>2. ~ InUse(r, i)
    BY <2>1 DEF InUse
  <2>3. ASSUME NEW q \in Request, RequestActs(q)
        PROVE  asset'[f] = asset[f] /\ f \in mock
    <3>1. f # File(q)
      BY <1>0, <1>1, <1>5, <2>3, OwnFile
    <3>. QED
      BY <1>0, <1>1, <2>3, <3>1, RequestFrame
  <2>4. ASSUME NEW d \in Deletion, Delete(d)
        PROVE  asset'[f] = asset[f] /\ f \in mock
    <3>1. f \in mock
      BY <1>1, <2>4 DEF Delete, ReadTarget, DeleteContent, DeleteRows, RecordDeletion, objects
    <3>2. DeleteRows(d) => f # del[d].target
      BY <1>1, <3>1 DEF Tidy, Undone, DeleteRows
    <3>3. UNCHANGED asset \/ (DeleteRows(d) /\ SetStatus(del[d].target, "DELETED"))
      BY <2>4 DEF Delete, ReadTarget, DeleteContent, DeleteRows, RecordDeletion, rows
    <3>. QED
      BY <1>0, <3>1, <3>2, <3>3 DEF SetStatus
  <2>5. CASE Around
    BY <1>1, <1>2, <2>2, <2>5, AroundFrame DEF rows, objects
  <2>. QED
    BY <1>0, <1>1, <1>2, <2>2, <2>3, <2>4, <2>5, FileKinds
<1>. QED
  BY <1>3, <1>4, <1>5

\* A row of a file that was given up, or is being deleted, whose item is gone.
LEMMA GoneStays ==
    ASSUME Tidy, [FilesNext]_filesVars, NEW f \in Asset,
           asset[f].item # NoFile => remote[asset[f].item] = NoFile,
           asset'[f].item = asset[f].item
    PROVE  asset'[f].item # NoFile => remote'[asset'[f].item] = NoFile
<1> SUFFICES ASSUME asset[f].item # NoFile, remote'[asset[f].item] # NoFile
             PROVE  FALSE
  OBVIOUS
<1>0. Types /\ RequestsOK /\ asset[f].item \in Asset
  BY DEF Tidy, Types, FilesTypeOK
<1>1. PICK q \in Request : UploadRemote(q) /\ File(q) = asset[f].item
  BY <1>0, ItemStaysAway
<1>2. NotPut(q, req[q].at) /\ req[q].at \in DOMAIN FilesOf[q]
  BY <1>0, <1>1, FileOfRequest DEF NotPut, UploadRemote
<1>. QED
  BY <1>1, <1>2 DEF Tidy, ItemsOld, File

\* A row is marked deleted after its object is gone.
LEMMA UndoneStep == Tidy /\ [FilesNext]_filesVars /\ ~ leaked' => Undone'
<1> SUFFICES ASSUME Tidy, [FilesNext]_filesVars, ~ leaked'
             PROVE  Undone'
  OBVIOUS
<1>0. Types /\ RequestsOK /\ ~ ServerStops /\ NoFile \notin Asset /\ (\A r \in Request : RequestRow(r))
      /\ (\A f \in Asset : asset[f].item \in Asset \cup {NoFile} /\ asset[f].provider \in {"MOCK_LOCAL", "ONEDRIVE"})
      /\ (\A f \in Asset : asset[f].provider = "MOCK_LOCAL" <=> asset[f].item = NoFile)
      /\ remote = [g \in Asset |-> remote[g]]
  BY StopFrame, FileStorageAssumption DEF Tidy, Types, FilesTypeOK, RowsOK
<1>1. ASSUME NEW r \in Request, req'[r].pc = "undone"
      PROVE  /\ FilesOf[r][req'[r].at] \notin mock'
             /\ asset'[FilesOf[r][req'[r].at]].item # NoFile =>
                   remote'[asset'[FilesOf[r][req'[r].at]].item] = NoFile
  <2>0. PICK f \in Asset : f = File(r)
    BY <1>0, FileOfRequest
  <2>1. CASE RequestActs(r)
    <3>1. req[r].pc = "unlink"
      BY <1>0, <1>1, <2>1, RequestFollows DEF Before, RequestPc
    <3>2. DeleteStored(r)
      BY <1>0, <2>1, <3>1, StepAt
    <3>3. req'[r].at = req[r].at /\ asset' = asset
      BY <1>0, <3>2, GoesOwn DEF DeleteStored, rows
    <3>4. f = FilesOf[r][req'[r].at]
      BY <2>0, <3>3 DEF File
    <3>5. CASE asset[f].provider = "MOCK_LOCAL"
      <4>1. DeleteLocalQuietly(f)
        BY <2>0, <3>2, <3>5 DEF DeleteStored
      <4>. QED
        BY <1>0, <3>3, <3>4, <3>5, <4>1 DEF DeleteLocalQuietly
    <3>6. CASE asset[f].provider # "MOCK_LOCAL"
      <4>1. DeleteRemoteQuietly(asset[f].item) /\ mock' = mock
        BY <2>0, <3>2, <3>6 DEF DeleteStored
      <4>2. f \notin mock
        <5>1. req[r].at \in DOMAIN FilesOf[r] /\ f = FilesOf[r][req[r].at]
          BY <1>0, <2>0, FileOfRequest DEF File
        <5>. QED
          BY <3>1, <3>6, <5>1 DEF Tidy, LocalAccounted, InUse
      <4>3. remote' = [remote EXCEPT ![asset[f].item] = NoFile] /\ asset[f].item \in Asset
        BY <1>0, <3>6, <4>1 DEF DeleteRemoteQuietly
      <4>. QED
        BY <1>0, <3>3, <3>4, <4>1, <4>2, <4>3
    <3>. QED
      BY <3>5, <3>6
  <2>2. CASE ~ RequestActs(r)
    <3>1. /\ req'[r] = req[r] /\ asset'[f] = asset[f] /\ \A d \in Deletion : del[d].target # f
      BY <1>0, <1>1, <2>0, <2>2, Undisturbed DEF Ended, Tidy
    <3>2. f \notin mock /\ (asset[f].item # NoFile => remote[asset[f].item] = NoFile)
      BY <1>1, <2>0, <3>1 DEF Tidy, Undone
    <3>3. f \notin mock'
      <4>1. ASSUME NEW q \in Request, RequestActs(q)
            PROVE  f \notin mock'
        <5>1. f # File(q)
          BY <1>0, <2>0, <2>2, <4>1, OwnFile, FileOfRequest DEF File
        <5>. QED
          BY <1>0, <3>2, <4>1, <5>1, RequestFrame
      <4>2. ASSUME NEW d \in Deletion, Delete(d)
            PROVE  f \notin mock'
        BY <3>2, <4>2 DEF Delete, ReadTarget, DeleteContent, DeleteRows, RecordDeletion, objects
      <4>. QED
        BY <1>0, <3>2, <4>1, <4>2, FileKinds, AroundFrame DEF objects
    <3>4. asset'[f].item # NoFile => remote'[asset'[f].item] = NoFile
      BY <3>1, <3>2, GoneStays
    <3>. QED
      BY <2>0, <3>1, <3>3, <3>4 DEF File
  <2>. QED
    BY <2>1, <2>2
<1>2. ASSUME NEW d \in Deletion, del'[d].pc = "rows"
      PROVE  /\ del'[d].target \notin mock'
             /\ asset'[del'[d].target].item # NoFile => remote'[asset'[del'[d].target].item] = NoFile
  <2>1. CASE Delete(d)
    <3>1. DeleteContent(d) /\ DelGoes(d, "rows")
      <4>1. ASSUME NEW pc, DelGoes(d, pc)
            PROVE  pc = "rows"
        BY <1>0, <1>2, <4>1 DEF DelGoes, Types, DeletionsOK
      <4>2. ~ ReadTarget(d)
        BY <1>0, <1>2 DEF ReadTarget, Types, DeletionsOK
      <4>. QED
        BY <2>1, <4>1, <4>2 DEF Delete, DeleteContent, DeleteRows, RecordDeletion
    <3>2. PICK f \in Asset : f = del[d].target /\ del'[d].target = f
      BY <1>0, <3>1 DEF DelGoes, Types, DeletionsOK, DeleteContent
    <3>3. asset' = asset /\ ~ DelGoes(d, "failed")
      BY <1>0, <1>2, <3>1 DEF DeleteContent, rows, DelGoes, Types, DeletionsOK
    <3>4. CASE asset[f].provider = "MOCK_LOCAL"
      <4>1. mock' = mock \ {f}
        BY <3>1, <3>2, <3>3, <3>4 DEF DeleteContent
      <4>. QED
        BY <1>0, <3>2, <3>3, <3>4, <4>1
    <3>5. CASE asset[f].provider = "ONEDRIVE"
      <4>1. remote' = [remote EXCEPT ![asset[f].item] = NoFile] /\ mock' = mock
        BY <3>1, <3>2, <3>3, <3>5 DEF DeleteContent
      <4>2. asset[f].item \in Asset
        BY <1>0, <3>5
      <4>3. PICK r \in Request : \E i \in DOMAIN FilesOf[r] : f = FilesOf[r][i]
        BY <1>0, <4>2 DEF Tidy, NamesAgree
      <4>4. PICK i \in DOMAIN FilesOf[r] : f = FilesOf[r][i]
        BY <4>3
      <4>5. Past(r, i)
        BY <1>0, <3>2, <4>4 DEF Tidy, TargetsSettled, Settled
      <4>6. ~ (i = req[r].at /\ req[r].pc \in {"stored", "staged", "undo", "unstage"})
        <5>1. req[r].at \in Nat /\ i \in Nat
          BY FileStorageAssumption DEF Types, RequestsOK, Tidy
        <5>. QED
          BY <4>5, <5>1 DEF Past
      <4>7. f \notin mock
        BY <3>5, <4>4, <4>6 DEF Tidy, LocalAccounted, InUse
      <4>. QED
        BY <1>0, <3>2, <3>3, <4>1, <4>2, <4>7
    <3>. QED
      BY <1>0, <3>4, <3>5
  <2>2. CASE ~ Delete(d)
    <3>1. del'[d] = del[d]
      BY <1>0, <2>2, FileKinds, RequestFrame, DeletionFrame, AroundFrame
    <3>2. PICK f \in Asset : f = del[d].target
      BY <1>0, <1>2, <3>1 DEF Types, DeletionsOK
    <3>3. f \notin mock /\ (asset[f].item # NoFile => remote[asset[f].item] = NoFile) /\ Settled(f)
      BY <1>0, <1>2, <3>1, <3>2 DEF Tidy, Undone, TargetsSettled
    <3>4. f \notin mock' /\ asset'[f].item = asset[f].item
      <4>1. ASSUME NEW q \in Request, RequestActs(q)
            PROVE  f \notin mock' /\ asset'[f].item = asset[f].item
        BY <1>0, <3>3, <4>1, SettledAlone
      <4>2. ASSUME NEW e \in Deletion, Delete(e)
            PROVE  f \notin mock' /\ asset'[f].item = asset[f].item
        <5>1. UNCHANGED asset \/ SetStatus(del[e].target, "DELETED")
          BY <4>2 DEF Delete, ReadTarget, DeleteContent, DeleteRows, RecordDeletion, rows
        <5>2. f \notin mock'
          BY <3>3, <4>2 DEF Delete, ReadTarget, DeleteContent, DeleteRows, RecordDeletion, objects
        <5>. QED
          BY <1>0, <5>1, <5>2 DEF SetStatus, Types, FilesTypeOK
      <4>. QED
        BY <1>0, <3>3, <4>1, <4>2, FileKinds, AroundFrame DEF rows, objects
    <3>5. asset'[f].item # NoFile => remote'[asset'[f].item] = NoFile
      BY <3>3, <3>4, GoneStays
    <3>. QED
      BY <3>1, <3>2, <3>4, <3>5
  <2>. QED
    BY <2>1, <2>2
<1>. QED
  BY <1>1, <1>2 DEF Undone, File
(***************************************************************************)
(* Together.                                                               *)
(***************************************************************************)

\* An upload is recorded after its last file.
LEMMA CompleteStep == Types /\ Complete /\ [FilesNext]_filesVars => Complete'
<1> SUFFICES ASSUME Types, Complete, [FilesNext]_filesVars, NEW r \in Upload,
                    req'[r].pc \in {"record", "answered"}
             PROVE  req'[r].at = Len(FilesOf[r])
  BY DEF Complete
<1>0. RequestsOK /\ r \in Request /\ r \notin Internal
  BY FileStorageAssumption DEF Types, Request
<1>1. CASE RequestActs(r)
  <2>1. CASE req'[r].pc = "answered"
    <3>1. req[r].pc = "record"
      BY <1>0, <1>1, <2>1, RequestFollows DEF Before, RequestPc, RequestsOK
    <3>2. RecordUpload(r)
      BY <1>0, <1>1, <3>1, StepAt
    <3>. QED
      BY <1>0, <3>1, <3>2, GoesOwn DEF RecordUpload, Complete
  <2>2. CASE req'[r].pc = "record"
    <3>1. req[r].pc = "create"
      BY <1>0, <1>1, <2>2, RequestFollows DEF Before, RequestPc
    <3>2. CreateImage(r)
      BY <1>0, <1>1, <3>1, StepAt
    <3>3. NextFile(r)
      <4>1. ~ ReqGoes(r, "unlink")
        BY <1>0, <2>2, GoesOwn
      <4>. QED
        BY <3>2, <4>1, CreateLinks
    <3>4. ReqGoes(r, "record") /\ ~ (req[r].at < Len(FilesOf[r]))
      BY <1>0, <2>2, <3>3 DEF NextFile, RequestsOK
    <3>5. req[r].at \in DOMAIN FilesOf[r] /\ FilesOf[r] \in Seq(Asset)
      BY <1>0, FileStorageAssumption DEF RequestsOK
    <3>. QED
      BY <1>0, <3>4, <3>5, GoesOwn
  <2>. QED
    BY <2>1, <2>2
<1>2. CASE ~ RequestActs(r)
  <2>1. CASE ServerStops
    BY <1>0, <2>1, StopFrame DEF Ended, Complete
  <2>2. CASE ~ ServerStops
    <3>1. req'[r] = req[r]
      BY <1>0, <1>2, <2>2, FileKinds, RequestFrame, DeletionFrame, AroundFrame
    <3>. QED
      BY <3>1 DEF Complete
  <2>. QED
    BY <2>1, <2>2
<1>. QED
  BY <1>1, <1>2

\* Rows, copies and images: the invariant is kept.
LEMMA FilesInvStep == FilesInv /\ [FilesNext]_filesVars => FilesInv'
<1> SUFFICES ASSUME FilesInv, [FilesNext]_filesVars
             PROVE  FilesInv'
  OBVIOUS
<1>0. /\ Types /\ RowsOK /\ FilesWait /\ (\A r \in Request : RequestRow(r))
      /\ ImagesSettled /\ TargetsSettled /\ LocalKept /\ Linked /\ Complete /\ StagedUntilSynced
  BY DEF FilesInv, Types
<1>1. FilesTypeOK' /\ RequestsOK' /\ DeletionsOK'
  BY <1>0, FilesTypeStep, RequestsStep, DeletionsStep
<1>2. RowsOK' /\ FilesWait' /\ (\A r \in Request : RequestRow(r))'
  BY <1>0, RowsStep, WaitStep, RequestRowStep
<1>3. ImagesSettled' /\ TargetsSettled' /\ LocalKept'
  BY <1>0, ImagesStep, TargetsStep, LocalKeptStep
<1>4. Linked' /\ Complete' /\ StagedUntilSynced'
  BY <1>0, LinkedStep, CompleteStep, StagedStep
<1>. QED
  BY <1>1, <1>2, <1>3, <1>4 DEF FilesInv

\* The gallery: the invariant is kept.
LEMMA GalleryStep == FilesInv /\ GalleryInv /\ [FilesNext]_filesVars => GalleryInv'
<1> SUFFICES ASSUME FilesInv, GalleryInv, [FilesNext]_filesVars, ~ raced'
             PROVE  OneAtATime' /\ Limited' /\ Counted' /\ OnePrimary'
  BY DEF GalleryInv, Limited
<1>0. Types /\ ImagesSettled /\ TargetsSettled /\ OneAtATime /\ Limited /\ Counted /\ OnePrimary
  BY RacedGrows DEF FilesInv, GalleryInv, Types, Limited
<1>. QED
  BY <1>0, OneAtATimeStep, LimitedStep, CountedStep, PrimaryStep

\* Items at OneDrive: the invariant is kept.
LEMMA RemoteStep == FilesInv /\ GalleryInv /\ RemoteInv /\ [FilesNext]_filesVars => RemoteInv'
<1> SUFFICES ASSUME FilesInv, GalleryInv, RemoteInv, [FilesNext]_filesVars
             PROVE  NamesAgree' /\ SingleInv'
  BY DEF RemoteInv
<1>0. Remotely /\ ImagesSettled /\ (\A r \in Request : RequestRow(r)) /\ Types /\ NamesAgree
  BY DEF FilesInv, GalleryInv, RemoteInv, Types, Remotely
<1>. QED
  BY <1>0, NamesStep, SingleStep

\* Objects and their rows: the invariant is kept.
LEMMA OrphanStep == FilesInv /\ RemoteInv /\ OrphanInv /\ [FilesNext]_filesVars => OrphanInv'
<1> SUFFICES ASSUME FilesInv, RemoteInv, OrphanInv, [FilesNext]_filesVars
             PROVE  ItemsOld' /\ (~ leaked' => RemoteAccounted' /\ LocalAccounted' /\ Undone')
  BY DEF OrphanInv
<1>1. ItemsOld'
  BY ItemsOldStep DEF FilesInv, OrphanInv, Types
<1>2. ASSUME ~ leaked'
      PROVE  RemoteAccounted' /\ LocalAccounted' /\ Undone'
  <2>1. Tidy
    BY <1>2, LeakedGrows DEF FilesInv, RemoteInv, OrphanInv, Types, Tidy
  <2>. QED
    BY <1>2, <2>1, RemoteAccountedStep, LocalAccountedStep, UndoneStep
<1>. QED
  BY <1>1, <1>2

\* Everything holds at first.
LEMMA FilesBooksInit == FilesInit => FilesBooks
<1> SUFFICES ASSUME FilesInit
             PROVE  FilesBooks
  OBVIOUS
<1>0. /\ Types /\ asset = [f \in Asset |-> NoAsset] /\ image = [f \in Asset |-> NoFile] /\ mock = {}
      /\ remote = [f \in Asset |-> NoFile]
      /\ \A r \in Request : req[r].pc = "new" /\ req[r].at = 1 /\ req[r].item = NoFile
      /\ (\A d \in Deletion : del[d].pc = "new" /\ del[d].target = NoFile)
      /\ Images = {} /\ Upload \subseteq Request /\ NoFile \notin Asset
  BY FilesTypesInit, FileStorageAssumption DEF FilesInit, Images, Request
<1>a. \A r \in Request : \A i \in DOMAIN FilesOf[r] : FilesOf[r][i] \in Asset /\ i \in Nat /\ i >= 1
  BY FileStorageAssumption
<1>b. \A f \in Asset : asset[f] = NoAsset /\ image[f] = NoFile /\ remote[f] = NoFile
  BY <1>0
<1>1. FilesInv
  <2>1. RowsOK /\ FilesWait
    BY <1>0, <1>a, <1>b DEF RowsOK, FilesWait, NoAsset
  <2>2. \A r \in Request : RequestRow(r)
    BY <1>0 DEF RequestRow
  <2>3. ImagesSettled /\ TargetsSettled /\ LocalKept
    BY <1>0 DEF ImagesSettled, TargetsSettled, LocalKept
  <2>4. Linked /\ Complete
    BY <1>0, <1>a DEF Linked, Complete
  <2>5. StagedUntilSynced
    BY <1>0, <1>a, <1>b DEF StagedUntilSynced, NoAsset
  <2>. QED
    BY <1>0, <2>1, <2>2, <2>3, <2>4, <2>5 DEF FilesInv, Types
<1>2. GalleryInv
  <2>1. Cardinality(Images) = 0 /\ 0 <= MaxImages
    BY <1>0, FS_EmptySet, FileStorageAssumption
  <2>. QED
    BY <1>0, <2>1 DEF GalleryInv, OneAtATime, RoomLeft, Counted, OnePrimary, Ended
<1>3. RemoteInv
  BY <1>0, <1>b DEF RemoteInv, NamesAgree, SingleInv, SingleReq, NoAsset
<1>4. OrphanInv
  BY <1>0, <1>a, <1>b DEF OrphanInv, ItemsOld, RemoteAccounted, LocalAccounted, InUse, Undone, NoAsset
<1>. QED
  BY <1>1, <1>2, <1>3, <1>4 DEF FilesBooks

\* For any uploads, backups, deletions, files and names, any limit and any number
\* of faults and stops, the invariant holds (FilesService, both storage providers).
THEOREM FilesInvariant == FilesSpec => []FilesBooks
<1>1. FilesInit => FilesBooks
  BY FilesBooksInit
<1>2. FilesBooks /\ [FilesNext]_filesVars => FilesBooks'
  BY FilesInvStep, GalleryStep, RemoteStep, OrphanStep DEF FilesBooks
<1>. QED
  BY <1>1, <1>2, PTL DEF FilesSpec

\* What was uploaded is there: an image can be read at the provider its row names,
\* a row that is UPLOADING or FAILED has its staged copy, an answered upload has an
\* image for each file (storeFile, uploadProductImages).
THEOREM UploadsStayKept == FilesSpec => []UploadsKept
<1>1. FilesBooks => UploadsKept
  <2> SUFFICES ASSUME FilesBooks
               PROVE  UploadsKept
    OBVIOUS
  <2>0. Types /\ FilesInv /\ SingleInv
    BY DEF FilesBooks, FilesInv, RemoteInv, Types
  <2>1. ASSUME NEW f \in Images \ (BeingDeleted \cup Clashing)
        PROVE  asset[f].status = "SYNCED" /\ Stored(f)
    <3>1. /\ f \in Asset /\ asset[f].status = "SYNCED" /\ UploadFile(f)
          /\ asset[f].provider = "MOCK_LOCAL" <=> asset[f].item = NoFile
      BY <2>0, <2>1 DEF Images, FilesInv, ImagesSettled, RowsOK
    <3>2. CASE asset[f].provider = "ONEDRIVE"
      <4>1. Single(f)
        <5>1. PICK r \in Upload : \E i \in DOMAIN FilesOf[r] : f = FilesOf[r][i]
          BY <3>1 DEF UploadFile
        <5>2. ASSUME raced, NEW q \in Upload \ {r}, NEW j \in DOMAIN FilesOf[q]
              PROVE  NameOf[f] # NameOf[FilesOf[q][j]]
          BY <2>1, <3>1, <5>1, <5>2 DEF Clashing
        <5>. QED
          BY <5>1, <5>2 DEF Single
      <4>2. asset[f].item = f /\ remote[f] # NoFile /\ remote[f].file = f
        BY <2>0, <2>1, <3>1, <3>2, <4>1 DEF SingleInv
      <4>. QED
        BY <3>1, <3>2, <4>2 DEF Stored
    <3>3. CASE asset[f].provider # "ONEDRIVE"
      <4>1. asset[f].provider = "MOCK_LOCAL"
        BY <2>0, <3>1, <3>3 DEF Types, FilesTypeOK
      <4>. QED
        BY <2>0, <2>1, <3>1, <3>3, <4>1 DEF FilesInv, LocalKept, Stored
    <3>. QED
      BY <3>2, <3>3
  <2>2. AnsweredUploadsLinked
    <3> SUFFICES ASSUME NEW r \in Upload, req[r].pc = "answered", NEW i \in DOMAIN FilesOf[r]
                 PROVE  FilesOf[r][i] \in Images \cup BeingDeleted
      BY DEF AnsweredUploadsLinked
    <3>1. req[r].at = Len(FilesOf[r])
      BY <2>0 DEF FilesInv, Complete
    <3>2. FilesOf[r] \in Seq(Asset)
      BY FileStorageAssumption DEF Request
    <3>3. i < req[r].at \/ i = req[r].at
      BY <3>1, <3>2
    <3>. QED
      BY <2>0, <3>3 DEF FilesInv, Linked
  <2>. QED
    BY <2>0, <2>1, <2>2 DEF UploadsKept, FilesInv, ImagesReadable
<1>. QED
  BY <1>1, FilesInvariant, PTL

\* Requests about the images that do not overlap keep the limit, and exactly one
\* primary image (PRODUCT_IMAGE_LIMIT, isPrimary).
THEOREM GalleryInOrder == FilesSpec => []GalleryUnlessRaced
<1>1. FilesBooks => GalleryUnlessRaced
  <2> SUFFICES ASSUME FilesBooks, ~ raced
               PROVE  /\ Cardinality(Images) <= MaxImages
                      /\ Images # {} => Cardinality({f \in Images : image[f].primary}) = 1
    BY DEF GalleryUnlessRaced
  <2>1. Cardinality(Images) <= MaxImages /\ OnePrimary
    BY DEF FilesBooks, GalleryInv
  <2>2. ASSUME Images # {}
        PROVE  Cardinality({f \in Images : image[f].primary}) = 1
    <3>1. PICK f \in Images : \A g \in Images : image[g].primary <=> g = f
      BY <2>1, <2>2 DEF OnePrimary
    <3>2. {g \in Images : image[g].primary} = {f}
      BY <3>1
    <3>. QED
      BY <3>2, FS_Singleton
  <2>. QED
    BY <2>1, <2>2
<1>. QED
  BY <1>1, FilesInvariant, PTL

\* No object is left without a row that accounts for it, unless a call that cleans
\* up failed or the server stopped (the catches of storeFile and deleteStoredAsset).
THEOREM NothingOrphaned == FilesSpec => []NoOrphans
<1>1. FilesBooks => NoOrphans
  <2> SUFFICES ASSUME FilesBooks, ~ leaked, NEW r \in Request, req[r].pc \in {"answered", "failed"},
                      NEW i \in 1..req[r].at, NEW f, f = FilesOf[r][i]
               PROVE  /\ remote[f] # NoFile =>
                            \E g \in Asset : asset[g].item = f /\ asset[g].status # "DELETED"
                      /\ f \in mock =>
                            /\ asset[f].provider = "MOCK_LOCAL"
                            /\ asset[f].status \notin {"ABSENT", "DELETED"}
    BY DEF NoOrphans
  <2>0. Types /\ RequestsOK /\ RemoteAccounted /\ LocalAccounted
    BY DEF FilesBooks, FilesInv, OrphanInv, Types
  <2>1. i \in DOMAIN FilesOf[r] /\ f \in Asset
    <3>1. req[r].at \in DOMAIN FilesOf[r] /\ FilesOf[r] \in Seq(Asset)
      BY <2>0, FileStorageAssumption DEF RequestsOK
    <3>. QED
      BY <3>1
  <2>2. ASSUME remote[f] # NoFile
        PROVE  \E g \in Asset : asset[g].item = f /\ asset[g].status # "DELETED"
    <3>1. ASSUME NEW q \in Request, req[q].pc \in {"switch", "retract"}, File(q) = f
          PROVE  FALSE
      <4>1. q = r
        BY <2>0, <2>1, <3>1, OwnFile
      <4>. QED
        BY <3>1, <4>1
    <3>. QED
      BY <2>0, <2>1, <2>2, <3>1 DEF RemoteAccounted, Accounted
  <2>3. ASSUME f \in mock
        PROVE  asset[f].provider = "MOCK_LOCAL" /\ asset[f].status \notin {"ABSENT", "DELETED"}
    BY <2>0, <2>1, <2>3 DEF LocalAccounted, InUse
  <2>. QED
    BY <2>2, <2>3
<1>. QED
  BY <1>1, FilesInvariant, PTL

=============================================================================
