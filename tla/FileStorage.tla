---------------------------- MODULE FileStorage ----------------------------
(***************************************************************************)
(* FilesService and its two storage providers: a file is kept at a         *)
(* provider, its row in the database, and neither write knows of the       *)
(* other.  Files are images of a product, or internal files of backups.    *)
(*                                                                         *)
(* Every await is a step.  A call of a provider or of the database may     *)
(* fail, a call of OneDrive also after it took effect, and the server may  *)
(* stop between two steps.                                                 *)
(***************************************************************************)
EXTENDS Integers, Sequences, FiniteSets, FiniteSetsExt

CONSTANTS
    Upload,      \* bound: requests that upload images of the product
    Internal,    \* bound: files that backups store
    Deletion,    \* bound: requests that delete an image or an internal file
    Asset,       \* bound: files
    FilesOf,     \* the files of a request, in their order
    NameOf,      \* the names of the files in their folders
    MaxImages,   \* MAX_PRODUCT_IMAGES
    MaxFaults,   \* bound: calls that fail, and stops of the server
    NoFile

Request == Upload \cup Internal

\* A file belongs to one request; images and files of backups are in different folders.
ASSUME FileStorageAssumption ==
    /\ IsFiniteSet(Asset)
    /\ Upload \cap Internal = {} /\ Request \cap Deletion = {}
    /\ FilesOf \in [Request -> Seq(Asset)]
    /\ DOMAIN NameOf = Asset
    /\ \A r \in Request : Len(FilesOf[r]) > 0
    /\ \A r, q \in Request : \A i \in DOMAIN FilesOf[r], j \in DOMAIN FilesOf[q] :
          FilesOf[r][i] = FilesOf[q][j] => r = q /\ i = j
    /\ \A r \in Upload, q \in Internal : \A i \in DOMAIN FilesOf[r], j \in DOMAIN FilesOf[q] :
          NameOf[FilesOf[r][i]] # NameOf[FilesOf[q][j]]
    /\ MaxImages \in Nat \ {0} /\ MaxFaults \in Nat
    /\ NoFile \notin Asset \cup [sort : Nat, primary : BOOLEAN] \cup [file : Asset, plain : BOOLEAN]

VARIABLES
    connected,  \* isConnected of OneDriveService
    active,     \* the product is ACTIVE
    asset,      \* the FileAsset rows
    image,      \* the ProductImage of an asset, or NoFile
    mock,       \* objects of MockStorageProvider
    remote,     \* items at OneDrive, by the file for which they were created: the
                \* file they hold, and whether they have its plain name
    req,        \* the requests that store
    del,        \* the requests that delete
    faults,     \* faults so far, for MaxFaults
    leaked,     \* only for the properties: a fault left an object behind
    raced       \* only for the properties: two requests about images overlapped

rows == <<asset, image>>
objects == <<mock, remote>>
environment == <<connected, active>>
fileGhosts == <<leaked, raced>>
filesVars == <<environment, rows, objects, req, del, faults, fileGhosts>>

NoAsset == [status |-> "ABSENT", provider |-> "MOCK_LOCAL", item |-> NoFile]

FilesInit ==
    /\ connected \in BOOLEAN /\ active = TRUE
    /\ asset = [f \in Asset |-> NoAsset]
    /\ image = [f \in Asset |-> NoFile]
    /\ mock = {} /\ remote = [f \in Asset |-> NoFile]
    /\ req = [r \in Request |-> [pc |-> "new", at |-> 1, plain |-> FALSE, item |-> NoFile,
                            count |-> 0, max |-> 0]]
    /\ del = [d \in Deletion |-> [pc |-> "new", target |-> NoFile, primary |-> FALSE]]
    /\ faults = 0 /\ leaked = FALSE /\ raced = FALSE

File(r) == FilesOf[r][req[r].at]

Images == {f \in Asset : image[f] # NoFile}

Ended == {"new", "answered", "failed"}

\* Some other request about the images of the product is in progress.
Overlaps(r) ==
    \/ \E u \in Upload \ {r} : req[u].pc \notin Ended
    \/ \E d \in Deletion \ {r} : del[d].pc \notin Ended /\ del[d].target \in Images

SetAsset(f, status, provider, item) ==
    asset' = [asset EXCEPT ![f] = [status |-> status, provider |-> provider, item |-> item]]

SetStatus(f, status) == asset' = [asset EXCEPT ![f].status = status]

ReqGoes(r, pc) == req' = [req EXCEPT ![r].pc = pc]

\* A call fails.
Fault == faults < MaxFaults /\ faults' = faults + 1

\* delete of a provider whose error is ignored: then the object stays behind.
\* An object that is not there counts as deleted.
DeleteLocalQuietly(f) ==
    \/ mock' = mock \ {f} /\ UNCHANGED <<faults, leaked>>
    \/ Fault /\ leaked' = TRUE /\ UNCHANGED mock

DeleteRemoteQuietly(item) ==
    \/ connected /\ remote' = [remote EXCEPT ![item] = NoFile] /\ UNCHANGED <<faults, leaked>>
    \/ ~ connected /\ leaked' = TRUE /\ UNCHANGED <<remote, faults>>
    \/ Fault /\ leaked' = TRUE /\ UNCHANGED remote

(***************************************************************************)
(* uploadProductImages and storeInternal, up to the file.                  *)
(***************************************************************************)

WithinLimit(r) == Cardinality(Images) + Len(FilesOf[r]) <= MaxImages

\* The product has to be active, and its images few enough.
BeginUpload(r) ==
    /\ req[r].pc = "new"
    /\ ReqGoes(r, IF active /\ WithinLimit(r) THEN "store" ELSE "failed")
    /\ raced' = (raced \/ Overlaps(r))
    /\ UNCHANGED <<environment, rows, objects, del, faults, leaked>>

StoreInternal(r) ==
    /\ req[r].pc = "new"
    /\ ReqGoes(r, "store")
    /\ UNCHANGED <<environment, rows, objects, del, faults, fileGhosts>>

(***************************************************************************)
(* storeFile.                                                              *)
(***************************************************************************)

\* MockStorageProvider.upload: the file itself, or the copy that is staged until
\* OneDrive has it.
Stage(r) ==
    /\ req[r].pc = "store"
    /\ \/ /\ mock' = mock \cup {File(r)}
          /\ ReqGoes(r, IF connected THEN "staged" ELSE "stored")
          /\ UNCHANGED faults
       \/ Fault /\ ReqGoes(r, "failed") /\ UNCHANGED mock
    /\ UNCHANGED <<environment, rows, remote, del, fileGhosts>>

\* createAsset.  Without its row the object is deleted again.
CreateAsset(r) ==
    /\ req[r].pc \in {"stored", "staged"}
    /\ \/ /\ SetAsset(File(r), IF req[r].pc = "stored" THEN "SYNCED" ELSE "UPLOADING",
                 "MOCK_LOCAL", NoFile)
          /\ ReqGoes(r, IF req[r].pc = "staged" THEN "upload"
                     ELSE IF r \in Upload THEN "link" ELSE "audit")
          /\ UNCHANGED faults
       \/ Fault /\ ReqGoes(r, "undo") /\ UNCHANGED asset
    /\ UNCHANGED <<environment, image, objects, del, fileGhosts>>

UndoStage(r) ==
    /\ req[r].pc = "undo"
    /\ ReqGoes(r, "failed")
    /\ DeleteLocalQuietly(File(r))
    /\ UNCHANGED <<environment, rows, remote, del, raced>>

\* Items of a folder with the name of a file, as it was given.
Namesakes(f) ==
    {g \in Asset : remote[g] # NoFile /\ remote[g].plain /\ NameOf[g] = NameOf[f]}

\* availableFileName adds a suffix to a name that is taken.
ChooseName(r) ==
    /\ req[r].pc = "upload"
    /\ \/ /\ connected
          /\ req' = [req EXCEPT ![r].pc = "put", ![r].plain = Namesakes(File(r)) = {}]
          /\ UNCHANGED faults
       \/ ~ connected /\ ReqGoes(r, "mark") /\ UNCHANGED faults
       \/ Fault /\ ReqGoes(r, "mark")
    /\ UNCHANGED <<environment, rows, objects, del, fileGhosts>>

\* The upload itself: an item with this name is replaced and keeps its id.
Target(r) == IF req[r].plain /\ Namesakes(File(r)) # {}
             THEN CHOOSE g \in Namesakes(File(r)) : TRUE ELSE File(r)

Put(r) == remote' = [remote EXCEPT ![Target(r)] = [file |-> File(r), plain |-> req[r].plain]]

\* Mutant: the staged copy is deleted with the upload, before the row is switched.
UploadRemoteUnstaged(r) ==
    /\ req[r].pc = "put"
    /\ mock' = mock \ {File(r)}
    /\ \/ /\ connected
          /\ Put(r)
          /\ req' = [req EXCEPT ![r].pc = "switch", ![r].item = Target(r)]
          /\ UNCHANGED faults
       \/ /\ ~ connected \/ Fault
          /\ ReqGoes(r, "mark")
          /\ UNCHANGED <<remote, faults>>
    /\ UNCHANGED <<environment, rows, del, fileGhosts>>

\* The answer may be lost on the way.
UploadRemote(r) ==
    /\ req[r].pc = "put"
    /\ \/ /\ connected
          /\ Put(r)
          /\ req' = [req EXCEPT ![r].pc = "switch", ![r].item = Target(r)]
          /\ UNCHANGED <<faults, leaked>>
       \/ /\ ~ connected
          /\ ReqGoes(r, "mark")
          /\ UNCHANGED <<remote, faults, leaked>>
       \/ /\ connected /\ Fault
          /\ ReqGoes(r, "mark")
          /\ \/ UNCHANGED <<remote, leaked>>
             \/ Put(r) /\ leaked' = TRUE
    /\ UNCHANGED <<environment, rows, mock, del, raced>>

\* The row refers to the item at OneDrive from now on; two rows cannot.
Switch(r) ==
    /\ req[r].pc = "switch"
    /\ LET free == \A f \in Asset : asset[f].item # req[r].item
       IN \/ /\ free
             /\ SetAsset(File(r), "SYNCED", "ONEDRIVE", req[r].item)
             /\ ReqGoes(r, "unstage") /\ UNCHANGED faults
          \/ ~ free /\ ReqGoes(r, "retract") /\ UNCHANGED <<asset, faults>>
          \/ Fault /\ ReqGoes(r, "retract") /\ UNCHANGED asset
    /\ UNCHANGED <<environment, image, objects, del, fileGhosts>>

Unstage(r) ==
    /\ req[r].pc = "unstage"
    /\ ReqGoes(r, IF r \in Upload THEN "link" ELSE "audit")
    /\ DeleteLocalQuietly(File(r))
    /\ UNCHANGED <<environment, rows, remote, del, raced>>

\* recordUpload.  Its error deletes the object that has just been stored.
AuditStored(r) ==
    /\ req[r].pc = "audit"
    /\ \/ ReqGoes(r, "answered") /\ UNCHANGED faults
       \/ /\ Fault
          /\ ReqGoes(r, IF asset[File(r)].provider = "ONEDRIVE" THEN "retract" ELSE "undo")
    /\ UNCHANGED <<environment, rows, objects, del, fileGhosts>>

\* The catch of storeFile: what is at OneDrive is deleted,
Retract(r) ==
    /\ req[r].pc = "retract"
    /\ ReqGoes(r, "mark")
    /\ DeleteRemoteQuietly(req[r].item)
    /\ UNCHANGED <<environment, rows, mock, del, raced>>

\* and the row says FAILED, unless the database fails too.
MarkFailed(r) ==
    /\ req[r].pc = "mark"
    /\ ReqGoes(r, "failed")
    /\ \/ SetStatus(File(r), "FAILED") /\ UNCHANGED faults
       \/ Fault /\ UNCHANGED asset
    /\ UNCHANGED <<environment, image, objects, del, fileGhosts>>

(***************************************************************************)
(* The image of a file that was stored.                                    *)
(***************************************************************************)

\* aggregate reads, and create writes, in one transaction at Read Committed.
Aggregate(r) ==
    /\ req[r].pc = "link"
    /\ req' = [req EXCEPT ![r].pc = "create",
                          ![r].count = Cardinality(Images),
                          ![r].max = Max({-1} \cup {image[f].sort : f \in Images})]
    /\ UNCHANGED <<environment, rows, objects, del, faults, fileGhosts>>

NextFile(r) ==
    IF req[r].at < Len(FilesOf[r])
    THEN req' = [req EXCEPT ![r].pc = "store", ![r].at = @ + 1]
    ELSE ReqGoes(r, "record")

\* The sort order of an image is unique in its product.
CreateImage(r) ==
    /\ req[r].pc = "create"
    /\ LET sort == req[r].max + 1
       IN \/ /\ \A f \in Images : image[f].sort # sort
             /\ image' = [image EXCEPT ![File(r)] =
                             [sort |-> sort, primary |-> req[r].count = 0]]
             /\ NextFile(r)
             /\ UNCHANGED faults
          \/ /\ \E f \in Images : image[f].sort = sort
             /\ ReqGoes(r, "unlink")
             /\ UNCHANGED <<image, faults>>
          \/ Fault /\ ReqGoes(r, "unlink") /\ UNCHANGED image
    /\ UNCHANGED <<environment, asset, objects, del, fileGhosts>>

\* Mutant: only the row is marked, the object stays.
DeleteStoredRowOnly(r) ==
    /\ req[r].pc = "unlink"
    /\ ReqGoes(r, "undone")
    /\ UNCHANGED <<environment, rows, objects, del, faults, fileGhosts>>

\* deleteStoredAsset ignores the errors of both its calls.
DeleteStored(r) ==
    /\ req[r].pc = "unlink"
    /\ ReqGoes(r, "undone")
    /\ IF asset[File(r)].provider = "MOCK_LOCAL"
       THEN DeleteLocalQuietly(File(r)) /\ UNCHANGED remote
       ELSE DeleteRemoteQuietly(asset[File(r)].item) /\ UNCHANGED mock
    /\ UNCHANGED <<environment, rows, del, raced>>

MarkDeleted(r) ==
    /\ req[r].pc = "undone"
    /\ ReqGoes(r, "failed")
    /\ \/ SetStatus(File(r), "DELETED") /\ UNCHANGED faults
       \/ Fault /\ UNCHANGED asset
    /\ UNCHANGED <<environment, image, objects, del, fileGhosts>>

\* The audit record of the request comes last; its error is the answer.
RecordUpload(r) ==
    /\ req[r].pc = "record"
    /\ \/ ReqGoes(r, "answered") /\ UNCHANGED faults
       \/ Fault /\ ReqGoes(r, "failed")
    /\ UNCHANGED <<environment, rows, objects, del, fileGhosts>>

(***************************************************************************)
(* deleteProductImage and deleteInternalStorage.                           *)
(***************************************************************************)

DelGoes(d, pc) == del' = [del EXCEPT ![d].pc = pc]

\* Files that a deletion may ask for: images, and what a backup has stored.
Deletable ==
    Images \cup {FilesOf[r][1] : r \in {q \in Internal : req[q].pc = "answered"}}

ReadTarget(d) ==
    /\ del[d].pc = "new"
    /\ \E f \in Deletable :
          /\ asset[f].status # "DELETED"
          /\ del' = [del EXCEPT ![d] = [pc |-> "content", target |-> f,
                                        primary |-> f \in Images /\ image[f].primary]]
          /\ raced' = (raced \/ (f \in Images /\ Overlaps(d)))
    /\ UNCHANGED <<environment, rows, objects, req, faults, leaked>>

\* delete of the provider; an object that is not there counts as deleted.
DeleteContent(d) ==
    /\ del[d].pc = "content"
    /\ LET f == del[d].target
       IN \/ /\ asset[f].provider = "MOCK_LOCAL"
             /\ mock' = mock \ {f} /\ UNCHANGED <<remote, faults>>
             /\ DelGoes(d, "rows")
          \/ /\ asset[f].provider = "ONEDRIVE" /\ connected
             /\ remote' = [remote EXCEPT ![asset[f].item] = NoFile] /\ UNCHANGED <<mock, faults>>
             /\ DelGoes(d, "rows")
          \/ /\ asset[f].provider = "ONEDRIVE" /\ ~ connected
             /\ DelGoes(d, "failed") /\ UNCHANGED <<objects, faults>>
          \/ Fault /\ DelGoes(d, "failed") /\ UNCHANGED objects
    /\ UNCHANGED <<environment, rows, req, fileGhosts>>

\* Mutant: nobody inherits.
PromotedNobody(f, wasPrimary) == [image EXCEPT ![f] = NoFile]

\* The first of the images that are left, if the deleted one was the primary one
\* when it was read.
Promoted(f, wasPrimary) ==
    LET others == Images \ {f}
        first == CHOOSE g \in others : \A h \in others : image[g].sort <= image[h].sort
    IN IF wasPrimary /\ others # {}
       THEN [image EXCEPT ![f] = NoFile, ![first].primary = TRUE]
       ELSE [image EXCEPT ![f] = NoFile]

DeleteRows(d) ==
    /\ del[d].pc = "rows"
    /\ LET f == del[d].target
       IN \/ /\ f \in Images
             /\ image' = Promoted(f, del[d].primary)
             /\ SetStatus(f, "DELETED") /\ DelGoes(d, "record") /\ UNCHANGED faults
          \/ /\ \E r \in Internal : f = FilesOf[r][1]
             /\ SetStatus(f, "DELETED") /\ DelGoes(d, "record") /\ UNCHANGED <<image, faults>>
          \/ /\ f \notin Images /\ \A r \in Internal : f # FilesOf[r][1]
             /\ DelGoes(d, "failed") /\ UNCHANGED <<rows, faults>>
          \/ Fault /\ DelGoes(d, "failed") /\ UNCHANGED rows
    /\ UNCHANGED <<environment, objects, req, fileGhosts>>

RecordDeletion(d) ==
    /\ del[d].pc = "record"
    /\ \/ DelGoes(d, "answered") /\ UNCHANGED faults
       \/ Fault /\ DelGoes(d, "failed")
    /\ UNCHANGED <<environment, rows, objects, req, fileGhosts>>

(***************************************************************************)
(* What happens around: OneDrive is connected, lost or disconnected, the   *)
(* product is deactivated, the server stops.                               *)
(***************************************************************************)

ConnectionChanges ==
    /\ Fault
    /\ connected' = ~ connected
    /\ UNCHANGED <<active, rows, objects, req, del, fileGhosts>>

DeactivateProduct ==
    /\ active
    /\ active' = FALSE
    /\ UNCHANGED <<connected, rows, objects, req, del, faults, fileGhosts>>

ServerStops ==
    /\ Fault
    /\ req' = [r \in Request |-> IF req[r].pc \in Ended THEN req[r]
                                 ELSE [req[r] EXCEPT !.pc = "failed"]]
    /\ del' = [d \in Deletion |-> IF del[d].pc \in Ended THEN del[d]
                                  ELSE [del[d] EXCEPT !.pc = "failed"]]
    /\ leaked' = TRUE
    /\ UNCHANGED <<environment, rows, objects, raced>>

-----------------------------------------------------------------------------

StoreFile(r) ==
    \/ Stage(r) \/ CreateAsset(r) \/ UndoStage(r)
    \/ ChooseName(r) \/ UploadRemote(r) \/ Switch(r) \/ Unstage(r)
    \/ AuditStored(r) \/ Retract(r) \/ MarkFailed(r)

LinkImage(r) ==
    Aggregate(r) \/ CreateImage(r) \/ DeleteStored(r) \/ MarkDeleted(r) \/ RecordUpload(r)

Delete(d) == ReadTarget(d) \/ DeleteContent(d) \/ DeleteRows(d) \/ RecordDeletion(d)

FilesNext ==
    \/ \E r \in Upload : BeginUpload(r) \/ LinkImage(r)
    \/ \E r \in Internal : StoreInternal(r)
    \/ \E r \in Request : StoreFile(r)
    \/ \E d \in Deletion : Delete(d)
    \/ ConnectionChanges \/ DeactivateProduct \/ ServerStops

FilesSpec == FilesInit /\ [][FilesNext]_filesVars

=============================================================================
