---------------------------- MODULE FileCustody ----------------------------
(***************************************************************************)
(* What the storage of files promises.                                     *)
(***************************************************************************)
EXTENDS FileStorage

FilesTypeOK ==
    /\ connected \in BOOLEAN /\ active \in BOOLEAN
    /\ asset \in [Asset -> [status : {"ABSENT", "UPLOADING", "SYNCED", "FAILED", "DELETED"},
                            provider : {"MOCK_LOCAL", "ONEDRIVE"},
                            item : Asset \cup {NoFile}]]
    /\ image \in [Asset -> {NoFile} \cup [sort : Nat, primary : BOOLEAN]]
    /\ mock \subseteq Asset
    /\ remote \in [Asset -> {NoFile} \cup [file : Asset, plain : BOOLEAN]]
    /\ faults \in 0..MaxFaults
    /\ leaked \in BOOLEAN /\ raced \in BOOLEAN

\* The provider that the row names has the content of the file.
Stored(f) ==
    IF asset[f].provider = "ONEDRIVE"
    THEN remote[asset[f].item] # NoFile /\ remote[asset[f].item].file = f
    ELSE f \in mock

\* Files whose object somebody has begun to delete.
BeingDeleted ==
    {del[d].target : d \in {e \in Deletion : del[e].pc \notin {"new", "content"}}}

\* Files of requests that overlapped, with the name of a file of another request.
Clashing ==
    {f \in Asset : /\ raced
                   /\ \E r, q \in Upload : \E i \in DOMAIN FilesOf[r], j \in DOMAIN FilesOf[q] :
                         r # q /\ f = FilesOf[r][i] /\ NameOf[f] = NameOf[FilesOf[q][j]]}

\* An image of a product can be read: its file is SYNCED and the provider of the
\* row has its content and no other, until a deletion reaches for it; whatever
\* fails, and however OneDrive comes and goes (storeFile, uploadProductImages).
\* Names have to differ when uploads overlap: availableFileName asks before the
\* upload, and the upload replaces.
ImagesReadable ==
    \A f \in Images \ (BeingDeleted \cup Clashing) :
        asset[f].status = "SYNCED" /\ Stored(f)

\* ADR-023: the staged copy of an image is deleted only after OneDrive has the
\* file and the row says so.  A row that is UPLOADING or FAILED still has it.
StagedUntilSynced ==
    \A r \in Upload : \A i \in DOMAIN FilesOf[r] :
        asset[FilesOf[r][i]].status \in {"UPLOADING", "FAILED"} => FilesOf[r][i] \in mock

\* The same of every file, as ADR-023 and the message of throwSyncFailed say.
EveryFileStagedUntilSynced ==
    \A f \in Asset : asset[f].status \in {"UPLOADING", "FAILED"} => f \in mock

\* An upload that was answered has an image for each of its files, unless
\* somebody deletes it; a file is never skipped (uploadProductImages).
AnsweredUploadsLinked ==
    \A r \in Upload : req[r].pc = "answered" =>
        \A i \in DOMAIN FilesOf[r] : FilesOf[r][i] \in Images \cup BeingDeleted

\* What was uploaded is there: linked and readable, or at least its staged copy
\* (storeFile, uploadProductImages), out of well-formed state.
UploadsKept == FilesTypeOK /\ ImagesReadable /\ StagedUntilSynced /\ AnsweredUploadsLinked

\* When no two requests about the images of the product overlapped, there are not
\* more of them than the limit, and exactly one is the primary one; failed steps
\* and restarts do not break this (PRODUCT_IMAGE_LIMIT, isPrimary).
GalleryUnlessRaced ==
    ~ raced =>
        /\ Cardinality(Images) <= MaxImages
        /\ Images # {} => Cardinality({f \in Images : image[f].primary}) = 1

\* No object is left without a row that accounts for it, once its request ended,
\* unless a call that cleans up failed or the server stopped.
NoOrphans ==
    ~ leaked =>
        \A r \in Request : req[r].pc \in {"answered", "failed"} =>
            \A i \in 1..req[r].at :
                LET f == FilesOf[r][i]
                IN /\ remote[f] # NoFile =>
                         \E g \in Asset : asset[g].item = f /\ asset[g].status # "DELETED"
                   /\ f \in mock =>
                         /\ asset[f].provider = "MOCK_LOCAL"
                         /\ asset[f].status \notin {"ABSENT", "DELETED"}

=============================================================================
