\* Two uploads and a backup store, a deletion, one fault.  The system stops when
\* the requests of the bound are used.
SPECIFICATION FilesSpec
CONSTANTS
    u1 = u1 u2 = u2 b1 = b1 d1 = d1
    f1 = f1 f2 = f2 f3 = f3 f4 = f4 NoFile = NoFile
    Upload = {u1, u2}
    Internal = {b1}
    Deletion = {d1}
    Asset = {f1, f2, f3, f4}
    FilesOf <- Files
    NameOf <- Names
    MaxImages = 2
    MaxFaults = 1
INVARIANTS UploadsKept GalleryUnlessRaced NoOrphans
CHECK_DEADLOCK FALSE
