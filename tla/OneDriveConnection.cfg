\* Two authorisations, one restart, here or on another machine; the page asks for ever.
SPECIFICATION DriveSpec
CONSTANTS
    Nothing = Nothing
    Attempt = {a1, a2}
    MaxRestarts = 1
INVARIANTS ConnectionSound DisconnectHolds
PROPERTIES PageLeavesAuthorizing
