SPECIFICATION Spec
CONSTANTS
    N = 4
    MarkPart = 3
    Settings = {"s"}
    Files <- Uploads
    TrailerLen = 1
    MaxChunk = 2
    Macs = {"m", "x"}
    Own = {"m"}
INVARIANTS
    TypeOK
    MarkedIsSaved
    ResetIsFinal
    NothingIsLost
    RestoreIsStored
PROPERTIES
    UnsignedChangesNothing
