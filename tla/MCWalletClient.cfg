CONSTANTS
    Devices = {d1, d2}
    MaxAsked = 3
    None = None
    Absent = Absent
    Empty = Empty
SPECIFICATION Spec
INVARIANTS
    TypeOK
    MemoryIsSaved
    CopayersOnTestnet
    JoinedMeansCopayer
PROPERTY
    StoredKeysAreSafe
