CONSTANTS
    Chunks = 3
    Capacity = 2
SPECIFICATION FairSpec
INVARIANTS
    TypeOK
    PendingIsCurrent
    SuccessIsWhole
PROPERTIES
    SnapshotHasNoHole
    RpcSpec
    SessionEnds
CHECK_DEADLOCK FALSE
