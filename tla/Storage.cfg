SPECIFICATION Spec
CONSTANTS
    MaxIndex = 3
    MaxTerm = 2
    PutAt = {2, 3}
    ConfAt = {1}
    SnapshotEntries = 2
    MaxCrashes = 2
    MaxWipes = 1
    MayForce = TRUE
    CutCrash = FALSE
INVARIANTS
    TypeOK
    StoreIsExact
    ConfIsExact
PROPERTIES
    DiskIsDurableLog
CHECK_DEADLOCK FALSE
