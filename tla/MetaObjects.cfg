SPECIFICATION Spec
CONSTANTS
    b1 = b1
    k1 = k1
    Bucket <- OneBucket
    Key <- OneKey
    MaxID = 5
    MaxTime = 0
    Skew = 0
    Duration <- NoDuration
    LockMode <- NoModes
    LockChoice <- Unlockable
    PartNumber <- TwoParts
INVARIANTS
    CurrentIsNewestLive
    VersionListsRight
    NoOrphanRows
    
PROPERTIES
    AppendOrdered
    
