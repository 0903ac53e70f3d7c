SPECIFICATION Spec
CONSTANTS
    b1 = b1
    k1 = k1
    Bucket <- OneBucket
    Key <- OneKey
    MaxID = 2
    MaxTime = 2
    Skew = 1
    Duration <- OneDuration
    LockMode <- BothModes
    LockChoice <- Either
    PartNumber <- NoParts
INVARIANTS
    ComplianceKept
PROPERTIES
    LockedSurvives
