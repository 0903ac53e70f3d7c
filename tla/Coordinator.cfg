SPECIFICATION Spec
CONSTANTS
    Width = 3
    DataShards <- MCDataShards
    Chunks = 3
    MaxOut = 2
    Window = 2
    CloseNeed = 2
    LimiterFloor = 1
    LimiterCeiling = 2
    LimiterStart = 1
    MaxOthers = 1
    Parts = 2
INVARIANTS
    TypeOK
    BodyWithinWindow
    AckedIsWhole
    InflightIsExact
    GetIsHonest
 
