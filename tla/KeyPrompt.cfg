SPECIFICATION FairSpec
CONSTANTS
    n1 = n1
    n2 = n2
    r1 = r1
    r2 = r2
    Node <- TwoNodes
    KEK <- ThreeKeys
    Founding = 1
    Row <- TwoRows
    Part <- NoPart
    Prompt = TRUE
    Legacy = FALSE
    MaxLost = 1
INVARIANTS
    FingerprintIsTrue
    
    ReadableWithKey
PROPERTIES
    RotationCompletes
