SPECIFICATION Spec
CONSTANTS
    None = None
    n1 = n1
    n2 = n2
    n3 = n3
    n4 = n4
    o1 = o1
    o2 = o2
    Node <- AllNodes
    Zone <- Zones
    Host <- Hosts
    Score <- Ranks
    Founders = {n1, n2, n3}
    Coordinators = {n1, n2}
    Object = {o1}
    Multipart = {}
    Small = {}
    MaxVersion = 3
    MaxFaults = 1
    Issuer = n1
    MaxData = 3
    MaxOps = 1
INVARIANTS
    TypeOK
    ReadableUnlessGap
    
PROPERTY LayoutsChain
CHECK_DEADLOCK FALSE
