SPECIFICATION FairSpec
CONSTANTS
    n1 = n1
    n2 = n2
    n3 = n3
    p = p
    q = q
    Node <- TwoNodes
    Op <- TwoPuts
    Refused <- OneRefused
    Faults <- LossesAndTimeouts
    MaxTerm = 1
    MaxAttempts = 2
CHECK_DEADLOCK FALSE
INVARIANTS
    TypeOK
    AckedIsCommitted
PROPERTIES
    EveryPutAnswered
