SPECIFICATION Spec
CONSTANTS
    n1 = n1
    n2 = n2
    n3 = n3
    p = p
    q = q
    Node <- ThreeNodes
    Op <- TwoPuts
    Refused <- NoneRefused
    Faults <- Elections
    MaxTerm = 2
    MaxAttempts = 1
CHECK_DEADLOCK FALSE
SYMMETRY NodeSymmetry
INVARIANTS
    AckedIsCommitted
