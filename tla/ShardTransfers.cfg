SPECIFICATION FairSpec

CONSTANTS
    c1 = c1
    c2 = c2
    Coord <- TwoCoords
    Transfer <- TwoTransfers
    MaxID = 2
    Length = 2
    Window = 1
    Overlap = FALSE
    Errors <- HandledErrors
    MaxFaults = 1

INVARIANTS
    MarkerProvesBytes
    AckedWasDurable

PROPERTIES
    EveryTransferEnds

CHECK_DEADLOCK FALSE
