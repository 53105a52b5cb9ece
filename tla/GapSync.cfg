SPECIFICATION FairSpec
CONSTANTS
    MaxSeq = 4
    PageSize = 2
    MaxPages = 2
    Cursors = {2}
    MaxWire = 1
    MaxFaults <- FaultsBySeq
INVARIANTS
    TypeOK
    ArrivedIsStored
PROPERTIES
    WaterMarkKept
    AskedGapsFilled
CHECK_DEADLOCK FALSE
