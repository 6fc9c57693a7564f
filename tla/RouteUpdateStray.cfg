SPECIFICATION Spec
CONSTANTS
    d1 = d1
    d2 = d2
    d3 = d3
    DestId <- MCDestId
    NoDest = NoDest
    PosInfo = PosInfo
    MaxDest = 3
    BuildSteps = 1
    PositionKinds <- OnStreets
    Osrm = FALSE
    FreedBlockReused = TRUE
INVARIANT BusyMeansBuilding
CHECK_DEADLOCK FALSE
