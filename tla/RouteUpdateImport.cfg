SPECIFICATION ClaimsSpec
CONSTANTS
    d1 = d1
    d2 = d2
    d3 = d3
    DestId <- MCDestId
    NoDest = NoDest
    PosInfo = PosInfo
    MaxDest = 3
    BuildSteps = 1
    PositionKinds <- OnStreets
    Osrm = TRUE
    FreedBlockReused = FALSE
INVARIANT GraphDestroyedOnChange
CHECK_DEADLOCK FALSE
