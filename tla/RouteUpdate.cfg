SPECIFICATION HistorySpec
CONSTANTS
    d1 = d1
    d2 = d2
    d3 = d3
    DestId <- MCDestId
    NoDest = NoDest
    PosInfo = PosInfo
    MaxDest = 3
    BuildSteps = 2
    PositionKinds <- Anywhere
    Osrm = TRUE
    FreedBlockReused = TRUE
INVARIANTS TypeOK PathHasGraph PathLeadsToNext GraphServesDst BusyUnlessHit StatusHonest
           FloodHasBothEnds
PROPERTY RouteSettles
CHECK_DEADLOCK FALSE
