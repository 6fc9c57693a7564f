SPECIFICATION Spec
CONSTANTS
    Maps <- MCMaps
    Inf = 2000
    Penalty = 20
    TurnAround = 6
    Percent = {50, 75}
    MaxMoves = 1
INVARIANTS TypeOK ElementsInHeap LeastFirst LeadsToDst NearBest
\* The search ends.
CHECK_DEADLOCK FALSE
