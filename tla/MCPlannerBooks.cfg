SPECIFICATION Spec
CONSTANTS
    Total = 2
    BaseTimes = {0, 1}
    PlanLengths = {3}
    Times = {0, 1, 2, 3}
    Durations = {1, 2}
    Counts = {1, 2}
    Requests <- FewRequests
    MaxSpanId = 3
    MayOverrun = TRUE
    ExactSearch = TRUE
INVARIANTS
    TypeOK
    PointsIndexedOnce
    RefCountExact
    PointsAreSpanEnds
    LedgerExact
