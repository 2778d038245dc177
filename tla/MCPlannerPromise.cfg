SPECIFICATION Spec
CONSTANTS
    Total = 2
    BaseTimes = {0, 1}
    PlanLengths = {3}
    Times = {0, 1, 2, 3}
    Durations = {1, 2}
    Counts = {1, 2, 3}
    Requests <- AllRequests
    MaxSpanId = 3
    MayOverrun = FALSE
    ExactSearch = TRUE
INVARIANTS
    PointsBalanced
    AvailDuringExact
    AvailResourcesExact
    AnswersBookable

    
