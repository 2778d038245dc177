SPECIFICATION Spec
CONSTANTS
    Total = 2
    BaseTimes = {0}
    PlanLengths = {4}
    Times = {0, 1, 3}
    Durations = {1, 2, 3}
    Counts = {1}
    Requests <- ShortAndLong
    MaxSpanId = 3
    MayOverrun = FALSE
PROPERTY
    FirstIsEarliest
