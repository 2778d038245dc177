SPECIFICATION Spec
CONSTANTS
    Vertices <- GraphVertices
    Root = "cluster0"
    Kids <- GraphKids
    Path <- GraphPath
    Type <- GraphType
    Size <- GraphSize
    Id <- GraphId
    Tracked = {"core"}
    XCheckerNJobs = 1073741824
    Policy = "low"
    Jobspecs <- MixedJobs
    ResourceLists <- MixedLists
    MaxJobs = 4
    PlannerExact = FALSE
INVARIANTS
    JobsGetWhatTheyAsked
    MatchesFit
CHECK_DEADLOCK FALSE
