SPECIFICATION Spec
CONSTANTS
    Vertices <- GraphVertices
    Root = "cluster0"
    Kids <- GraphKids
    Path <- GraphPath
    Type <- GraphType
    Size <- GraphSize
    Id <- GraphId
    Tracked = {"core"}
    XCheckerNJobs = 1073741824
    Policy = "high"
    Jobspecs <- ExclusiveJobs
    ResourceLists <- ExclusiveLists
    MaxJobs = 2
    PlannerExact = TRUE
INVARIANTS
    ExclusiveNotShared
CHECK_DEADLOCK FALSE
