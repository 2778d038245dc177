SPECIFICATION Spec
CONSTANTS
    Vertices <- GraphVertices
    Root = "cluster0"
    Kids <- GraphKids
    Path <- GraphPath
    Type <- GraphType
    Size <- GraphSize
    Id <- GraphId
    Tracked = {"core"}
    XCheckerNJobs = 1073741824
    Policy = "high"
    Jobspecs <- NodeJobs
    ResourceLists <- NodeLists
    MaxJobs = 3
    PlannerExact = TRUE
PROPERTIES
    EarliestPoint
CHECK_DEADLOCK FALSE
