SPECIFICATION Spec
CONSTANTS
    Vertices <- GraphVertices
    Root = "cluster0"
    Kids <- GraphKids
    Path <- GraphPath
    Type <- GraphType
    Size <- GraphSize
    Id <- GraphId
    Tracked = {"core"}
    XCheckerNJobs = 1073741824
    Policy = "high"
    Jobspecs <- SmallJobs
    ResourceLists <- SmallLists
    MaxJobs = 3
    PlannerExact = TRUE
INVARIANTS
    TypeOK
    TablesAgree
    SessionAgrees
    TagsLeadToBookings
    SubplansExact
    JobsGetWhatTheyAsked
    ExclusiveAlone
PROPERTIES
    ImplementsLedger
    EarliestPoint
CHECK_DEADLOCK FALSE
