SPECIFICATION Spec
CONSTANTS
    Submissions <- EmptyAttributes
    PlanEnd = 7
    LongWord = 16
    DefaultDuration = 5
    Word = 256
    Height <- FewHeights
INVARIANT AttributesMayBeEmpty
CHECK_DEADLOCK FALSE
