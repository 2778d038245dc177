SPECIFICATION Spec
CONSTANTS
    Submissions <- AllSubmissions
    PlanEnd = 7
    LongWord = 16
    DefaultDuration = 5
    Word = 256
    Height <- AllHeights
INVARIANTS TypeOK SelectsLargest AcceptsGrammar RequestsUsable ChosenHoldCount PolicyHonoured
PROPERTY Answers
CHECK_DEADLOCK FALSE
