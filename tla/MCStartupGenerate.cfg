SPECIFICATION Spec
CONSTANTS
    Files <- FilesOf
    Params <- AllParams
INVARIANTS TypeOK     SubsystemsFound OrphansHidden
PROPERTY Ends
CHECK_DEADLOCK FALSE
