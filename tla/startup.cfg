\* database/sql as it is: Scan without Next is an error.
CONSTANTS
    MaxConnects = 1
    Faults = {}
    ScanNeedsNext = TRUE
SPECIFICATION Spec
CHECK_DEADLOCK FALSE
INVARIANTS
    ErrorMeansFault
