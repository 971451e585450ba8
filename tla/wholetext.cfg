\* Is the whole text of a body shown?
CONSTANTS
    N = 3
    MaxEdits = 1
    MaxQueue = 1
    MaxRuns = 2
SPECIFICATION Spec
CHECK_DEADLOCK FALSE
INVARIANTS
    WholeText
