\* A message of three parts, edited and taken back part by part.
CONSTANTS
    N = 3
    MaxEdits = 1
    MaxQueue = 1
    MaxRuns = 2
SPECIFICATION Spec
CHECK_DEADLOCK FALSE
INVARIANTS
    TypeOK
    
    ShownIsCurrent
PROPERTIES
    StaysVisible
