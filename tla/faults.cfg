\* Messages and receipts with rows that cannot be read, failing and truncated queries.
CONSTANTS
    r1 = r1
    r2 = r2
    h1 = h1
    h2 = h2
    h3 = h3
    Rows = {r1, r2}
    Handlers = {h1, h2}
    Nobody = Nobody
    MaxTime = 4
    MaxEvents = 1
    History = 1
    OwnInGroup = {r2}
    Moves = {"read", "truncated", "scanError", "readError", "undecodable", "tapback", "unsent", "retract"}
SPECIFICATION Spec
SYMMETRY HandlerSymmetry
CHECK_DEADLOCK FALSE
INVARIANTS
    NothingSkipped
    CaughtUp
    
    NeverDeaf
