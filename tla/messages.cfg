\* Messages written, edited and confirmed under the watcher, at any stamp, with crashes.
CONSTANTS
    r1 = r1
    r2 = r2
    h1 = h1
    h2 = h2
    h3 = h3
    Rows = {r1, r2}
    Handlers = {h1, h2, h3}
    Nobody = Nobody
    MaxTime = 3
    MaxEvents = 1
    History = 1
    OwnInGroup = {}
    Moves = {"edit", "late", "restart", "touch"}
SPECIFICATION Spec
SYMMETRY Symmetry
CHECK_DEADLOCK FALSE
INVARIANTS
    TypeOK
    NothingSkipped
    NewOnce
    CaughtUp
    PassesDoNotPileUp
    Inductive
PROPERTIES
    FeedSpec
