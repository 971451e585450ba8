\* Fair goroutines, a stream of events, Disconnect.
CONSTANTS
    r1 = r1
    r2 = r2
    h1 = h1
    h2 = h2
    h3 = h3
    Rows = {r1, r2}
    Handlers = {h1, h2}
    Nobody = Nobody
    MaxTime = 3
    MaxEvents = 2
    History = 1
    OwnInGroup = {}
    Moves = {"edit", "touch", "disconnect", "watcherError"}
SPECIFICATION FairSpec
CHECK_DEADLOCK FALSE
PROPERTIES
    PassEnds
    EventuallyShown
