\* Two connections, any dependency failing at any time.
CONSTANTS
    MaxConnects = 2
    Faults = {"messagesClient", "contactsClient", "contactsValid", "messagesValid", "newWatcher", "addWatch", "maxTime"}
    ScanNeedsNext = FALSE
SPECIFICATION FairSpec
CHECK_DEADLOCK FALSE
INVARIANTS
    TypeOK
    FailuresSurface
    StopHasRoom
    StopWaits
PROPERTIES
    DisconnectReturns
    LoopsStop
