SPECIFICATION FairSpec
CONSTANTS
    d1 = d1  d2 = d2  c1 = c1  c2 = c2  low = low  high = high
    None = None
    Dispatcher <- MCDispatcher
    Client <- MCClient
    EventId <- MCEventId
    IdPriority <- MCIdPriority
    SyncTargets <- Chain
    Remover <- C2AndD1
    Flusher = {}
    Owner <- OnlyC2
    MaxOps <- MostByC1
INVARIANT NothingLeftBehind
PROPERTIES SyncIsBarrier RemovedStaysRemoved SyncCompletes JoinCompletes
CHECK_DEADLOCK FALSE
