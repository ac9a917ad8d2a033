SPECIFICATION Spec
CONSTANTS
    d1 = d1  d2 = d2  c1 = c1  c2 = c2  low = low  high = high
    None = None
    Dispatcher <- MCOne
    Client <- MCClient
    EventId <- MCOneId
    IdPriority <- MCIdPriority
    SyncTargets <- ToOne
    Remover = {}
    Flusher <- OnlyC2
    Owner = {}
    MaxOps <- TwoEach
INVARIANT HolderDeletedByCaller
CHECK_DEADLOCK FALSE
