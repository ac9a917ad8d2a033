SPECIFICATION Spec
CONSTANTS
    e1 = e1  e2 = e2  l1 = l1  agent = agent  plain = plain  r1 = r1  d1 = d1
    Wrap = 8
    M = 3
    Delays = {0, 5}
    Periods = {0, 4, 5}
    Event = {e1, e2}
    Listener = {l1}
    Id <- MCId
    EventId = {plain, agent}
    AnyId = any
    Agent = agent
    Target <- MCTarget
    Receiver = {r1}
    Dispatcher = {d1}
    None = None
    MaxNow = 11
    MaxNodes = 2
    Timer = {t1, t2}
    TickTime = {ms10, ms50}
    TimedId = {a, b}
    EveryId = any
    Registrar = {t1}
    Absent = None
    MaxSends = 2
    mMsPerTick = 2
    JumpLimit = 6
    ClockSteps <- MCSteps
    MaxTime = 14
    MaxSets = 2
INVARIANTS NothingOverdue PeriodicStaysAligned RemovedUnlessUnknown TicksKeepTime
PROPERTY NeverEarly
CHECK_DEADLOCK FALSE
