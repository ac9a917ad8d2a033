SPECIFICATION FairSpec
CONSTANTS
    t1 = t1  t2 = t2  n1 = n1  n2 = n2  h1 = h1
    agent = agent  plain = plain  r1 = r1  r2 = r2  none = none
    Thread <- MCThread
    Looper <- MCLooper
    Event <- MCEvent
    Priority <- MCPriority
    EventId <- MCEventId
    Agent = agent
    Receiver <- MCReceiver
    Id <- MCId
    Target <- MCTarget
    NoNode = none
    MaxSends = 4
INVARIANTS DeliveryOrder NoLostWakeup ReferencesAreCounted
PROPERTIES ImplementsChannel EventuallyEmptied
