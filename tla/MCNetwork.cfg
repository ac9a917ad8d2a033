SPECIFICATION NetFairSpec
CONSTANTS
    Client = {c1, c2}
    Fd = {1, 2}
    Reg <- MCReg
    Removes <- MCRemoves
    kMaxPollFds = 3
    Quiet = TRUE
    None = None
    MaxOps = 3
    a = a
    b = b
    t = t
    u = u
    Byte = {a, b}
    N = 3
    Chunks <- AllChunks
    Terminal <- TwoBytes
    Producer = {t}
    Consumer = {u}
    Overwriter = {t}
    Prober = {t, u}
    Msecs = {1}
    MaxElapsed = 0
    Wrap = 4
INVARIANTS IdleIsCurrent PointersAgree FillHasRoom SleepersHaveReason
PROPERTIES WalkIsSafe CallsReturn ByteAtIsRight ImplementsFifo
CHECK_DEADLOCK FALSE
