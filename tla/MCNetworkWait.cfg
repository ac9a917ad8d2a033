SPECIFICATION NetSpec
CONSTANTS
    Client = {c1}
    Fd = {1, 2}
    Reg <- MCReg
    Removes <- MCSelfRemoves
    kMaxPollFds = 3
    Quiet = TRUE
    None = None
    MaxOps = 3
    a = a
    b = b
    t = t
    u = u
    Byte = {a, b}
    N = 3
    Chunks <- FewChunks
    Terminal <- TwoBytes
    Producer = {t}
    Consumer = {u}
    Overwriter = {}
    Prober = {}
    Msecs = {1}
    MaxElapsed = 2
    Wrap = 4
INVARIANT SleepsAreBounded
CHECK_DEADLOCK FALSE
