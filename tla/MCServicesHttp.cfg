SPECIFICATION Spec
CONSTANTS
    Listener = {l1, l2}
    EventId = {e1, e2}
    AnyId = any
    Caller = {c1}
    Dispatcher = d
    NoListener = null
    MaxNodes = 3
    Sender = {s1, s2}
    Receiver = {r1}
    Agent = {a1, a2}
    Arity = {0, 10}
    MaxCalls = 3
    Locker = {t1, t2, t3}
    Nobody = NULL
    MaxDepth = 2
    ThreadObject = {o1, o2}
    MaxStarts = 2
    FileName = {"a.c", "B.c", "b.c"}
    Rank <- Alphabetical
    LogLevel = {1, 6}
    Categories = {1}
    BufSize = 12
    MaxFiles = 3
    Declaration <- Declared
    Library = {"libfoo", "libbar"}
    Cid = {"FooService", "FooFactory"}
    AppCid = {"FooService"}
    Provides <- Provided
    MaxLoads = 2
    MaxHeld = 2
    Sock = {s1, s2}
    MaxFd = 2
    FieldName = {"Host", "Date", "Content-Length", "Transfer-Encoding"}
    FieldData <- FieldWords
    Method = {"GET"}
    Uri_ <- Uris
    StatusCode = {"100", "200", "206", "404"}
    MAX_METHOD_SIZE = 2
    MAX_URI_SIZE = 4
    MAX_PROTO_SIZE = 3
    kMaxFields = 3
    Reply <- Replies
    kMaxMessageSize = 20
    Number <- Words
    MaxGets = 2
INVARIANT SuccessIsReported
CHECK_DEADLOCK FALSE
