SPECIFICATION Spec
CONSTANTS
    mSize = 16
    Request = {1, 2, 3, 5}
    NODE_SIZE = 2
    SMALLEST_BLOCK = 2
    Width = 20
    Cell = {c1, c2, c3}
    Value = {v1, v2}
    Default = v1
    DEFAULT_ALLOCATION = 2
    MaxLen = 4
    Thread = {t1, t2}
    Block = {b1, b2, b3}
    SizeOf <- Sizes
    Str = {x, y}
    Char = {1, 2}
    DefaultCapacity = 2
    MaxText = 3
    Name = {"a", "b"}
    CWD <- WorkDir
    WideSize = TRUE
    MaxParts = 4
    MaxMade = 2
    UriString <- Uris
    Query <- Queries
    Key = {"k"}
    MaxParams = 2
PROPERTY CallsChangeOne
CHECK_DEADLOCK FALSE
