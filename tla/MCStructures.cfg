SPECIFICATION Spec
CONSTANTS
    Conns = {"c1", "c2"}
    Msecs = 10
    LazyDelay = 2
    Delays = {1, 3}
    MaxLag = 1
    ShutdownTimeout = 3
    Bits = 3
    PageNodes = 2
    MaxPages = 2
    Preallocated = {0, 1}
    BlockSize = 10
    PoolHead = 4
    DataHead = 3
    EntrySize = 2
    CleanupSize = 3
    FileSize = 3
    Alignment = 2
    FailedLimit = 0
    LargeLimit = 0
    Sizes = {5, 6}
    MaxBlocks = 4
    MaxLarge = 2
    MaxFiles = 2
INVARIANTS
    TimersOrdered
    InTime
    FindsLongest
    NodesAccounted
    PoolSound
PROPERTIES
    ShutdownEnds
CHECK_DEADLOCK FALSE
