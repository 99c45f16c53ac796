SPECIFICATION Spec
CONSTANTS
    p1 = p1
    p2 = p2
    a = a
    b = b
    c = c
    t1 = t1
    t2 = t2
    Pools = {p1, p2}
    Threads = {a, b, c}
    PoolOf <- TwoPoolsThreads
    Tasks = {t1, t2}
    MaxQueue <- MaxQueue1
    MaxFaults = 1
    Exit = Exit
    Main = Main
    None = None
SYMMETRY TaskSymmetry
INVARIANTS
    TypeOK
    WaitingAccounts
    QueueBounded
    OnePlace
    ExitTaskIsOurs
    DoneIsAnnounced
    DestroyedIsQuiet
PROPERTIES
    ImplementsTaskPool
CHECK_DEADLOCK FALSE
