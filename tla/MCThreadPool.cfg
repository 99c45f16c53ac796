SPECIFICATION FairSpec
CONSTANTS
    p1 = p1
    p2 = p2
    a = a
    b = b
    c = c
    t1 = t1
    t2 = t2
    Pools = {p1}
    Threads = {a, b}
    PoolOf <- OnePoolThreads
    Tasks = {t1, t2}
    MaxQueue <- MaxQueueOne
    MaxFaults = 0
    Exit = Exit
    Main = Main
    None = None
INVARIANTS
    NoLostWakeup
PROPERTIES
    EveryTaskCompletes
    ExitTerminates
