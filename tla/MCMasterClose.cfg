SPECIFICATION Spec
CONSTANTS
    Kinds <- WorkerAndCache
    MaxProcesses = 4
    ChannelSize = 8
    Signals = {}
    MaxSignals = 0
    MaxCrashes = 1
    MaxFaults = 0
    MaxPid = 4
    FirstDelay = 50
    KillDelay = 100
INVARIANTS
    ViewsAgree
CHECK_DEADLOCK FALSE
