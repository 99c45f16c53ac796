SPECIFICATION FairSpec
CONSTANTS
    Kinds <- OneWorker
    MaxProcesses = 4
    ChannelSize = 4
    Signals = {"quit", "terminate", "reconfigure", "reopen", "sigio"}
    MaxSignals = 2
    MaxCrashes = 1
    MaxFaults = 0
    MaxPid = 5
    FirstDelay = 50
    KillDelay = 100
INVARIANTS
    TypeOK
    MasterLeavesLast
    NoExtraWorkers
    SignalsOwnChildren
PROPERTIES
    NoSpawnWhenStopping
    StopTerminates
    TerminateKills
    Supervised
CHECK_DEADLOCK FALSE
