SPECIFICATION FairSpec
CONSTANTS
    Kinds <- TwoWorkers
    MaxProcesses = 4
    ChannelSize = 8
    Signals = {"quit", "change_binary", "noaccept"}
    MaxSignals = 2
    MaxCrashes = 1
    MaxFaults = 0
    MaxPid = 5
    FirstDelay = 50
    KillDelay = 100
INVARIANTS
    NoExtraWorkers
    ViewsAgree
PROPERTIES
    Supervised
CHECK_DEADLOCK FALSE
