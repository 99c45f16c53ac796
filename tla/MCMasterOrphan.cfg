SPECIFICATION Spec
CONSTANTS
    Kinds <- OneWorker
    MaxProcesses = 4
    ChannelSize = 4
    Signals = {"quit", "reconfigure", "change_binary", "noaccept"}
    MaxSignals = 4
    MaxCrashes = 0
    MaxFaults = 0
    MaxPid = 5
    FirstDelay = 50
    KillDelay = 100
INVARIANTS
    MasterLeavesLast
CHECK_DEADLOCK FALSE
