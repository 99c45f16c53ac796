SPECIFICATION Spec
CONSTANTS
    Kinds <- WorkerAndCache
    MaxProcesses = 2
    ChannelSize = 1
    Signals = {"quit", "reconfigure", "change_binary"}
    MaxSignals = 2
    MaxCrashes = 1
    MaxFaults = 2
    MaxPid = 6
    FirstDelay = 50
    KillDelay = 100
INVARIANTS
    NoForgottenChild
CHECK_DEADLOCK FALSE
