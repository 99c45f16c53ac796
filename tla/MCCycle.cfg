SPECIFICATION FairSpec
CONSTANTS
    Confs <- All
    NoReuse = {"upstream"}
    Unix = {"unix:a"}
    Stderr = "stderr"
    None = "none"
    Inherited <- FromOldBinary
    Modes = {"master", "single", "test"}
    MaxCycles = 3
    MaxFaults = 1
INVARIANTS
    InForceIntact
    NothingLeft
PROPERTIES
    ImplementsReload
    OldCyclesFreed
CHECK_DEADLOCK FALSE
