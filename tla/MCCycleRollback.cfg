SPECIFICATION Spec
CONSTANTS
    Confs <- PlainUnsized
    NoReuse = {"upstream"}
    Unix = {"unix:a"}
    Stderr = "stderr"
    None = "none"
    Inherited <- Nothing
    Modes = {"master"}
    MaxCycles = 2
    MaxFaults = 0
PROPERTIES
    RolledBack
CHECK_DEADLOCK FALSE
