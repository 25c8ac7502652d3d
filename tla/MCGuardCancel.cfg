SPECIFICATION FairSpec
CONSTANTS
    Paths = {p1}
    Peers = 2
    FAILURES_BEFORE_SWITCH = 1
    MaxCommands = 2
    MaxCrashes = 2
    MaxFaults = 1
PROPERTIES
    DisableCompletes
CHECK_DEADLOCK FALSE
