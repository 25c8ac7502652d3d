SPECIFICATION FairSpec
CONSTANTS
    Paths = {p1}
    Peers = 2
    FAILURES_BEFORE_SWITCH = 1
    MaxCommands = 2
    MaxCrashes = 2
    MaxFaults = 2
INVARIANTS
    Backed
    EditAtomic
PROPERTIES
    AnchorsKept
    Recovers
CHECK_DEADLOCK FALSE
