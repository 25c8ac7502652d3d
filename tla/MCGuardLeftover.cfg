SPECIFICATION Spec
CONSTANTS
    Paths = {p1}
    Peers = 1
    FAILURES_BEFORE_SWITCH = 1
    MaxCommands = 2
    MaxCrashes = 1
    MaxFaults = 0
INVARIANTS
    UnprovedStopsCleanup
CHECK_DEADLOCK FALSE
