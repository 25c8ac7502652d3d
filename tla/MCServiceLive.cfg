SPECIFICATION FairSpec
CONSTANTS
    a1 = a1
    a2 = a2
    b1 = b1
    c1 = c1
    d1 = d1
    d2 = d2
    Entries = {a1, a2}
    Paths = {1, 2}
    Uppercase = {2}
    Addresses = {d1, d2}
    MaxMoves = 2
    MaxRuns = 2
    MaxKills = 1
    MaxLosses = 1
    Scenarios = {"dark", "stops", "hangs", "exits", "closes"}
    DarkFaults = 1
PROPERTIES
    Restored
    StopCompletes
    RunEnds
CHECK_DEADLOCK FALSE
