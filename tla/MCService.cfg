SPECIFICATION ServiceSpec
CONSTANTS
    a1 = a1
    a2 = a2
    b1 = b1
    c1 = c1
    d1 = d1
    d2 = d2
    Entries = {a1, a2}
    Paths = {1, 2}
    Uppercase = {2}
    Addresses = {d1, d2}
    MaxMoves = 2
    MaxRuns = 2
    MaxKills = 1
    MaxLosses = 1
    Scenarios = {"dark", "lives", "runs", "logs", "filters"}
    DarkFaults = 2
SYMMETRY Symmetry
INVARIANTS
    DarkBounded
    OutcomeHonest
    RunHonest
    ProtectionKept
PROPERTIES
    LogKept
    RecordTruthful
CHECK_DEADLOCK FALSE
