SPECIFICATION AttributionSpec
CONSTANTS
    k1 = k1
    k2 = k2
    w1 = w1
    w2 = w2
    Keys = {k1}
    Workers = {w1, w2}
    LIFETIME = 3
    REUSE = 2
    SCAN = 2
    kMaxHints = 1
    MaxEvents = 2
    MaxPackets = 3
    MaxTime = 5
    Scenarios = {"timing", "burst", "overload"}
SYMMETRY Symmetry
INVARIANTS
    TunnelBacked
PROPERTIES
    DirectRouteSafe
    DirectAnswerSafe
    RefusalJustified
CHECK_DEADLOCK FALSE
