SPECIFICATION HooksSpec
CONSTANTS
    n0 = n0
    a1 = a1
    a2 = a2
    b1 = b1
    b2 = b2
    c1 = c1
    p1 = p1
    p2 = p2
    Tasks = {t1, t2}
    Leaders = {t1}
    MaxSwitches = 1
    MaxStarts = 1
    MaxDrains = 1
    Scenarios = {"drain", "objects", "attach", "exchange", "edits", "select", "replace", "manage"}
SYMMETRY Symmetry
INVARIANTS
    
    
    SelectionExact
    CommandsExact
PROPERTIES
    SettlesLikePromised
CHECK_DEADLOCK FALSE
