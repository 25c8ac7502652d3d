SPECIFICATION FairSpec
CONSTANTS
    Paths = {p1, p2}
    Policies = {{}, {p1}, {p2}, {p1, p2}}
    NLinks = 3
    MaxTrouble = 4
INVARIANTS
    ProtectionHeld
    Claimable
    ClaimedAlone
PROPERTIES
    LoadCompletes
