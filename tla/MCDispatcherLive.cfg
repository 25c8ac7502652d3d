SPECIFICATION FairDispatcher
CONSTANTS
    a1 = a1
    a2 = a2
    w1 = w1
    w2 = w2
    w3 = w3
    Workers = {w1, w2}
    kMaxWorkers = 2
    kMaxTunnelExchanges = 1
    MaxRequests = 1
    Scenarios = {"workers", "returns", "closes", "reports", "converge"}
PROPERTIES
    ShutdownCompletes
    HelpersProgress
    
CHECK_DEADLOCK FALSE
