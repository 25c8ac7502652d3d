SPECIFICATION FairSpec
CONSTANTS
    Waiters = {w1, w2}
    MaxLog = 1
    MaxSequence = 2
PROPERTIES
    ImplementsPromise
    BarrierCompletes
