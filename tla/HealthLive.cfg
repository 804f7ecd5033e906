SPECIFICATION FairSpec
CONSTANTS
    b1 = b1
    b2 = b2
    b3 = b3
    Backends = {b1, b2}
    Tables <- MCLiveTables
    MaxWorkers = 1
    MaxGeneration = 3
    CursorCycle = 2
PROPERTIES
    BackendsAreFollowed
    RunnerStops
