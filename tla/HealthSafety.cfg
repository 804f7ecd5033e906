SPECIFICATION Spec
CONSTANTS
    b1 = b1
    b2 = b2
    b3 = b3
    Backends = {b1, b2, b3}
    Tables <- MCTables
    MaxWorkers = 2
    MaxGeneration = 3
    CursorCycle = 6
INVARIANTS
    ProbeBound
    AdmissionFollowsObservation
    SnapshotAgreesWithTraffic
    RotationIsFair
    NoLostWake
PROPERTIES
    ReplacedTableDriesUp
