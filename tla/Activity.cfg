SPECIFICATION PageSpec
CONSTANTS
    Workers = {w1, w2}
    Kinds <- MCKinds
    NoTarget = "none"
    DashboardHost = "pintle"
    BufferSize = 2
    MaxRecords = 3
    MaxTime = 2
    Nothing = Nothing
    Ranges = {0}
    PollLag = 1
    Limit = 2
    All = All
SYMMETRY MCSymmetry
CONSTRAINT OneReader
INVARIANTS
    BooksAreSound
    NewestRowsFirst
    StaleRowsAreExplained
