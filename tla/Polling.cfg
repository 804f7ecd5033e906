SPECIFICATION ReadinessSpec
CONSTANTS
    Resources = {r1, r2}
    Generations = {g1, g2}
    MaxVersion = 2
    MaxRetries = 1
    None = None
    Unused = Unused
    Waiting = Waiting
    Snapshot <- MCSnapshot
    StaleAfter = 1
    TickLag = 1
    Day = 3
    MaxAge = 3
INVARIANTS
    ReadsAreAccountedFor
    AgesAreHonest
PROPERTIES
    LateAnswersAreIgnored
    ViewRecovers
