SPECIFICATION ShellSpec
CONSTANTS
    Resources = {r1}
    Generations = {g1, g2}
    MaxVersion = 1
    MaxRetries = 1
    None = None
    Unused = Unused
    Waiting = Waiting
    Pages <- MCPages
    UnknownHash = "other"
    Sizes = {100, 120}
    NotDrawn = NotDrawn
INVARIANTS
    ShellInSync
    NoDeadEnd
PROPERTIES
    NothingIsLost
    ColoursCatchUp
