SPECIFICATION FairSpec
CONSTANTS
    HelloSize = 2
    MaxPieces = 3
    MaxReloads = 2
CHECK_DEADLOCK FALSE
INVARIANTS
    ConnectionsAreHonest
PROPERTIES
    EndsTogether
