SPECIFICATION FairSpec
CONSTANTS
    u1 = u1
    u2 = u2
    file = file
    docker = docker
    Updaters = {u1, u2}
    Providers = {file, docker}
    Versions = {1, 2}
    NoUpdater = NoUpdater
    MaxUpdates = 3
CHECK_DEADLOCK FALSE
INVARIANTS
    SendFindsRoom
    LatestIsOffered
PROPERTIES
    RefinesConfigLog
