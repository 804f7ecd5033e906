SPECIFICATION FairSpec
CONSTANTS
    native = native
    both = both
    tcp = tcp
    proxy = proxy
    k1 = k1
    k2 = k2
    Containers = {native}
    Labels <- MCLabels
    Proxies = {}
    Callbacks = {k1, k2}
    RunLoop = run
    None = None
    MaxChanges = 2
    MaxFailures = 1
    MaxDisconnects = 1
    Regimes <- MCAnyOne
CHECK_DEADLOCK FALSE
PROPERTIES
    RoutesFollowContainers
