SPECIFICATION DiagramSpec
CONSTANTS
    Domain <- MCDomain
    Prefix <- MCPrefix
    Rank <- MCRank
    Found <- MCFound
    Topologies <- MCTopologies
    Reports <- MCReports
    Threshold = 2
    NoStats = NoStats
INVARIANTS
    LayoutIsSound
    FiltersAreHonest
    GroupHealthIsBetween
PROPERTIES
    OrderDoesNotMatter
    NoStuckSelection
