SPECIFICATION FairSpec
CONSTANTS
    Nodes = {"a", "b", "c"}
    Prefixes = {"p", "q"}
    Tcs <- MCTcs
    BadTcs <- BadTc
    HalfAnsn = 2
    Surroundings <- MCSurroundings
    Addresses <- MCAddresses
    Routable <- MCRoutable
CHECK_DEADLOCK FALSE
INVARIANTS
    TypeOK
    PointersConsistent
    AdvertisedExactly
    RoutesShortest
PROPERTIES
    SilenceForgotten
