SPECIFICATION FairSpec
CONSTANTS
    Routers <- MCRouters
    Meshes <- MCMeshes
    AddressesOf <- MCAddressesOf
    Priority <- MCPriority
    MayMake = {1}
    HopLimit = 5
    MaxTcs = 2
    MaxMetrics = 1
CHECK_DEADLOCK FALSE
INVARIANTS
    TypeOK
    HopsBounded
PROPERTIES
    Implements
    TopologyNeverRegresses
    FloodReaches
