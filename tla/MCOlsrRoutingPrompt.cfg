SPECIFICATION FairSpec
CONSTANTS
    DestSeq <- TwoDests
    Topologies <- AllTopologies
    Tables = {"main", "other"}
    SetErrors = FALSE
    Prompt = TRUE
    PageRequests = 1
    MaxPending = 6
CHECK_DEADLOCK FALSE
INVARIANTS
    TypeOK
    KernelAgrees
    GatewayFirst
PROPERTIES
    RoutesConverge
