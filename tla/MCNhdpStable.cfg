SPECIFICATION FairSpec
CONSTANTS
    Ifs <- MCIfs
    Addrs = {"a1", "a2", "a9"}
    Originators = {"o1"}
    NeighSlots = {1, 2}
    LinkSlots = {1, 2, 3}
    HoldTime = 2
    Hellos <- StableHellos
    BadMessageTlv <- NoHellos
    BadAddressTlv <- NoHellos
    Unstable <- NoIfs
    MaxCount = 2
CHECK_DEADLOCK FALSE
INVARIANTS
    TypeOK
    LinkStateCached
    NeighborUsable
PROPERTIES
    SilenceForgotten
