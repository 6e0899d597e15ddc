SPECIFICATION Spec
CONSTANTS
    Ifs <- MCIfs
    Addrs = {"a1", "a3"}
    Originators = {"o1", "a3"}
    NeighSlots = {1, 2, 3}
    LinkSlots = {1, 2, 3}
    HoldTime = 1
    Hellos <- MixedHellos
    BadMessageTlv <- OneBad
    BadAddressTlv <- BothBad
    Unstable <- OneIf
    MaxCount = 2
CHECK_DEADLOCK FALSE
INVARIANTS
    DatabaseSound
PROPERTIES
    OldOwnersRemoved
    FreedOnlyByMerge
