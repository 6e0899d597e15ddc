SPECIFICATION Spec
CONSTANTS
    DestSeq <- TwoDests
    Topologies <- FewTopologies
    Tables = {"main", "other"}
    SetErrors = TRUE
    Prompt = FALSE
    PageRequests = 2
    MaxPending = 3
CHECK_DEADLOCK FALSE
INVARIANTS
    FeedbackMatches
    NoLostTrigger
