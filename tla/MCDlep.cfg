SPECIFICATION FairSpec
CONSTANTS
    Neigh = {a}
    MaxData = 2
    MaxInFlight = 3
    a = a
INVARIANTS
    TypeOK
    SessionAgreement
    NothingLost
PROPERTIES
    SessionsResolve
