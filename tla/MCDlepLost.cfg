SPECIFICATION Spec
CONSTANTS
    Neigh = {a}
    MaxData = 2
    MaxInFlight = 3
    a = a
INVARIANTS
    LostAnnounced
