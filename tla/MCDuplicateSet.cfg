SPECIFICATION Spec
CONSTANTS
    Keys = {k1}
    HalfSpace = 4
    Window = 3
    HistoryBits = 5
    MaxTooOld = 2
    Vtimes <- MCVtimes
    MaxMsg = 9
INVARIANTS
    WindowExact
    NoLockout
PROPERTIES
    NoDoubleAccept
    FreshAccepted
