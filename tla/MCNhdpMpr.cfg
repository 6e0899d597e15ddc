SPECIFICATION Spec
CONSTANTS
    Infinite = 9
    WillAlways = 15
    Neighbors = {1, 2, 3}
    TwoHops = {3, 4, 5}
    Hellos <- MCHellos
    MaxChanges = 3
CHECK_DEADLOCK FALSE
INVARIANTS
    TypeOK
    StaleOnlyIfUnseen
    SelectorsKnown
    MarksJustified
