SPECIFICATION FairSpec
CONSTANTS
    Timers = {"p1", "p2", "s"}
    Classes = {"periodic", "single"}
    Class <- MCClass
    Periodic = {"periodic"}
    Jitter <- MCJitter
    Starts <- MCStarts
    Slice = 2
    MaxStep = 1
INVARIANTS
    TouchesOnlyLive
    RunsAsAsked
    UsageCounts
PROPERTIES
    OncePerWalk
    TimersFire
