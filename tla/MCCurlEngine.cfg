SPECIFICATION ESpec
CONSTANTS
    s1 = s1
    Sock <- MCSock
    MaxCalls = 2
    NoHandler = NoHandler
    MaxTransfers = 2
INVARIANTS
    Watched
    RemovedIsQuiet
    ExtraWaitsBounded
    TimerKept
PROPERTIES
    JoinReturns
CHECK_DEADLOCK FALSE
