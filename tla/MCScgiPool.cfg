SPECIFICATION FairSpec
CONSTANTS
    c1 = c1
    c2 = c2
    c3 = c3
    Conn <- MCConn
    NoConn = NoConn
    MaxSize = 2
INVARIANTS
    SlotsExact
    OnlyLateSurvive
PROPERTIES
    ShutdownDrains
\* Every client connects once, then the server is idle.
CHECK_DEADLOCK FALSE
