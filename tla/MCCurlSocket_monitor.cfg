SPECIFICATION Spec
CONSTANTS
    s1 = s1
    Sock <- MCSock
    MaxCalls = 2
    NoHandler = NoHandler
PROPERTIES
    MonitorsOnlyWanted
CHECK_DEADLOCK FALSE
