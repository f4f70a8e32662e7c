SPECIFICATION CSpec
CONSTANTS
    m1 = m1
    m2 = m2
    s1 = s1
    s2 = s2
    Msg <- MCMsg
    Units <- MCUnits
    HasDest <- MCHasDest
    NReads = 2
    Sender <- MCSender
    None = None
INVARIANTS
    BufferAlive
    NoLostWakeup
    Conservation
    WireInOrder
    SenderIsTold
PROPERTIES
    ImplementsDelivery
    Drains
    CloseEndsAll
\* Callers write and read a bounded number of times and then stop.
CHECK_DEADLOCK FALSE
