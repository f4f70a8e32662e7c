SPECIFICATION FairSpec
CONSTANTS
    s1 = s1
    s2 = s2
    Server <- MCServer
    Limits <- MCLimits
    MaxArrivals <- MCArrivals
INVARIANTS
    CapturesExact
    NoServerOutlivesGrabber
    StrandedOnlyByMissedCancel
PROPERTIES
    Released
    ShutdownEnds
\* Servers are opened once each: when all are released nothing happens.
CHECK_DEADLOCK FALSE
