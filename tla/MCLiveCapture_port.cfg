SPECIFICATION Spec
CONSTANTS
    s1 = s1
    s2 = s2
    Server <- MCServer
    Limits <- MCLimits
    MaxArrivals <- MCArrivals
INVARIANTS
    PortHeld
CHECK_DEADLOCK FALSE
