SPECIFICATION FairSpec
CONSTANTS
    MaxStarts = 2
    MaxConnects = 3
    Event = {"A"}
INVARIANTS
    ServedWhileStarted
PROPERTIES
    NotificationsAlternate
    StopEnds
\* start() is called a bounded number of times.
CHECK_DEADLOCK FALSE
