SPECIFICATION FairSpec
CONSTANTS
    c1 = c1
    c2 = c2
    Conn <- MCConn
    Filter <- MCFilter
    Scenarios <- MCScenarios
    LivePackets <- MCLivePackets
    Sizes <- MCSizes
    Addrs <- MCAddrs
    Streams <- MCStreams
    MaxSegment = 8
    MaxHeld = 2
    MaxSniffers = 2
INVARIANTS
    DeviceMatchesClients
    BlocksReassembled
    FileReadsBack
    ClientsGetTheirShare
PROPERTIES
    FileIsRead
\* All clients have come and gone, or nothing arrives any more.
CHECK_DEADLOCK FALSE
