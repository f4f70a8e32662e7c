SPECIFICATION FairPSpec
CONSTANTS
    HeaderSize = 2
    MaxMsgSize = 2
    MaxFrames = 3
    LargestSize = 4
    ChunkSize = 4
INVARIANTS
    MessagesAreFrames
PROPERTIES
    EventuallyDelivered
\* The peer sends a bounded number of frames.
CHECK_DEADLOCK FALSE
