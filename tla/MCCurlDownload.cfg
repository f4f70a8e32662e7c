SPECIFICATION DSpec
CONSTANTS
    file = file
    rpc = rpc
    Transfer <- MCTransfer
    UserHandler <- MCSome
    Downloader <- MCSome
    MaxExec <- MCMaxExec
    MaxCallbacks <- MCMaxCallbacks
    None = None
INVARIANTS
    LibcurlPointsToLive
    RunSeesReply
    DownloadExact
PROPERTIES
    Answered
    Reclaimed
CHECK_DEADLOCK FALSE
