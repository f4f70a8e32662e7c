SPECIFICATION Spec
CONSTANTS
    plain = plain
    rpc = rpc
    Transfer <- MCTransfer
    UserHandler <- MCUserHandler
    MaxExec <- MCOnce
    MaxCallbacks <- MCOnce
    None = None
INVARIANTS
    NotRemovedInCallback
CHECK_DEADLOCK FALSE
