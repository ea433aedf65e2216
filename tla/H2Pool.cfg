SPECIFICATION FairSpec
CONSTANTS
    Request = {r1, r2}
    Conn = {c1}
    MaxTransport = 2
    MaxStreams = 2
    None = None
INVARIANTS
    DeadNeverPooled
    CancelIsOwn
    LeaseKeepsTransport
PROPERTIES
    IdleCloseIsIdle
    DroppedIdleCloses
CHECK_DEADLOCK FALSE
