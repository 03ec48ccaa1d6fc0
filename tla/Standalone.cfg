SPECIFICATION Spec
CONSTANTS
    MaxCallbacks = 4
    MaxMessage = 3
    MaxBytes = 6
    MaxWire = 12
    MAX_HOST_RESOLVE_RETRIES = 3
    Ports = {8000, 8001}
INVARIANTS
    Ordered
    WalkIsExecuted
    EraserRunsLast
    DestroyedListNotRead
    ConnectionTypeOK
    NothingLost
    BufferInOrder
    NoIdleWakeups
    StreamWhenCareful
    AddressTypeOK
    AsksUntilAnswered
    FailureKeepsAddress
    InetGetsPort
PROPERTIES
    DrainsWhenCareful
CHECK_DEADLOCK FALSE
