SPECIFICATION Spec
CONSTANTS
    NClients = 2
    MESSAGE = 3
    RECV_BUFFER_SIZE = 2
    Capacity = 3
    MaxInterrupts = 1
    MaxFaults = 2
    Callers = {a, b}
    Operator = operator
INVARIANTS
    TypeOK
    BytesConserved
    
    TurnsConserved
    ConnectionsFollowCommand
PROPERTIES
    RoundTripsEnd
    PingPong
    CommandEnds
CHECK_DEADLOCK FALSE
