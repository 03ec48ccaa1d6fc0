SPECIFICATION Spec
CONSTANTS
    o1 = o1
    o2 = o2
    o3 = o3
    u1 = u1
    r1 = r1
    NoCall = NoCall
    Fds <- MCFds
    Ptrs <- UdpPtrs
    UserSockets <- WithUdp
    RawSockets <- NoRaw
    Owners <- UdpOwners
    Interests <- ReadOnly
    Containers <- MCContainers
    HookOps <- ConnectOnClosed
    MaxCalls = 1
    MaxDepth = 4
PROPERTIES
    InsertNeverFails
