SPECIFICATION FairSpec
CONSTANTS
    o1 = o1
    o2 = o2
    o3 = o3
    u1 = u1
    r1 = r1
    NoCall = NoCall
    Fds <- MCFds
    Ptrs <- RawPtrs
    UserSockets <- OneRaw
    RawSockets <- OneRaw
    Owners <- RawOwners
    Interests <- ReadOnly
    Containers <- MCContainers
    HookOps <- CarefulHooks
    MaxCalls = 1
    MaxDepth = 5
INVARIANTS
    NoDescriptorLeak
PROPERTIES
    CallsReturn
