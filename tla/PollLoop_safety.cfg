SPECIFICATION FairSpec
CONSTANTS
    fd1 = fd1
    fd2 = fd2
    p1 = p1
    p2 = p2
    p3 = p3
    Fds <- TwoFds
    Owners <- TwoFdsOwners
    Ptrs <- MCPtrs
    Flags <- AllFlags
    RefModulus = 3
    MaxHookChanges = 2
INVARIANTS
    TypeOK
    Paired
    CursorStable
    RefTracksChanges
    FreshEvents
PROPERTIES
    CompleteCycle
    AtMostOnce
    ChangeEndsCycle
    ImplementsDispatch
    ServedUnlessPreempted
