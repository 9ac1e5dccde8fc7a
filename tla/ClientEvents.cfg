\* Three goroutines; a HostNameResolver with its queue, and a browser next to it.
CONSTANTS
    Users = {u1, u2, u3}
    Objects = {o1, o2}
    LocalResolvers = {o1}
    EarlyReturns = {o1}
    ConcurrentClose = FALSE
    None = None
    Focus = o1
    MaxPush = 2
    Readers = {r1}
SPECIFICATION AllSpec
INVARIANTS
    IInv
    NoCallbackOnClosed
    NoUseAfterFree
    NoDoubleRelease
    NoMapRace
    ChildrenClosedWithClient
    NothingElseLeaked
    NothingLeftBehind
PROPERTIES
    QueueSpec
    CloseReturns
