\* Two goroutines publish; the daemon comes and goes.
CONSTANTS
    Users = {u1, u2}
    Second = 4
    MaxSeconds = 1
    TTLs <- SomeTTLs
    MaxSignals = 1
    None = None
SPECIFICATION FairSpec
INVARIANTS
    IInv
    EmptyAgrees
    ErrorIsOwn
    TTLRounded
PROPERTIES
    CommitSettles
    CallsReturn
