\* A constructor returns before begin.
CONSTANTS
    Users = {u1}
    Objects = {o1}
    LocalResolvers = {}
    EarlyReturns = {o1}
    ConcurrentClose = FALSE
    None = None
SPECIFICATION Spec
INVARIANT NothingLeaked
