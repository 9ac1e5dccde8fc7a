\* A child is closed while Client.Close runs.
CONSTANTS
    Users = {u1, u2}
    Objects = {o1}
    LocalResolvers = {}
    EarlyReturns = {}
    ConcurrentClose = TRUE
    None = None
SPECIFICATION Spec
INVARIANT NoUseAfterFree
