SPECIFICATION RemoteSpec
CONSTANTS
    BrClients = {c1, c2}
    MaxBrFaults = 1
    WebClients = {c1, c2}
    Passwords = {p1, p2}
    NoPassword = nopw
    MaxSessions = 1
    Lifetime = 1
    Idle = 1
    LockoutAfter = 1
    LockoutBase = 2
    LockoutMax = 3
    MaxTracked = 2
    Retention = 1
    GlobalLimit = 2
    GlobalWindow = 1
    GlobalLockout = 2
    MaxWebTime = 3
    MaxTokens = 2
    WebThreads = {k1, k2}
INVARIANT BrCallsTrue
PROPERTIES BrLiveness 
CHECK_DEADLOCK FALSE
