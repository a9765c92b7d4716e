SPECIFICATION FairSpec
CONSTANTS
    Queries = {q1}
    Upstreams = {a, b, c}
    Chains <- WithFallback
    Modes = {"load_balance", "parallel_requests", "fastest_addr"}
    MaxParallel = 2
    Backoff = 2
    ProbeInterval = 1
    Budget = 3
    MaxRetries = 1
    CursorRange = 2
    a = a  b = b  c = c
INVARIANT RequestsSound
PROPERTY AnswersResume
