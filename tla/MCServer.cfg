SPECIFICATION ServerSpec
CONSTANTS
    SvWorkerCount = 2
    SvQueueLimit = 1
    SvListeners = {l}
    SvConns = {c1,c2}
    SvMaxConns = 1
    SvLogLimit = 1
    MaxSvQueries = 3
    MaxSvFaults = 1
    MaxSvTasks = 1
    MaxSvStarts = 2
    SeKinds = {k}
    SeWebKinds = {w}
    SeQueueLimit = 1
    SeBatchLimit = 2
    SeShown = 1
    SeWindow = 0
    SeLookback = 2
    SeRetention = 0
    MaxSeTime = 2
    MaxSeEvents = 2
    MaxSeFaults = 1
    MaxSeStarts = 2
    MaxSeClears = 1
    FuLists = {l1, l2}
    FuWorkers = {w1, w2}
    FuInterval = 1
    FuMaxBackoff = 2
    FuNever = never
    FuNoList = nolist
    MaxFuFaults = 1
    MaxFuEdits = 1
INVARIANTS   FuUpdateSound
PROPERTY ServerLiveness
CHECK_DEADLOCK FALSE
