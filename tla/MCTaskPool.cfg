SPECIFICATION FairSpec
CONSTANTS
    Tasks = {t1, t2, t3}
    Submitters = {s1, s2}
    Workers = {w1, w2}
    MinThreads = 1
    MaxThreads = 2
    QueueCapacity = 2
    MaxSpawnFailures = 1
    None = None
INVARIANTS TypeOK WorkerCountExact IdleCountExact NoLostWakeup GrowsToDemand
PROPERTY PoolLiveness
CHECK_DEADLOCK FALSE
