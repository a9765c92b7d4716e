SPECIFICATION Spec
CONSTANTS
    Queries = {q1, q2}
    Filters = {f1, f2}
    Names = {cloaked, any, big}
    Clients = {home, routed, guest}
    Routes = {pool, corp}
    DefaultRoute = pool
    RouteOf <- MCRouteOf
    Asks <- CacheAsks
    Local = {}
    NameBlocked = {}
    NameRewritten = {}
    CnameBlocked <- MCCnameBlocked
    RebindingBlocked = {}
    Bypass <- MCBypass
    Refused = {any}
    LocalReverse = {}
    Uncacheable = {}
    Oversize = {big}
    Optimistic = TRUE
    PrefetchHits = 1
    CacheCapacity = 1
    MaxFollowers = 1
    None = None
    f1 = f1  f2 = f2
    cloaked = cloaked  ads = ads  any = any  big = big
    home = home  routed = routed  guest = guest
    pool = pool  corp = corp
SYMMETRY Symmetry
INVARIANTS TypeOK AnswersKeptApart OwnVerdict 
CHECK_DEADLOCK FALSE
