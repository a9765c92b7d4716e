SPECIFICATION Spec
CONSTANTS
    Queries = {q1, q2, q3}
    Filters = {f1, f2}
    Names = {cloaked, ads, any}
    Clients = {home, routed, guest}
    Routes = {pool, corp}
    DefaultRoute = pool
    RouteOf <- MCRouteOf
    Asks <- MixedAsks
    Local <- MCLocal
    NameBlocked <- MCNameBlocked
    NameRewritten <- MCNameRewritten
    CnameBlocked <- MCCnameBlocked
    RebindingBlocked <- MCRebindingBlocked
    Bypass <- MCBypass
    Refused = {}
    LocalReverse = {any}
    Uncacheable = {ads}
    Oversize = {}
    Optimistic = TRUE
    PrefetchHits = 1
    CacheCapacity = 0
    MaxFollowers = 1
    None = None
    f1 = f1  f2 = f2
    cloaked = cloaked  ads = ads  any = any  big = big
    home = home  routed = routed  guest = guest
    pool = pool  corp = corp
SYMMETRY Symmetry
INVARIANT CoalescingSound
CHECK_DEADLOCK FALSE
