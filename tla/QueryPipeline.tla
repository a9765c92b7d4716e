--------------------------- MODULE QueryPipeline ---------------------------
(***************************************************************************)
(* One DNS query from admission to its answer: handle_dns_query of         *)
(* src-tauri/src/dns/worker.rs with the state it shares with other         *)
(* queries: the filter runtime that is hot-replaced as a whole, the pause  *)
(* deadline, the response cache with its refresh flags, the table of       *)
(* pending queries that coalesces duplicates, and the background refresh   *)
(* tasks.                                                                  *)
(*                                                                         *)
(* Every query runs on a thread of its own between admission and its end;  *)
(* the code's bounded set of workers only forbids some interleavings.  A   *)
(* step ends where the code releases a lock or hands work to another       *)
(* thread.  Upstream answers are identified by the name they answer, the   *)
(* upstream pool they came from and the policy of the client they were     *)
(* fetched for; what a filter says of a name or of an answer is a relation *)
(* between filters and names.                                              *)
(***************************************************************************)
EXTENDS Naturals, Sequences, FiniteSets

CONSTANTS
    Queries,          \* the work items
    Filters,          \* the values filter_runtime takes
    Names,            \* questions
    Clients,
    Routes,           \* upstream pools
    DefaultRoute,     \* the pool of a query that no route selects
    RouteOf,          \* upstream_routes.select, by client
    Asks,             \* the <<name, client>> pairs that clients send
    Local,            \* <<filter, name>>: answered by rewrites
    NameBlocked,      \* <<filter, name>>: blocked services and rules
    NameRewritten,    \* <<filter, name>>: safe search and $dnsrewrite
    CnameBlocked,     \* <<filter, name>>: the answer hides a blocked CNAME
    RebindingBlocked, \* <<filter, name>>: the answer holds a private address
    Bypass,           \* <<filter, client>>: the client is not filtered
    Refused,          \* names refused for their type (ANY)
    LocalReverse,     \* names of private reverse zones
    Uncacheable,      \* names whose query has no cache key
    Oversize,         \* names whose cached answer cannot be prepared
    Optimistic,       \* config.optimistic
    PrefetchHits,     \* config.prefetch_hit_threshold, 0 when disabled
    CacheCapacity,    \* entries that fit in the cache
    MaxFollowers,     \* MAX_PENDING_FOLLOWERS
    None

ASSUME PipelineAssumption ==
    /\ IsFiniteSet(Queries)
    /\ DefaultRoute \in Routes
    /\ RouteOf \in [Clients -> Routes]
    /\ Asks \subseteq Names \X Clients
    /\ Optimistic \in BOOLEAN
    /\ PrefetchHits \in Nat
    /\ CacheCapacity \in Nat
    /\ MaxFollowers \in Nat
    /\ None \notin Queries \cup Asks
    /\ None \notin Seq(Queries)

VARIABLES
    filter_runtime, \* the shared FilterRuntime
    paused,         \* protection_paused_until lies in the future
    cache,          \* DnsCacheStore: an entry or None for every key
    pending,        \* PendingQueries: the registered leader of every key
    stage,          \* where a query is in handle_dns_query
    ask,            \* what it asks and for whom
    filter,         \* its snapshot of filter_runtime
    active,         \* filtering_active
    joined,         \* the leader whose PendingQueryState it holds
    followers,      \* PendingQueryState.followers, None once taken
    todo,           \* followers a leader has still to answer
    result,         \* the cached or forwarded answer it holds, None on error
    verdict,        \* response_protection_block of its forwarded answer
    owns,           \* it has set the refresh flag of its cache entry
    refresh,        \* the refresh task it has spawned
    answer,         \* what the client got
    logged          \* how many log entries the query has produced

shared == <<filter_runtime, paused, cache, pending>>
vars == <<filter_runtime, paused, cache, pending, stage, ask, filter, active,
          joined, followers, todo, result, verdict, owns, refresh, answer,
          logged>>

-----------------------------------------------------------------------------
(* Data *)

Keys == [name : Names, route : Routes, bypass : BOOLEAN]
Ages == {"fresh", "expiring", "stale", "dead"}
Entries == [data : Keys, age : Ages, hits : 0..PrefetchHits,
            refreshing : BOOLEAN]

Stages == {"new", "decide", "lookup", "hit", "begin", "join", "following",
           "forward", "finish", "take", "deliver", "store", "reply", "done"}

(* What a client can get: data from upstream, or an answer without any. *)
Answers == [kind : {"none", "denied", "local", "blocked", "failed", "nothing",
                    "data"}, data : Keys \cup {None}]
Answer(kind) == [kind |-> kind, data |-> None]
DataAnswer(d) == [kind |-> "data", data |-> d]

Name(q) == ask[q][1]
Client(q) == ask[q][2]
Route(q) == RouteOf[Client(q)]
Bypasses(q) == <<filter[q], Client(q)>> \in Bypass

(* A key that forgets which upstream pool the answer came from. *)
CacheKeyUnrouted(q) ==
    [name |-> Name(q), route |-> DefaultRoute, bypass |-> Bypasses(q)]

(* The cache key with its scope: the route and whether the client bypasses *)
(* filtering.  The pause is not part of it.                                *)
CacheKey(q) ==
    [name |-> Name(q), route |-> Route(q), bypass |-> Bypasses(q)]

(* What an upstream answers to q. *)
Fetched(q) ==
    [name |-> Name(q), route |-> Route(q), bypass |-> Bypasses(q)]

(* response_protection_block under filter f; rebinding is not checked for  *)
(* answers of routed upstreams.                                            *)
ProtectionBlocks(f, q) ==
    \/ <<f, Name(q)>> \in CnameBlocked
    \/ Route(q) = DefaultRoute /\ <<f, Name(q)>> \in RebindingBlocked

TypeOK ==
    /\ filter_runtime \in Filters
    /\ paused \in BOOLEAN
    /\ cache \in [Keys -> Entries \cup {None}]
    /\ pending \in [Keys -> Queries \cup {None}]
    /\ stage \in [Queries -> Stages]
    /\ ask \in [Queries -> Asks \cup {None}]
    /\ filter \in [Queries -> Filters \cup {None}]
    /\ active \in [Queries -> BOOLEAN]
    /\ joined \in [Queries -> Queries \cup {None}]
    /\ followers \in [Queries -> Seq(Queries) \cup {None}]
    /\ todo \in [Queries -> Seq(Queries)]
    /\ result \in [Queries -> Keys \cup {None}]
    /\ verdict \in [Queries -> BOOLEAN]
    /\ owns \in [Queries -> BOOLEAN]
    /\ refresh \in [Queries -> {"none", "queued", "running", "done"}]
    /\ answer \in [Queries -> Answers]
    /\ logged \in [Queries -> Nat]

Init ==
    /\ filter_runtime \in Filters
    /\ paused = FALSE
    /\ cache = [k \in Keys |-> None]
    /\ pending = [k \in Keys |-> None]
    /\ stage = [q \in Queries |-> "new"]
    /\ ask = [q \in Queries |-> None]
    /\ filter = [q \in Queries |-> None]
    /\ active = [q \in Queries |-> FALSE]
    /\ joined = [q \in Queries |-> None]
    /\ followers = [q \in Queries |-> None]
    /\ todo = [q \in Queries |-> <<>>]
    /\ result = [q \in Queries |-> None]
    /\ verdict = [q \in Queries |-> FALSE]
    /\ owns = [q \in Queries |-> FALSE]
    /\ refresh = [q \in Queries |-> "none"]
    /\ answer = [q \in Queries |-> Answer("none")]
    /\ logged = [q \in Queries |-> 0]

-----------------------------------------------------------------------------
(* Endings shared by the branches of handle_dns_query *)

Goto(q, s) == stage' = [stage EXCEPT ![q] = s]

(* The client of q gets a, or sending fails; one log entry either way. *)
EndWith(q, a) ==
    /\ Goto(q, "done")
    /\ answer' \in {[answer EXCEPT ![q] = x] : x \in {a, Answer("failed")}}
    /\ logged' = [logged EXCEPT ![q] = @ + 1]

(* cache.finish_refresh(k): clears the flag of whatever entry k has now. *)
FlagCleared(k) ==
    IF cache[k] = None THEN cache
    ELSE [cache EXCEPT ![k].refreshing = FALSE]

(* insert_with_ttl followed by evict_over_limit.  The expired entries are  *)
(* dropped if a scan is due; then entries of a sample are dropped, any     *)
(* entry for all the model knows, until the rest fits.                     *)
Stored(k, d) ==
    LET entry == [data |-> d, age |-> "fresh", hits |-> 0,
                  refreshing |-> FALSE]
        filled == [cache EXCEPT ![k] = entry]
        present == {j \in Keys : filled[j] # None}
        unexpired == {j \in present : filled[j].age # "dead"}
        Fit(base) == {R \in SUBSET base :
                         \/ R = base /\ Cardinality(base) <= CacheCapacity
                         \/ /\ Cardinality(base) > CacheCapacity
                            /\ Cardinality(R) = CacheCapacity}
    IN  {[j \in Keys |-> IF j \in R THEN filled[j] ELSE None] :
            R \in Fit(present) \cup Fit(unexpired)}

-----------------------------------------------------------------------------
(* Admission and local decisions *)

(* Access control or the parser turns the query away; nothing is logged. *)
Deny(q, a) ==
    /\ stage[q] = "new"
    /\ ask' = [ask EXCEPT ![q] = a]
    /\ Goto(q, "done")
    /\ answer' = [answer EXCEPT ![q] = Answer("denied")]
    /\ UNCHANGED <<shared, filter, active, joined, followers, todo, result,
                   verdict, owns, refresh, logged>>

(* The filter state is read as a whole; refused types and local rewrites   *)
(* are answered at once.                                                   *)
Admit(q, a) ==
    /\ stage[q] = "new"
    /\ ask' = [ask EXCEPT ![q] = a]
    /\ filter' = [filter EXCEPT ![q] = filter_runtime]
    /\ IF a[1] \in Refused \/ <<filter_runtime, a[1]>> \in Local
       THEN EndWith(q, Answer("local"))
       ELSE Goto(q, "decide") /\ UNCHANGED <<answer, logged>>
    /\ UNCHANGED <<shared, active, joined, followers, todo, result, verdict,
                   owns, refresh>>

(* filtering_active: the client is filtered and protection is not paused. *)
FilteringActive(q) == ~Bypasses(q) /\ ~paused

(* Blocked services, safe search and rules apply while filtering is        *)
(* active; private reverse zones without a route are answered locally.     *)
Decide(q) ==
    LET judged == <<filter[q], Name(q)>>
        blocks == FilteringActive(q) /\ judged \in NameBlocked
        local == \/ FilteringActive(q) /\ judged \in NameRewritten
                 \/ Name(q) \in LocalReverse /\ Route(q) = DefaultRoute
    IN  /\ stage[q] = "decide"
        /\ active' = [active EXCEPT ![q] = FilteringActive(q)]
        /\ IF blocks \/ local
           THEN EndWith(q, Answer(IF blocks THEN "blocked" ELSE "local"))
           ELSE Goto(q, "lookup") /\ UNCHANGED <<answer, logged>>
        /\ UNCHANGED <<shared, ask, filter, joined, followers, todo, result,
                       verdict, owns, refresh>>

-----------------------------------------------------------------------------
(* The cache *)

(* Entries that lookup may serve. *)
Servable(e) ==
    /\ e # None
    /\ e.age \in {"fresh", "expiring"} \/ (Optimistic /\ e.age = "stale")

(* A hit asks for a refresh when the entry is stale, or popular and about  *)
(* to expire.                                                              *)
WantsRefresh(e) ==
    \/ e.age = "stale"
    \/ PrefetchHits > 0 /\ e.age = "expiring" /\ e.hits + 1 >= PrefetchHits

(* The compare-and-swap of refreshing: one of several hits gets to refresh. *)
ClaimsRefresh(e) == WantsRefresh(e) /\ ~e.refreshing

Hit(e) ==
    [e EXCEPT !.hits = IF @ < PrefetchHits THEN @ + 1 ELSE @,
              !.refreshing = @ \/ WantsRefresh(e)]

Lookup(q) ==
    LET k == CacheKey(q)
        e == cache[k]
    IN  /\ stage[q] = "lookup"
        /\ \/ /\ Name(q) \in Uncacheable
              /\ Goto(q, "forward")
              /\ UNCHANGED <<cache, owns, result>>
           \/ /\ Name(q) \notin Uncacheable
              /\ ~Servable(e)
              /\ Goto(q, "begin")
              /\ UNCHANGED <<cache, owns, result>>
           \/ /\ Name(q) \notin Uncacheable
              /\ Servable(e)
              /\ cache' = [cache EXCEPT ![k] = Hit(e)]
              /\ IF Name(q) \in Oversize
                 THEN Goto(q, "begin") /\ UNCHANGED <<owns, result>>
                 ELSE /\ Goto(q, "hit")
                      /\ owns' = [owns EXCEPT ![q] = ClaimsRefresh(e)]
                      /\ result' = [result EXCEPT ![q] = e.data]
        /\ UNCHANGED <<filter_runtime, paused, pending, ask, filter, active,
                       joined, followers, todo, verdict, refresh, answer,
                       logged>>

(* A cache hit that trusts the check made when the entry was stored. *)
HitTrusted(q) == FALSE

(* A cached answer is judged again by the filter of the query it serves. *)
HitBlocked(q) == active[q] /\ ProtectionBlocks(filter[q], q)

(* The hit is served.  The refresh flag passes to a task on the            *)
(* coordination pool, or is given back: when the answer is blocked, when   *)
(* it cannot be sent, or when the pool rejects the task.                   *)
ServeHit(q) ==
    /\ stage[q] = "hit"
    /\ EndWith(q, IF HitBlocked(q) THEN Answer("blocked")
                  ELSE DataAnswer(result[q]))
    /\ owns' = [owns EXCEPT ![q] = FALSE]
    /\ \/ /\ owns[q] /\ ~HitBlocked(q) /\ answer'[q].kind # "failed"
          /\ refresh' = [refresh EXCEPT ![q] = "queued"]
          /\ UNCHANGED cache
       \/ /\ owns[q]
          /\ cache' = FlagCleared(CacheKey(q))
          /\ UNCHANGED refresh
       \/ /\ ~owns[q]
          /\ UNCHANGED <<cache, refresh>>
    /\ UNCHANGED <<filter_runtime, paused, pending, ask, filter, active,
                   joined, followers, todo, result, verdict>>

-----------------------------------------------------------------------------
(* Coalescing of duplicate queries *)

(* PendingQueries::begin: the first query for a key leads. *)
Begin(q) ==
    LET k == CacheKey(q) IN
    /\ stage[q] = "begin"
    /\ IF pending[k] = None
       THEN /\ pending' = [pending EXCEPT ![k] = q]
            /\ followers' = [followers EXCEPT ![q] = <<>>]
            /\ joined' = [joined EXCEPT ![q] = q]
            /\ Goto(q, "forward")
       ELSE /\ joined' = [joined EXCEPT ![q] = pending[k]]
            /\ Goto(q, "join")
            /\ UNCHANGED <<pending, followers>>
    /\ UNCHANGED <<filter_runtime, paused, cache, ask, filter, active, todo,
                   result, verdict, owns, refresh, answer, logged>>

(* The leader has not taken its followers yet and there is room. *)
MayFollow(l) ==
    followers[l] # None /\ Len(followers[l]) < MaxFollowers

(* A registration that reports failure after all. *)
JoinAndForward(q) ==
    LET l == joined[q] IN
    /\ stage[q] = "join"
    /\ followers' = IF MayFollow(l)
                    THEN [followers EXCEPT ![l] = Append(@, q)] ELSE followers
    /\ joined' = [joined EXCEPT ![q] = None]
    /\ Goto(q, "forward")
    /\ UNCHANGED <<shared, ask, filter, active, todo, result, verdict, owns,
                   refresh, answer, logged>>

(* register_pending_follower: the worker is released, or the query         *)
(* forwards on its own.                                                    *)
Join(q) ==
    LET l == joined[q] IN
    /\ stage[q] = "join"
    /\ IF MayFollow(l)
       THEN /\ followers' = [followers EXCEPT ![l] = Append(@, q)]
            /\ Goto(q, "following")
            /\ UNCHANGED joined
       ELSE /\ joined' = [joined EXCEPT ![q] = None]
            /\ Goto(q, "forward")
            /\ UNCHANGED followers
    /\ UNCHANGED <<shared, ask, filter, active, todo, result, verdict, owns,
                   refresh, answer, logged>>

(* A degraded follower that takes itself for a leader. *)
LeadsAlways(q) == TRUE

Leads(q) == joined[q] = q

(* forward_query_with_route returns an answer or, by its deadline at the   *)
(* latest, an error; the answer is judged by the query's own filter.       *)
Forward(q) ==
    /\ stage[q] = "forward"
    /\ \/ /\ result' = [result EXCEPT ![q] = Fetched(q)]
          /\ verdict' = [verdict EXCEPT ![q] =
                            active[q] /\ ProtectionBlocks(filter[q], q)]
       \/ /\ UNCHANGED <<result, verdict>>
    /\ Goto(q, IF Leads(q) THEN "finish" ELSE "store")
    /\ UNCHANGED <<shared, ask, filter, active, joined, followers, todo,
                   owns, refresh, answer, logged>>

(* PendingQueries::finish: later duplicates get a leader of their own. *)
FinishPending(q) ==
    LET k == CacheKey(q) IN
    /\ stage[q] = "finish"
    /\ pending' = IF pending[k] = q THEN [pending EXCEPT ![k] = None]
                  ELSE pending
    /\ Goto(q, "take")
    /\ UNCHANGED <<filter_runtime, paused, cache, ask, filter, active, joined,
                   followers, todo, result, verdict, owns, refresh, answer,
                   logged>>

(* A leader that leaves its followers where they are when the answer is    *)
(* blocked.                                                                *)
TakeUnlessBlocked(q) ==
    /\ stage[q] = "take"
    /\ IF verdict[q]
       THEN UNCHANGED <<todo, followers>>
       ELSE /\ todo' = [todo EXCEPT ![q] = followers[q]]
            /\ followers' = [followers EXCEPT ![q] = None]
    /\ Goto(q, "deliver")
    /\ UNCHANGED <<shared, ask, filter, active, joined, result, verdict, owns,
                   refresh, answer, logged>>

(* The leader takes the list of its followers; nobody can join any more. *)
Take(q) ==
    /\ stage[q] = "take"
    /\ todo' = [todo EXCEPT ![q] = followers[q]]
    /\ followers' = [followers EXCEPT ![q] = None]
    /\ Goto(q, "deliver")
    /\ UNCHANGED <<shared, ask, filter, active, joined, result, verdict, owns,
                   refresh, answer, logged>>

(* What the leader's outcome means for a follower. *)
Outcome(q) ==
    IF verdict[q] THEN Answer("blocked")
    ELSE IF result[q] = None THEN Answer("nothing") ELSE DataAnswer(result[q])

(* deliver_pending_follower and the loop of finish_pending_protection_block. *)
Deliver(q) ==
    /\ stage[q] = "deliver"
    /\ IF todo[q] = <<>>
       THEN Goto(q, "store") /\ UNCHANGED <<todo, answer, logged>>
       ELSE /\ todo' = [todo EXCEPT ![q] = Tail(@)]
            /\ EndWith(Head(todo[q]), Outcome(q))
    /\ UNCHANGED <<shared, ask, filter, active, joined, followers, result,
                   verdict, owns, refresh>>

(* insert_cached_response: an answer that is not blocked is cached, unless *)
(* its TTL is zero, it is too large or it cannot be normalised.            *)
Store(q) ==
    /\ stage[q] = "store"
    /\ \/ /\ result[q] # None /\ ~verdict[q]
          /\ Name(q) \notin Uncacheable
          /\ cache' \in Stored(CacheKey(q), result[q])
       \/ UNCHANGED cache
    /\ Goto(q, "reply")
    /\ UNCHANGED <<filter_runtime, paused, pending, ask, filter, active,
                   joined, followers, todo, result, verdict, owns, refresh,
                   answer, logged>>

(* The query's own client is answered last. *)
Reply(q) ==
    /\ stage[q] = "reply"
    /\ EndWith(q, Outcome(q))
    /\ UNCHANGED <<shared, ask, filter, active, joined, followers, todo,
                   result, verdict, owns, refresh>>

-----------------------------------------------------------------------------
(* Background refresh *)

(* A task that waited in the queue for too long gives the flag back. *)
StartRefresh(q) ==
    /\ refresh[q] = "queued"
    /\ \/ refresh' = [refresh EXCEPT ![q] = "running"] /\ UNCHANGED cache
       \/ /\ refresh' = [refresh EXCEPT ![q] = "done"]
          /\ cache' = FlagCleared(CacheKey(q))
    /\ UNCHANGED <<filter_runtime, paused, pending, stage, ask, filter,
                   active, joined, followers, todo, result, verdict, owns,
                   answer, logged>>

(* A refresh that forgets the flag when the new answer is blocked. *)
RefreshedLeaky(q) ==
    IF active[q] /\ ProtectionBlocks(filter_runtime, q)
    THEN {cache}
    ELSE {FlagCleared(CacheKey(q))} \cup Stored(CacheKey(q), Fetched(q))

(* The outcomes of a refresh: a blocked answer, a failed forward or an     *)
(* answer that is not cached clear the flag; a stored entry replaces it.   *)
(* The answer is judged by the filter of the moment, the pause by the      *)
(* query that asked for the refresh.                                       *)
Refreshed(q) ==
    {FlagCleared(CacheKey(q))} \cup
    (IF active[q] /\ ProtectionBlocks(filter_runtime, q)
     THEN {} ELSE Stored(CacheKey(q), Fetched(q)))

FinishRefresh(q) ==
    /\ refresh[q] = "running"
    /\ cache' \in Refreshed(q)
    /\ refresh' = [refresh EXCEPT ![q] = "done"]
    /\ UNCHANGED <<filter_runtime, paused, pending, stage, ask, filter,
                   active, joined, followers, todo, result, verdict, owns,
                   answer, logged>>

-----------------------------------------------------------------------------
(* What happens around the queries *)

ReplaceFilter(f) ==
    /\ f # filter_runtime
    /\ filter_runtime' = f
    /\ UNCHANGED <<paused, cache, pending, stage, ask, filter, active, joined,
                   followers, todo, result, verdict, owns, refresh, answer,
                   logged>>

(* Protection is paused, resumed, or the deadline passes. *)
TogglePause ==
    /\ paused' = ~paused
    /\ UNCHANGED <<filter_runtime, cache, pending, stage, ask, filter, active,
                   joined, followers, todo, result, verdict, owns, refresh,
                   answer, logged>>

ClearCache ==
    /\ cache' = [k \in Keys |-> None]
    /\ UNCHANGED <<filter_runtime, paused, pending, stage, ask, filter,
                   active, joined, followers, todo, result, verdict, owns,
                   refresh, answer, logged>>

(* Time passes for one entry. *)
Age(k) ==
    /\ cache[k] # None /\ cache[k].age # "dead"
    /\ cache' = [cache EXCEPT ![k].age =
                    CASE @ = "fresh" -> "expiring"
                      [] @ = "expiring" -> "stale"
                      [] @ = "stale" -> "dead"]
    /\ UNCHANGED <<filter_runtime, paused, pending, stage, ask, filter,
                   active, joined, followers, todo, result, verdict, owns,
                   refresh, answer, logged>>

-----------------------------------------------------------------------------
Arrive(q) == \E a \in Asks : Deny(q, a) \/ Admit(q, a)

Work(q) ==
    \/ Decide(q) \/ Lookup(q) \/ ServeHit(q) \/ Begin(q) \/ Join(q)
    \/ Forward(q) \/ FinishPending(q) \/ Take(q) \/ Deliver(q)
    \/ Store(q) \/ Reply(q)

RefreshTask(q) == StartRefresh(q) \/ FinishRefresh(q)

Environment ==
    \/ \E f \in Filters : ReplaceFilter(f)
    \/ TogglePause
    \/ ClearCache
    \/ \E k \in Keys : Age(k)

Next ==
    \/ \E q \in Queries : Arrive(q) \/ Work(q) \/ RefreshTask(q)
    \/ Environment

Spec == Init /\ [][Next]_vars

(* A worker that handles a query keeps running, forwarding ends at its     *)
(* deadline, and the coordination pool runs the tasks it has accepted.     *)
Fairness ==
    \A q \in Queries : WF_vars(Work(q)) /\ WF_vars(RefreshTask(q))

FairSpec == Spec /\ Fairness

-----------------------------------------------------------------------------
(* Properties *)

(* A follower is on the list of a leader that will still deliver to it:    *)
(* whatever way the leader takes through handle_dns_query, no released     *)
(* query is left without an answer.                                        *)
FollowersHaveLeader ==
    \A q \in Queries : stage[q] = "following" =>
        \E l \in Queries :
           \/ /\ stage[l] \in {"forward", "finish", "take"}
              /\ followers[l] # None
              /\ \E i \in DOMAIN followers[l] : followers[l][i] = q
           \/ /\ stage[l] = "deliver"
              /\ \E i \in DOMAIN todo[l] : todo[l][i] = q

(* A finished query has one outcome and, unless access control or the      *)
(* parser turned it away, exactly one log entry; an unfinished one has     *)
(* none.  A follower is not also answered by its own worker.               *)
OneOutcome ==
    \A q \in Queries :
        /\ stage[q] = "done" <=> answer[q].kind # "none"
        /\ logged[q] =
              IF stage[q] = "done" /\ answer[q].kind # "denied" THEN 1 ELSE 0

(* The scope of the cache key keeps answers apart: the data a client gets, *)
(* from the cache, as a follower or by its own forward, came from its own  *)
(* upstream pool and was fetched under its own filtering policy.           *)
AnswersKeptApart ==
    \A q \in Queries :
        answer[q].kind = "data" => answer[q].data = Fetched(q)

(* A query that forwards or hits the cache while filtering is active never *)
(* gets an answer that its own filter snapshot blocks, even if the entry   *)
(* was cached under another filter or while protection was paused.         *)
OwnVerdict ==
    \A q \in Queries :
        /\ active[q]
        /\ joined[q] \in {None, q}
        /\ answer[q].kind = "data"
        => ~ProtectionBlocks(filter[q], q)

(* Every query is judged by the filter state that it read, followers       *)
(* included.                                                               *)
EveryVerdictOwn ==
    \A q \in Queries :
        active[q] /\ answer[q].kind = "data" => ~ProtectionBlocks(filter[q], q)

(* A raised refresh flag has somebody who will lower it or replace the     *)
(* entry; otherwise the key would never be refreshed again.                *)
RefreshFlagOwned ==
    \A k \in Keys : k.name \notin Oversize =>
        (cache[k] # None /\ cache[k].refreshing =>
            \E q \in Queries : /\ ask[q] # None /\ CacheKey(q) = k
                               /\ owns[q] \/ refresh[q] \in {"queued", "running"})

(* Every admitted query ends. *)
QueriesEnd == \A q \in Queries : stage[q] # "new" ~> stage[q] = "done"

(* A raised refresh flag is lowered, or its entry is replaced or dropped:  *)
(* every way out of refresh_cache_async gives the flag back, so that no    *)
(* cached answer is kept from being refreshed for ever.                    *)
RefreshFlagsFall ==
    \A k \in Keys : k.name \notin Oversize =>
        (cache[k] # None /\ cache[k].refreshing
            ~> cache[k] = None \/ ~cache[k].refreshing)

(* Coalescing leaves nobody behind and answers nobody twice: a registered    *)
(* follower always has a leader that will take it, and each query has one    *)
(* outcome.                                                                  *)
CoalescingSound == FollowersHaveLeader /\ OneOutcome

(* Every admitted query ends and every raised refresh flag falls, on all ways*)
(* through handle_dns_query and refresh_cache_async.                         *)
QueryLiveness == QueriesEnd /\ RefreshFlagsFall
=============================================================================
