--------------------------- MODULE StatisticsStore ---------------------------
(* database.rs, rankings.rs and their callers: query log, hourly statistics  *)
(* and lifetime statistics in one SQLite file.  Batches of entries arrive    *)
(* from the log writer; the user changes the retention, clears, reads the    *)
(* dashboard and pages through the log; a maintenance thread prunes.  An     *)
(* hour is the unit of time, and every entry moves one byte.                 *)
EXTENDS Integers, Sequences, FiniteSets, SequencesExt

CONSTANTS DsEntries,        \* what the writer may hand over
          DsRetentions,     \* statistics_retention_hours, 0 for ever
          DsMaxRetention,   \* MAX_STATISTICS_RETENTION_HOURS
          DsTrend,          \* TRAFFIC_RETENTION_HOURS
          DsLogRetention,   \* query_log_retention_hours
          DsPageSize,
          MaxDsTime, MaxDsEntries, MaxDsFaults   \* bounds

ASSUME DsConstants ==
    /\ DsRetentions \subseteq Nat /\ {DsMaxRetention, DsPageSize} \subseteq Nat \ {0}
    /\ {DsTrend, DsLogRetention, MaxDsTime, MaxDsEntries, MaxDsFaults} \subseteq Nat
    /\ \A r \in DsRetentions : r <= DsMaxRetention
    /\ \A e \in DsEntries : {e.background, e.log, e.statistics} \subseteq BOOLEAN

VARIABLES dsNow,
          dsRetention,      \* in the configuration and in the atomic of Database
          dsLog, dsNextId,  \* query_logs, a set of rows, and its sequence
          dsHour, dsLife,   \* statistics_hourly, dashboard_summary_stats
          dsReader,         \* someone paging through the log
          dsSeen,           \* all entries counted since the last clearing, with their hours
          dsCounted,        \* those of them the lifetime statistics stand for
          dsLeast,          \* the shortest window kept since then
          dsWhole,          \* the lifetime statistics began with a whole window
          dsMade, dsFaults
dsTables == <<dsLog, dsNextId, dsHour, dsLife>>
dsGhost == <<dsSeen, dsCounted, dsLeast, dsWhole>>
dsVars == <<dsNow, dsRetention, dsTables, dsReader, dsGhost, dsMade, dsFaults>>

DsNobody == [sort |-> "none", cursor |-> <<>>, got |-> <<>>, wanted |-> {}, done |-> FALSE]
DsEmpty == [k \in {} |-> 0]

------------------------------------------------------------------------------
(* The clock starts late enough for every window to lie in the past. *)
DsBack(hours) == dsNow - hours
DsStart == DsMaxRetention + DsTrend + DsLogRetention

(* prune_expired: what "for ever" keeps of the hourly rows. *)
DsDetail(r) == IF r = 0 THEN DsMaxRetention ELSE r

(* aggregate_hourly_stats: the rows an entry counts in.  An entry of the     *)
(* cache's own refreshes has no client and moves bytes only.                 *)
DsKeysOf(e) ==
    {<<"total", "">>} \cup
    (IF e.background THEN {}
     ELSE {<<"domain", e.domain>>, <<"client", e.client>>}
          \cup (IF e.outcome = "forwarded" THEN {<<"upstream", e.upstream>>} ELSE {})
          \cup (IF e.outcome = "blocked" THEN {<<"blocklist", e.source>>} ELSE {}))
DsColumns == {"queries", "blocked", "requests", "bytes"}
DsOne(condition) == IF condition THEN 1 ELSE 0
DsDelta(e, key) ==
    [queries |-> DsOne(~e.background /\ key[1] \in {"total", "domain", "client"}),
     blocked |-> DsOne(~e.background /\ e.outcome = "blocked" /\ key[1] # "upstream"),
     requests |-> DsOne(key[1] = "upstream"),
     bytes |-> DsOne(key[1] \in {"total", "domain", "client"})]
DsDeltas(e) == [key \in DsKeysOf(e) |-> DsDelta(e, key)]

(* A row that is not there counts nothing. *)
DsAt(table, row) == IF row \in DOMAIN table THEN table[row] ELSE [c \in DsColumns |-> 0]
(* add_stat_delta *)
DsSum(a, b) == [c \in DsColumns |-> a[c] + b[c]]
(* The ON CONFLICT clauses: new rows, and old ones with the deltas added. *)
DsCountIn(table, deltas) ==
    [row \in DOMAIN table \cup DOMAIN deltas |-> DsSum(DsAt(table, row), DsAt(deltas, row))]
DsOfHour(deltas) == [row \in {dsNow} \X DOMAIN deltas |-> deltas[row[2]]]

DsInit ==
    /\ dsNow = DsStart /\ dsRetention \in DsRetentions
    /\ dsLog = {} /\ dsNextId = 1 /\ dsHour = DsEmpty /\ dsLife = DsEmpty
    /\ dsReader = DsNobody /\ dsSeen = <<>> /\ dsCounted = {} /\ dsLeast = DsDetail(dsRetention)
    /\ dsWhole = TRUE /\ dsMade = 0 /\ dsFaults = 0

DsLogged == dsLog \cup {[id |-> dsNextId, at |-> dsNow]}

(* insert_query_events: log rows, hourly rows and, when kept for ever,       *)
(* lifetime rows in one transaction.                                         *)
DsInsert(e) ==
    /\ dsMade < MaxDsEntries /\ dsMade' = dsMade + 1
    /\ IF e.log THEN dsLog' = DsLogged /\ dsNextId' = dsNextId + 1
       ELSE UNCHANGED <<dsLog, dsNextId>>
    /\ IF e.statistics
       THEN /\ dsHour' = DsCountIn(dsHour, DsOfHour(DsDeltas(e)))
            /\ dsLife' = IF dsRetention = 0 THEN DsCountIn(dsLife, DsDeltas(e)) ELSE dsLife
            /\ dsSeen' = Append(dsSeen, [e |-> e, hour |-> dsNow])
            /\ dsCounted' = IF dsRetention = 0 THEN dsCounted \cup {Len(dsSeen) + 1} ELSE dsCounted
       ELSE UNCHANGED <<dsHour, dsLife, dsSeen, dsCounted>>
    /\ UNCHANGED <<dsNow, dsRetention, dsReader, dsLeast, dsWhole, dsFaults>>

(* A transaction that fails leaves nothing; the batch is gone. *)
DsInsertFails ==
    /\ dsMade < MaxDsEntries /\ dsFaults < MaxDsFaults
    /\ dsMade' = dsMade + 1 /\ dsFaults' = dsFaults + 1
    /\ UNCHANGED <<dsNow, dsRetention, dsTables, dsReader, dsGhost>>

------------------------------------------------------------------------------
(* The hourly rows of a key, of this hour and so many before it. *)
DsSumSince(key, hours) ==
    LET sum[age \in 0..hours] ==
            DsSum(DsAt(dsHour, <<DsBack(age), key>>), IF age = 0 THEN [c \in DsColumns |-> 0] ELSE sum[age - 1])
    IN sum[hours]
DsKeysSince(hours) == {row[2] : row \in {x \in DOMAIN dsHour : x[1] >= DsBack(hours)}}

(* Mutant: the old lifetime rows are kept. *)
DsRebuiltOnTop(hours) ==
    DsCountIn(dsLife, [key \in DsKeysSince(hours) |-> [DsSumSince(key, hours) EXCEPT !.bytes = 0]])

(* rebuild_lifetime_statistics: the columns with the bytes are not among     *)
(* those that are summed.                                                    *)
DsRebuilt(hours) == [key \in DsKeysSince(hours) |-> [DsSumSince(key, hours) EXCEPT !.bytes = 0]]

(* save_config: a change to "for ever" starts from the window kept so far. *)
DsSaveConfig(r) ==
    /\ r # dsRetention /\ dsRetention' = r
    /\ IF r = 0 /\ dsRetention # 0
       THEN /\ dsLife' = DsRebuilt(dsRetention)
            /\ dsCounted' = {i \in DOMAIN dsSeen : dsSeen[i].hour >= DsBack(dsRetention)}
            /\ dsWhole' = (dsRetention <= dsLeast)
       ELSE UNCHANGED <<dsLife, dsCounted, dsWhole>>
    /\ dsLeast' = IF DsDetail(r) < dsLeast THEN DsDetail(r) ELSE dsLeast
    /\ UNCHANGED <<dsNow, dsLog, dsNextId, dsHour, dsReader, dsSeen, dsMade, dsFaults>>

(* Mutant: 0 hours are kept of what is kept for ever. *)
DsDetailSinceZero == DsBack(dsRetention)
(* Mutant: the totals go with the rest. *)
DsTotalSinceDetail == DsBack(DsDetail(dsRetention))

(* prune_expired: the totals also serve the trend, which is longer than a    *)
(* short retention.                                                          *)
DsDetailSince == DsBack(DsDetail(dsRetention))
DsTotalSince == IF DsDetailSince < DsBack(DsTrend) THEN DsDetailSince ELSE DsBack(DsTrend)
DsKept(row) == row[1] >= (IF row[2][1] = "total" THEN DsTotalSince ELSE DsDetailSince)
DsPrune ==
    /\ dsLog' = {row \in dsLog : row.at >= DsBack(DsLogRetention)}
    /\ dsHour' = [row \in {x \in DOMAIN dsHour : DsKept(x)} |-> dsHour[row]]
    /\ <<dsLog', dsHour'>> # <<dsLog, dsHour>>
    /\ UNCHANGED <<dsNow, dsRetention, dsNextId, dsLife, dsReader, dsGhost, dsMade, dsFaults>>

(* Mutant: rows that are not old yet stay, and the sequence starts again. *)
DsClearLogsExpired ==
    /\ dsLog # {} /\ dsLog' = {row \in dsLog : row.at >= DsBack(DsLogRetention)}
    /\ dsNextId' = 1 /\ dsReader' = DsNobody
    /\ UNCHANGED <<dsNow, dsRetention, dsHour, dsLife, dsGhost, dsMade, dsFaults>>

(* clear_query_logs: the sequence of ids starts again, and so does whoever   *)
(* reads.                                                                    *)
DsClearLogs ==
    /\ dsLog # {} /\ dsLog' = {} /\ dsNextId' = 1 /\ dsReader' = DsNobody
    /\ UNCHANGED <<dsNow, dsRetention, dsHour, dsLife, dsGhost, dsMade, dsFaults>>
DsClearStatistics ==
    /\ dsSeen # <<>> /\ dsHour' = DsEmpty /\ dsLife' = DsEmpty
    /\ dsSeen' = <<>> /\ dsCounted' = {} /\ dsLeast' = DsDetail(dsRetention) /\ dsWhole' = TRUE
    /\ UNCHANGED <<dsNow, dsRetention, dsLog, dsNextId, dsReader, dsMade, dsFaults>>
DsTick ==
    /\ dsNow < DsStart + MaxDsTime /\ dsNow' = dsNow + 1
    /\ UNCHANGED <<dsRetention, dsTables, dsReader, dsGhost, dsMade, dsFaults>>

------------------------------------------------------------------------------
(* resolve_statistics_hours, log_stats: which rows a window of hours reads;  *)
(* none asked for means the retention.                                       *)
DsWindow(hours) == IF dsRetention > 0 /\ hours > dsRetention THEN dsRetention
                   ELSE IF hours > DsMaxRetention THEN DsMaxRetention ELSE hours
(* One dimension of the hourly rows of a window or, for ever, of the         *)
(* lifetime rows.                                                            *)
DsRead(dimension, hours) ==
    IF hours = 0 THEN [v \in {k[2] : k \in {x \in DOMAIN dsLife : x[1] = dimension}} |->
                          DsAt(dsLife, <<dimension, v>>)]
    ELSE [v \in {k[2] : k \in {x \in DsKeysSince(hours) : x[1] = dimension}} |->
             DsSumSince(<<dimension, v>>, hours)]

(* A ranking shows what is not 0; the instances stay below its 200 rows. *)
DsRanked(rows, column) ==
    [v \in {x \in DOMAIN rows : rows[x][column] > 0} |-> rows[v][column]]
DsTotalLogCounts(hours) ==
    DsAt(DsRead("total", hours), "")
DsGroupedDomainCounts(hours) ==
    LET rows == DsRead("domain", hours) IN <<DsRanked(rows, "queries"), DsRanked(rows, "blocked")>>
DsClientCounts(hours) ==
    LET rows == DsRead("client", hours) IN <<DsRanked(rows, "queries"), DsRanked(rows, "blocked")>>
DsBlocklistHitCounts(hours) == DsRanked(DsRead("blocklist", hours), "blocked")
DsUpstreamRequestCounts(hours) == DsRanked(DsRead("upstream", hours), "requests")
DsTrafficRank(dimension, hours) == DsRanked(DsRead(dimension, hours), "bytes")
(* log_stats, but for the trend *)
DsLogStats(hours) ==
    [totals |-> DsTotalLogCounts(hours), domains |-> DsGroupedDomainCounts(hours),
     clients |-> DsClientCounts(hours), blocklists |-> DsBlocklistHitCounts(hours),
     upstreams |-> DsUpstreamRequestCounts(hours),
     traffic |-> <<DsTrafficRank("domain", hours), DsTrafficRank("client", hours)>>]
DsTrafficBuckets == DsSumSince(<<"total", "">>, DsTrend)

------------------------------------------------------------------------------
(* Mutant: rows of the same second are not told apart. *)
DsAfterByTime(row, sort, cursor) ==
    cursor # <<>> => IF sort = "oldest" THEN row.at > cursor[1] ELSE row.at < cursor[1]

(* parse_query_log_cursor, query_logs_advanced: after the cursor, by time    *)
(* and id.                                                                   *)
DsAfter(row, sort, cursor) ==
    cursor # <<>> =>
        IF sort = "oldest" THEN row.at > cursor[1] \/ (row.at = cursor[1] /\ row.id > cursor[2])
        ELSE row.at < cursor[1] \/ (row.at = cursor[1] /\ row.id < cursor[2])
DsVisible == {row \in dsLog : row.at >= DsBack(DsLogRetention)}
DsRest(sort, cursor) == {row \in DsVisible : DsAfter(row, sort, cursor)}
DsIds(rows) == {row.id : row \in rows}
DsCursor(row) == <<row.at, row.id>>

(* ORDER BY and LIMIT: as many rows as fit, in order, those left out after   *)
(* all of them.                                                              *)
DsBefore(a, b, sort) ==
    IF sort = "oldest" THEN b.at > a.at \/ (b.at = a.at /\ b.id > a.id)
    ELSE b.at < a.at \/ (b.at = a.at /\ b.id < a.id)
DsPages(sort, cursor) ==
    LET rest == DsRest(sort, cursor)
    IN {page \in UNION {[1..n -> rest] : n \in 0..DsPageSize} :
           /\ \A i, j \in DOMAIN page : i < j => DsBefore(page[i], page[j], sort)
           /\ \A row \in rest \ Range(page) :
                  Len(page) = DsPageSize /\ DsBefore(page[Len(page)], row, sort)}

(* One row more than fits tells whether there is a next page. *)
DsReadPage(reader) ==
    \E page \in DsPages(reader.sort, reader.cursor) :
        LET more == DsRest(reader.sort, reader.cursor) \ Range(page) # {}
        IN dsReader' = [reader EXCEPT !.got = @ \o [i \in DOMAIN page |-> page[i].id],
                                      !.cursor = IF more THEN DsCursor(page[Len(page)]) ELSE @,
                                      !.done = ~more]
DsReadFirst(sort) ==
    /\ dsReader = DsNobody /\ dsLog # {}
    /\ DsReadPage([DsNobody EXCEPT !.sort = sort, !.wanted = DsIds(DsVisible)])
    /\ UNCHANGED <<dsNow, dsRetention, dsTables, dsGhost, dsMade, dsFaults>>
DsReadNext ==
    /\ dsReader # DsNobody /\ ~dsReader.done
    /\ DsReadPage(dsReader)
    /\ UNCHANGED <<dsNow, dsRetention, dsTables, dsGhost, dsMade, dsFaults>>
DsReadEnds ==
    /\ dsReader.done /\ dsReader' = DsNobody
    /\ UNCHANGED <<dsNow, dsRetention, dsTables, dsGhost, dsMade, dsFaults>>

DsNext ==
    \/ DsInsertFails \/ DsPrune \/ DsClearLogs \/ DsClearStatistics \/ DsTick \/ DsReadNext \/ DsReadEnds
    \/ \E e \in DsEntries : DsInsert(e)
    \/ \E r \in DsRetentions : DsSaveConfig(r)
    \/ \E sort \in {"newest", "oldest"} : DsReadFirst(sort)
DsSpec == DsInit /\ [][DsNext]_dsVars

------------------------------------------------------------------------------
DsKeys == UNION {DsKeysOf(e) : e \in DsEntries}

(* The same statistics counted from the entries themselves. *)
DsEntry(i) == dsSeen[i].e
DsAsked(indices) == {i \in indices : ~DsEntry(i).background}
DsOutcome(indices, outcome) == {i \in DsAsked(indices) : DsEntry(i).outcome = outcome}
DsBy(column, indices) ==
    [v \in {DsEntry(i)[column] : i \in indices} |-> Cardinality({i \in indices : DsEntry(i)[column] = v})]
DsTotals(indices) ==
    [queries |-> Cardinality(DsAsked(indices)), blocked |-> Cardinality(DsOutcome(indices, "blocked")),
     requests |-> 0, bytes |-> Cardinality(indices)]
DsExpected(indices) ==
    LET asked == DsAsked(indices)
        blocked == DsOutcome(indices, "blocked")
    IN [totals |-> DsTotals(indices),
        domains |-> <<DsBy("domain", asked), DsBy("domain", blocked)>>,
        clients |-> <<DsBy("client", asked), DsBy("client", blocked)>>,
        blocklists |-> DsBy("source", blocked),
        upstreams |-> DsBy("upstream", DsOutcome(indices, "forwarded")),
        traffic |-> <<DsBy("domain", asked), DsBy("client", asked)>>]
DsSince(hour) == {i \in DOMAIN dsSeen : dsSeen[i].hour >= hour}

DsTypeOK ==
    /\ dsRetention \in DsRetentions /\ dsNow \in DsStart..(DsStart + MaxDsTime)
    /\ DOMAIN dsHour \subseteq (0..dsNow) \X DsKeys
    /\ \A a, b \in dsLog : (a.id = b.id => a = b) /\ (a.id < b.id => a.at <= b.at)
    /\ dsCounted \subseteq DOMAIN dsSeen

(* Every window the dashboard offers, and every ranking in it, counts each   *)
(* entry of the window once, however batches, pruning and changes of the     *)
(* retention alternate, as long as the window was never kept shorter.        *)
DsWindowsComplete ==
    \A hours \in 1..DsMaxRetention :
        DsWindow(hours) <= dsLeast => DsLogStats(DsWindow(hours)) = DsExpected(DsSince(DsBack(DsWindow(hours))))

(* The trend is complete for its own length, even under a shorter retention. *)
DsTrendComplete == DsTrafficBuckets = DsTotals(DsSince(DsBack(DsTrend)))

(* While statistics are kept for ever, the lifetime counts are those of all  *)
(* entries since, and of the window kept before the change, unless a window  *)
(* before that was shorter.                                                  *)
DsLifetimeExact ==
    dsRetention = 0 /\ dsWhole =>
        LET shown == DsLogStats(0)
            expected == DsExpected(dsCounted)
        IN /\ shown.totals.queries = expected.totals.queries
           /\ shown.totals.blocked = expected.totals.blocked
           /\ \A part \in {"domains", "clients", "blocklists", "upstreams"} : shown[part] = expected[part]

(* The bytes of the lifetime statistics are exact as well ("永久累计由        *)
(* dashboard_summary_stats 精确保留", prune_expired).                         *)
DsLifetimeTraffic ==
    dsRetention = 0 /\ dsWhole => DsTotalLogCounts(0).bytes = DsTotals(dsCounted).bytes

(* Paging with the cursor while rows are added and pruned shows no row twice *)
(* and, at the end, every row that was there at the start and still is.      *)
DsPagesComplete ==
    /\ \A i, j \in DOMAIN dsReader.got : i # j => dsReader.got[i] # dsReader.got[j]
    /\ dsReader.done => (dsReader.wanted \cap DsIds(DsVisible)) \subseteq Range(dsReader.got)

(* Windows, trend, lifetime counts and pages show what was recorded, however *)
(* batches, pruning and changes of the retention alternate.                  *)
DsStatisticsRight ==
    /\ DsTypeOK /\ DsWindowsComplete /\ DsTrendComplete /\ DsLifetimeExact /\ DsPagesComplete
==============================================================================
