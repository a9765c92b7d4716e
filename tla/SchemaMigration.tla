--------------------------- MODULE SchemaMigration ---------------------------
(* database.rs, open and init_schema: a database file of any earlier version *)
(* is brought to the present schema, statement by statement, while the       *)
(* process may die or a statement fail after each of them; the next start    *)
(* begins again with what is on disk.  Every query of the history was        *)
(* blocked by the one list of the configuration, so that a table is a count. *)
EXTENDS Integers, Sequences

CONSTANTS DmHistory,                     \* queries counted before the upgrade
          MaxDmFaults, MaxDmInserts      \* bounds

ASSUME DmConstants == DmHistory \in Nat \ {0} /\ MaxDmFaults \in Nat /\ MaxDmInserts \in Nat

VARIABLES dmDb,        \* the file
          dmPc,        \* where init_schema is, "open" and "closed" included
          dmDropped,   \* dropped_legacy_search
          dmExisted,   \* query_log_search_existed
          dmTotal, dmInserts, dmFaults
dmVars == <<dmDb, dmPc, dmDropped, dmExisted, dmTotal, dmInserts, dmFaults>>

DmMinuteTables == <<"minute", "domain", "client", "upstream", "blocklist">>
DmMinutes(n) == [t \in 1..Len(DmMinuteTables) |-> n]
DmRows(n, name, tag) == [total |-> n, domain |-> n, client |-> 0, name |-> name, tag |-> tag]
DmNoRows == DmRows(0, 0, 0)
DmMarks == {"hourly", "lifetime", "client", "source", "search", "compaction"}

(* Files of the versions there were: a new one, logs without statistics,     *)
(* statistics by the minute, with a summary, by the hour, and today's.       *)
DmFile(logs, minutes, summary, hourly, keys, index, rows) ==
    [logs |-> logs, minutes |-> minutes, days |-> summary.total, summary |-> summary, hourly |-> hourly,
     keys |-> keys, index |-> index, indexed |-> rows, slack |-> FALSE]
DmVersions ==
    LET named == DmRows(DmHistory, DmHistory, 0)
        tagged == DmRows(DmHistory, 0, DmHistory)
    IN {DmFile(0, DmMinutes(0), DmNoRows, DmNoRows, {}, "absent", 0),
        DmFile(DmHistory, DmMinutes(0), DmNoRows, DmNoRows, {}, "absent", 0),
        DmFile(1, DmMinutes(DmHistory), DmNoRows, DmNoRows, {}, "absent", 0),
        DmFile(1, DmMinutes(1), named, DmNoRows, {}, "sized", 1),
        DmFile(1, DmMinutes(0), named, named, {"hourly", "lifetime", "search"}, "sized", 1),
        DmFile(1, DmMinutes(0), tagged, tagged, DmMarks \ {"compaction"}, "plain", 1)}

DmInit ==
    /\ dmDb \in DmVersions /\ dmPc = "closed" /\ dmDropped = FALSE /\ dmExisted = FALSE
    /\ dmTotal = IF dmDb.logs = 0 THEN 0 ELSE DmHistory
    /\ dmInserts = 0 /\ dmFaults = 0

------------------------------------------------------------------------------
DmStep(pc, next, db) ==
    /\ dmPc = pc /\ dmPc' = next /\ dmDb' = db
    /\ UNCHANGED <<dmDropped, dmExisted, dmTotal, dmInserts, dmFaults>>

(* Mutant: the table goes, its shadow tables stay. *)
DmWithoutTable == [dmDb EXCEPT !.index = "absent", !.slack = TRUE]

DmWithoutIndex == [dmDb EXCEPT !.index = "absent", !.indexed = 0, !.slack = TRUE]

(* drop_legacy_sized_query_log_search, and what is left after it *)
DmDrop ==
    /\ dmPc = "closed" /\ dmPc' = "tables"
    /\ dmDropped' = (dmDb.index = "sized")
    /\ dmExisted' = (dmDb.index = "plain")
    /\ dmDb' = IF dmDb.index = "sized" THEN DmWithoutIndex ELSE dmDb
    /\ UNCHANGED <<dmTotal, dmInserts, dmFaults>>

(* init_schema: missing tables and columns, which start empty; then the      *)
(* empty search table with its triggers, and the indexes.                    *)
DmCreateTables == DmStep("tables", "columns", dmDb)
DmAddColumns == DmStep("columns", "search", dmDb)
DmCreate ==
    DmStep("search", "backfill", IF dmDb.index = "absent" THEN [dmDb EXCEPT !.index = "plain"] ELSE dmDb)

(* Mutant: the logs are added to what is there. *)
DmBackfilledAgain(table) ==
    [dmDb EXCEPT !.minutes[table] = @ + dmDb.logs]

(* backfill_stats_table_if_empty *)
DmBackfilled(table) ==
    [dmDb EXCEPT !.minutes[table] = IF @ = 0 THEN dmDb.logs ELSE @]

(* backfill_query_log_stats_if_empty: the five tables one by one, only for a *)
(* file without hourly statistics and summary.                               *)
DmNeedsBackfill == "hourly" \notin dmDb.keys /\ dmDb.summary = DmNoRows
DmBackfillTable(table) ==
    /\ DmNeedsBackfill /\ dmDb.logs > 0
    /\ \A t \in 1..(table - 1) : dmDb.minutes[t] > 0
    /\ DmBackfilled(table) # dmDb
    /\ DmStep("backfill", "backfill", DmBackfilled(table))
DmBackfillDone ==
    /\ DmNeedsBackfill => dmDb.logs = 0 \/ \A t \in DOMAIN dmDb.minutes : dmDb.minutes[t] > 0
    /\ DmStep("backfill", "summary", dmDb)

(* backfill_dashboard_summary_if_empty, in one transaction *)
DmSummary ==
    DmStep("summary", "hourly",
           IF DmNeedsBackfill /\ dmDb.minutes[1] > 0
           THEN [dmDb EXCEPT !.days = dmDb.minutes[1],
                             !.summary = [DmNoRows EXCEPT !.total = dmDb.minutes[1], !.domain = dmDb.minutes[2],
                                                          !.name = dmDb.minutes[5]]]
           ELSE dmDb)

(* backfill_hourly_statistics_if_empty: from the days and rankings of the    *)
(* summary, which reaches back further, or else from the minutes.            *)
DmHourly ==
    DmStep("hourly", "hourlyMark",
           IF "hourly" \in dmDb.keys \/ dmDb.hourly # DmNoRows THEN dmDb
           ELSE IF dmDb.summary # DmNoRows
           THEN [dmDb EXCEPT !.hourly = [dmDb.summary EXCEPT !.total = dmDb.days]]
           ELSE [dmDb EXCEPT !.hourly = [DmNoRows EXCEPT !.total = dmDb.minutes[1], !.domain = dmDb.minutes[2],
                                                         !.name = dmDb.minutes[5]]])
DmHourlyMark == DmStep("hourlyMark", "lifetime", [dmDb EXCEPT !.keys = @ \cup {"hourly"}])

(* initialize_lifetime_statistics: rebuilt and marked in one transaction *)
DmLifetime ==
    DmStep("lifetime", "clientHours",
           IF "lifetime" \in dmDb.keys THEN dmDb
           ELSE [dmDb EXCEPT !.summary = dmDb.hourly, !.keys = @ \cup {"lifetime"}])

(* initialize_client_blocked_statistics: counted again from the logs *)
DmClientHours ==
    DmStep("clientHours", "clientSummary",
           IF "client" \in dmDb.keys THEN dmDb ELSE [dmDb EXCEPT !.hourly.client = dmDb.logs])
DmClientSummary ==
    DmStep("clientSummary", "clientMark",
           IF "client" \in dmDb.keys THEN dmDb ELSE [dmDb EXCEPT !.summary.client = dmDb.hourly.client])
DmClientMark == DmStep("clientMark", "copyHours", [dmDb EXCEPT !.keys = @ \cup {"client"}])

------------------------------------------------------------------------------
(* migrate_blocklist_source_to_id: statements of their own, so a copy whose  *)
(* original was not deleted before a crash is copied again.                  *)
DmCopied(rows) == [rows EXCEPT !.tag = @ + rows.name]
DmDeleted(rows) == [rows EXCEPT !.name = 0]
DmSourced == "source" \in dmDb.keys

(* Mutant: the names go before their counts are copied. *)
DmCopyHoursLate ==
    DmStep("copyHours", "deleteHours", IF DmSourced THEN dmDb ELSE [dmDb EXCEPT !.hourly = DmDeleted(@)])

DmCopyHours ==
    DmStep("copyHours", "deleteHours", IF DmSourced THEN dmDb ELSE [dmDb EXCEPT !.hourly = DmCopied(@)])
DmDeleteHours ==
    DmStep("deleteHours", "copySummary", IF DmSourced THEN dmDb ELSE [dmDb EXCEPT !.hourly = DmDeleted(@)])
DmCopySummary ==
    DmStep("copySummary", "deleteSummary", IF DmSourced THEN dmDb ELSE [dmDb EXCEPT !.summary = DmCopied(@)])
DmDeleteSummary ==
    DmStep("deleteSummary", "sourceMark", IF DmSourced THEN dmDb ELSE [dmDb EXCEPT !.summary = DmDeleted(@)])
DmSourceMark == DmStep("sourceMark", "index", [dmDb EXCEPT !.keys = @ \cup {"source"}])

(* Mutant: a marked index is trusted although its table is new. *)
DmIndexTrusted ==
    IF "search" \in dmDb.keys THEN dmDb
    ELSE [dmDb EXCEPT !.indexed = dmDb.logs, !.keys = @ \cup {"search"}]

(* initialize_query_log_search: rebuilt and marked in one transaction *)
DmIndexBuilt ==
    IF "search" \in dmDb.keys /\ dmExisted THEN dmDb
    ELSE [dmDb EXCEPT !.indexed = dmDb.logs, !.keys = @ \cup {"search"}]
DmIndex == DmStep("index", "mark", DmIndexBuilt)

(* mark_pending_compaction *)
DmMark ==
    DmStep("mark", "compact", IF dmDropped THEN [dmDb EXCEPT !.keys = @ \cup {"compaction"}] ELSE dmDb)

(* compact_if_migration_pending: vacuum, then the mark goes; a failure keeps *)
(* it and the database opens all the same.                                   *)
DmVacuum ==
    /\ "compaction" \in dmDb.keys
    /\ DmStep("compact", "unmark", [dmDb EXCEPT !.slack = FALSE])
DmUnmark == DmStep("unmark", "open", [dmDb EXCEPT !.keys = @ \ {"compaction"}])
DmNothingPending == "compaction" \notin dmDb.keys /\ DmStep("compact", "open", dmDb)
DmVacuumFails ==
    /\ dmPc \in {"compact", "unmark"} /\ "compaction" \in dmDb.keys
    /\ dmFaults < MaxDmFaults /\ dmFaults' = dmFaults + 1 /\ dmPc' = "open"
    /\ UNCHANGED <<dmDb, dmDropped, dmExisted, dmTotal, dmInserts>>

------------------------------------------------------------------------------
(* A statement fails or the process dies: the open file is closed. *)
DmFails ==
    /\ dmPc \notin {"open", "closed"} /\ dmFaults < MaxDmFaults
    /\ dmPc' = "closed" /\ dmFaults' = dmFaults + 1
    /\ UNCHANGED <<dmDb, dmDropped, dmExisted, dmTotal, dmInserts>>
DmClose ==
    /\ dmPc = "open" /\ dmPc' = "closed"
    /\ UNCHANGED <<dmDb, dmDropped, dmExisted, dmTotal, dmInserts, dmFaults>>

(* insert_query_events in permanent mode; the trigger indexes the row. *)
DmOneMore(rows) == [f \in DOMAIN rows |-> IF f = "name" THEN rows[f] ELSE rows[f] + 1]
DmInsert ==
    /\ dmPc = "open" /\ dmInserts < MaxDmInserts
    /\ dmDb' = [dmDb EXCEPT !.logs = @ + 1, !.indexed = @ + 1,
                            !.hourly = DmOneMore(@), !.summary = DmOneMore(@)]
    /\ dmInserts' = dmInserts + 1 /\ dmTotal' = dmTotal + 1
    /\ UNCHANGED <<dmPc, dmDropped, dmExisted, dmFaults>>

DmNext ==
    \/ DmDrop \/ DmCreateTables \/ DmAddColumns \/ DmCreate \/ DmBackfillDone \/ DmSummary \/ DmHourly \/ DmHourlyMark \/ DmLifetime
    \/ DmClientHours \/ DmClientSummary \/ DmClientMark
    \/ DmCopyHours \/ DmDeleteHours \/ DmCopySummary \/ DmDeleteSummary \/ DmSourceMark
    \/ DmIndex \/ DmMark \/ DmVacuum \/ DmUnmark \/ DmNothingPending \/ DmVacuumFails
    \/ DmFails \/ DmClose \/ DmInsert
    \/ \E table \in 1..Len(DmMinuteTables) : DmBackfillTable(table)
DmSpec == DmInit /\ [][DmNext]_dmVars

------------------------------------------------------------------------------
DmTypeOK ==
    /\ dmDb.keys \subseteq DmMarks /\ dmDb.index \in {"absent", "sized", "plain"}
    /\ dmDb.indexed \in 0..dmDb.logs /\ (dmDb.index = "absent" => dmDb.indexed = 0)
    /\ dmDropped \in BOOLEAN /\ dmExisted \in BOOLEAN /\ dmFaults \in 0..MaxDmFaults

(* Whatever version the file is of and wherever earlier starts were cut off, *)
(* an open database shows the totals of the whole history, each query        *)
(* counted once, by the hour and for ever.                                   *)
DmTotalsKept ==
    dmPc = "open" =>
        /\ dmDb.hourly.total = dmTotal /\ dmDb.hourly.domain = dmTotal
        /\ dmDb.summary.total = dmTotal /\ dmDb.summary.domain = dmTotal

(* No hit of a list is lost on the way from its name to its id, and only a   *)
(* start that was cut off can leave hits counted more than once.             *)
DmHitsKept ==
    dmPc = "open" => \A rows \in {dmDb.hourly, dmDb.summary} :
        /\ rows.name = 0 /\ rows.tag >= dmTotal
        /\ dmFaults = 0 => rows.tag = dmTotal

(* After an upgrade that was not cut off every log row can be found by a     *)
(* search.                                                                   *)
DmUpgradeIndexed == dmPc = "open" /\ dmFaults = 0 => dmDb.indexed = dmDb.logs

(* "内容由 initialize_query_log_search 检测到表不存在时 rebuild 补齐"          *)
(* (drop_legacy_sized_query_log_search): the rebuild completes the index,    *)
(* whatever happened before.                                                 *)
DmSearchComplete == dmPc = "open" => dmDb.indexed = dmDb.logs

(* init_schema brings a file of any version to the present schema through any*)
(* number of starts that were cut off, and the totals, the hits of lists and *)
(* the search keep what the file held.                                       *)
DmHistoryKept == DmTypeOK /\ DmTotalsKept /\ DmHitsKept /\ DmUpgradeIndexed
==============================================================================
