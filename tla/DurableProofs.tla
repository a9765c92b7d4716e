---------------------------- MODULE DurableProofs ----------------------------
(* Machine-checked proofs about what has to outlive a crash: the upgrade of *)
(* the database, for every length of its history and every number of starts *)
(* that were cut off; the directory of the stored data, for every set of    *)
(* directories and every number of faults; and the parts together, from     *)
(* these and the theorems about the two takeovers.                          *)
EXTENDS MCDurable, SystemDnsProofs

(* An upgrade counts the history once.  What a file holds can be told from  *)
(* its marks (DmMarked).  Without the first one nothing has been counted    *)
(* since the start, and the counts are where an earlier version left them   *)
(* or a copy of that (DmEarly); with it the totals are right (DmTotals),    *)
(* and only the hits of lists may still be between their name and their id  *)
(* (DmHits, DmHitsExact).  dmPc says more than the file only within one     *)
(* start.                                                                   *)
DmPcs == {"closed", "tables", "columns", "search", "backfill", "summary", "hourly", "hourlyMark", "lifetime",
          "clientHours", "clientSummary", "clientMark", "copyHours", "deleteHours", "copySummary",
          "deleteSummary", "sourceMark", "index", "mark", "compact", "unmark", "open"}
DmAfterIndex == {"mark", "compact", "unmark", "open"}
DmAfterSource == {"index"} \cup DmAfterIndex
DmMovingHits == {"copyHours", "deleteHours", "copySummary", "deleteSummary", "sourceMark"}
DmAfterLifetime == {"clientHours", "clientSummary", "clientMark"} \cup DmMovingHits \cup DmAfterSource
DmAfterHourly == {"lifetime"} \cup DmAfterLifetime

DmRowSets == [total : Nat, domain : Nat, client : Nat, name : Nat, tag : Nat]
DmFiles == [logs : Nat, minutes : [1..Len(DmMinuteTables) -> Nat], days : Nat, summary : DmRowSets,
            hourly : DmRowSets, keys : SUBSET DmMarks, index : {"absent", "sized", "plain"}, indexed : Nat,
            slack : BOOLEAN]
DmHas(mark) == mark \in dmDb.keys

DmTypes ==
    /\ dmDb \in DmFiles /\ dmDb.indexed <= dmDb.logs /\ (dmDb.index = "absent" => dmDb.indexed = 0)
    /\ dmPc \in DmPcs /\ dmDropped \in BOOLEAN /\ dmExisted \in BOOLEAN
    /\ dmTotal \in Nat /\ dmInserts \in Nat /\ dmFaults \in 0..MaxDmFaults

(* Each mark stands for the ones before it, and a start does not pass it by. *)
DmMarked ==
    /\ DmHas("lifetime") => DmHas("hourly")
    /\ DmHas("source") => DmHas("lifetime")
    /\ dmPc \in DmAfterHourly => DmHas("hourly")
    /\ dmPc \in DmAfterLifetime => DmHas("lifetime")
    /\ dmPc \in DmAfterSource => DmHas("source")

(* The rows of a version that names the lists, for the whole history.        *)
DmNamedRows == DmRows(dmTotal, dmTotal, 0)
DmSummaryMade == dmDb.summary = DmNamedRows /\ dmDb.days = dmTotal /\ dmTotal # 0
DmSummaryToCome ==
    /\ dmDb.summary = DmNoRows
    /\ \A t \in 1..Len(DmMinuteTables) :
          dmDb.minutes[t] = dmTotal \/ (dmDb.minutes[t] = 0 /\ dmDb.logs = dmTotal)
    /\ dmDb.logs = 0 <=> dmTotal = 0
    /\ dmPc = "summary" => \A t \in 1..Len(DmMinuteTables) : dmDb.minutes[t] = dmTotal
    /\ dmPc \in {"hourly", "hourlyMark"} => dmTotal = 0
DmEarly ==
    /\ ~ DmHas("hourly") => /\ dmDb.hourly \in {DmNoRows, DmNamedRows}
                            /\ dmPc = "hourlyMark" => dmDb.hourly = DmNamedRows
                            /\ DmSummaryMade \/ DmSummaryToCome
    /\ DmHas("hourly") /\ ~ DmHas("lifetime") => dmDb.hourly = DmNamedRows

DmTotals ==
    /\ DmHas("hourly") => dmDb.hourly.total = dmTotal /\ dmDb.hourly.domain = dmTotal
    /\ DmHas("lifetime") => dmDb.summary.total = dmTotal /\ dmDb.summary.domain = dmTotal

(* A name goes when its hits are under the id; done again, they count twice. *)
DmHitsHeld(rows) == rows.name \in {0, dmTotal} /\ (rows.name = 0 => rows.tag >= dmTotal)
DmHits ==
    /\ DmHas("hourly") => DmHitsHeld(dmDb.hourly)
    /\ DmHas("lifetime") => DmHitsHeld(dmDb.summary)
    /\ DmHas("source") => dmDb.hourly.name = 0 /\ dmDb.summary.name = 0
    /\ dmPc = "deleteHours" => dmDb.hourly.tag >= dmTotal
    /\ dmPc \in {"copySummary", "deleteSummary", "sourceMark"} => dmDb.hourly.name = 0
    /\ dmPc = "deleteSummary" => dmDb.summary.tag >= dmTotal
    /\ dmPc = "sourceMark" => dmDb.summary.name = 0

DmHitsAre(rows, name, tag) == rows.name = name /\ rows.tag = tag
DmHitsExact ==
    dmFaults = 0 =>
        /\ DmHas("source") => dmDb.hourly.tag = dmTotal /\ dmDb.summary.tag = dmTotal
        /\ ~ DmHas("source") =>
              /\ DmHas("hourly") =>
                    \/ dmPc = "deleteHours" /\ DmHitsAre(dmDb.hourly, dmTotal, dmTotal)
                    \/ /\ dmPc \in {"copySummary", "deleteSummary", "sourceMark"}
                       /\ DmHitsAre(dmDb.hourly, 0, dmTotal)
                    \/ /\ dmPc \notin {"deleteHours", "copySummary", "deleteSummary", "sourceMark"}
                       /\ DmHitsAre(dmDb.hourly, dmTotal, 0)
              /\ DmHas("lifetime") =>
                    \/ dmPc = "deleteSummary" /\ DmHitsAre(dmDb.summary, dmTotal, dmTotal)
                    \/ dmPc = "sourceMark" /\ DmHitsAre(dmDb.summary, 0, dmTotal)
                    \/ /\ dmPc \notin {"deleteSummary", "sourceMark"}
                       /\ DmHitsAre(dmDb.summary, dmTotal, 0)

(* An index that was there at the start is complete if it is marked.         *)
DmBeforeCreate == {"tables", "columns", "search"}
DmSearched ==
    /\ dmPc \notin {"closed"} \cup DmBeforeCreate => dmDb.index = "plain"
    /\ dmPc \in DmBeforeCreate => dmDb.index # "sized"
    /\ dmFaults = 0 =>
          /\ dmPc \in {"closed"} \cup DmAfterIndex /\ dmDb.index = "plain" => dmDb.indexed = dmDb.logs
          /\ dmPc \notin {"closed"} \cup DmAfterIndex /\ dmExisted /\ DmHas("search")
               => dmDb.indexed = dmDb.logs

DmIInv == DmTypes /\ DmMarked /\ DmEarly /\ DmTotals /\ DmHits /\ DmHitsExact /\ DmSearched

LEMMA DmTables == Len(DmMinuteTables) = 5
BY DEF DmMinuteTables

LEMMA DmRowFields ==
  ASSUME NEW n, NEW name, NEW tag
  PROVE  /\ DmRows(n, name, tag).total = n /\ DmRows(n, name, tag).domain = n
         /\ DmRows(n, name, tag).client = 0 /\ DmRows(n, name, tag).name = name
         /\ DmRows(n, name, tag).tag = tag
         /\ n \in Nat /\ name \in Nat /\ tag \in Nat => DmRows(n, name, tag) \in DmRowSets
BY DEF DmRows, DmRowSets

LEMMA DmRowsEqual ==
  ASSUME NEW r \in DmRowSets, NEW s \in DmRowSets, r.total = s.total, r.domain = s.domain,
         r.client = s.client, r.name = s.name, r.tag = s.tag
  PROVE  r = s
BY DEF DmRowSets

LEMMA DmRowsEmpty ==
  /\ DmNoRows \in DmRowSets /\ DmNoRows = DmRows(0, 0, 0)
  /\ dmTotal \in Nat => DmNamedRows \in DmRowSets
  /\ dmTotal = 0 => DmNamedRows = DmNoRows
  /\ dmTotal # 0 => DmNamedRows # DmNoRows
BY DmRowFields DEF DmNoRows, DmNamedRows, DmRows, DmRowSets

(* A file as one of the versions left it.                                   *)
LEMMA DmInitial == DmInit => DmIInv
<1> SUFFICES ASSUME DmInit PROVE DmIInv
  OBVIOUS
<1>1. /\ dmPc = "closed" /\ dmFaults = 0 /\ dmInserts = 0 /\ dmDropped = FALSE /\ dmExisted = FALSE
      /\ DmHistory \in Nat /\ DmHistory # 0 /\ MaxDmFaults \in Nat
  BY DmConstants DEF DmInit
<1>2. ASSUME NEW n \in Nat, NEW l \in Nat, NEW s \in DmRowSets, NEW h \in DmRowSets,
             NEW k \in SUBSET DmMarks, NEW x \in {"absent", "sized", "plain"}, NEW i \in Nat,
             dmDb = DmFile(l, DmMinutes(n), s, h, k, x, i)
      PROVE  /\ dmDb \in DmFiles /\ dmDb.logs = l /\ dmDb.days = s.total /\ dmDb.summary = s
             /\ dmDb.hourly = h /\ dmDb.keys = k /\ dmDb.index = x /\ dmDb.indexed = i
             /\ \A t \in 1..Len(DmMinuteTables) : dmDb.minutes[t] = n
  BY <1>2 DEF DmFile, DmMinutes, DmFiles, DmRowSets
<1>3. dmTotal = IF dmDb.logs = 0 THEN 0 ELSE DmHistory
  BY DEF DmInit
<1> DEFINE named == DmRows(DmHistory, DmHistory, 0)
           tagged == DmRows(DmHistory, 0, DmHistory)
<1>4. /\ named \in DmRowSets /\ tagged \in DmRowSets /\ DmNoRows \in DmRowSets
      /\ named.total = DmHistory /\ named.domain = DmHistory /\ named.name = DmHistory /\ named.tag = 0
      /\ tagged.total = DmHistory /\ tagged.domain = DmHistory /\ tagged.name = 0
      /\ tagged.tag = DmHistory /\ DmNoRows.total = 0
  BY <1>1, DmRowFields DEF DmNoRows
<1>5. /\ dmPc \in DmPcs /\ dmPc \notin DmAfterHourly /\ dmPc \notin DmAfterLifetime
      /\ dmPc \notin DmAfterSource /\ dmPc \notin DmAfterIndex /\ dmPc \notin DmBeforeCreate
  BY <1>1 DEF DmPcs, DmAfterHourly, DmAfterLifetime, DmMovingHits, DmAfterSource, DmAfterIndex,
     DmBeforeCreate
<1>6. dmFaults \in 0..MaxDmFaults /\ dmInserts \in Nat
  BY <1>1
<1>7. dmDropped \in BOOLEAN /\ dmExisted \in BOOLEAN
  BY <1>1
<1>8. DmMarks = {"hourly", "lifetime", "client", "source", "search", "compaction"}
  BY DEF DmMarks
<1> HIDE DEF named, tagged
<1>9. ASSUME NEW l \in {0, DmHistory}, dmDb = DmFile(l, DmMinutes(0), DmNoRows, DmNoRows, {}, "absent", 0)
      PROVE  DmIInv
  <2>0. l \in Nat /\ {} \in SUBSET DmMarks
    BY <1>1
  <2>1. /\ dmDb \in DmFiles /\ dmDb.logs = l /\ dmDb.days = DmNoRows.total /\ dmDb.summary = DmNoRows
        /\ dmDb.hourly = DmNoRows /\ dmDb.keys = {} /\ dmDb.index = "absent" /\ dmDb.indexed = 0
        /\ \A t \in 1..Len(DmMinuteTables) : dmDb.minutes[t] = 0
    BY <1>9, <1>2, <1>4, <2>0
  <2>2. dmTotal = l /\ dmTotal \in Nat
    BY <1>1, <1>3, <2>1, <1>9
  <2>3. DmTypes
    BY <1>5, <1>6, <1>7, <2>1, <2>2 DEF DmTypes
  <2>4. DmMarked /\ DmSearched
    BY <1>1, <1>5, <2>1 DEF DmMarked, DmSearched, DmHas
  <2>5. DmTotals /\ DmHits
    BY <1>1, <1>4, <2>1, <2>2 DEF DmTotals, DmHits, DmHitsHeld, DmHas
  <2>6. DmEarly
    BY <1>1, <1>4, <2>1, <2>2 DEF DmEarly, DmHas, DmSummaryMade, DmSummaryToCome, DmNamedRows, named
  <2>7. DmHitsExact
    BY <1>1, <1>4, <2>1, <2>2 DEF DmHitsExact, DmHas, DmHitsAre
  <2> QED
    BY <2>3, <2>4, <2>5, <2>6, <2>7 DEF DmIInv
<1>10. CASE dmDb = DmFile(1, DmMinutes(DmHistory), DmNoRows, DmNoRows, {}, "absent", 0)
  <2>1. /\ dmDb \in DmFiles /\ dmDb.logs = 1 /\ dmDb.days = DmNoRows.total /\ dmDb.summary = DmNoRows
        /\ dmDb.hourly = DmNoRows /\ dmDb.keys = {} /\ dmDb.index = "absent" /\ dmDb.indexed = 0
        /\ \A t \in 1..Len(DmMinuteTables) : dmDb.minutes[t] = DmHistory
    BY <1>10, <1>1, <1>2, <1>4, <1>8
  <2>2. dmTotal = DmHistory /\ dmTotal \in Nat
    BY <1>1, <1>3, <2>1
  <2>3. DmTypes
    BY <1>5, <1>6, <1>7, <2>1, <2>2 DEF DmTypes
  <2>4. DmMarked /\ DmSearched
    BY <1>1, <1>5, <2>1 DEF DmMarked, DmSearched, DmHas
  <2>5. DmTotals /\ DmHits
    BY <1>1, <1>4, <2>1, <2>2 DEF DmTotals, DmHits, DmHitsHeld, DmHas
  <2>6. DmEarly
    BY <1>1, <1>4, <2>1, <2>2 DEF DmEarly, DmHas, DmSummaryMade, DmSummaryToCome, DmNamedRows, named
  <2>7. DmHitsExact
    BY <1>1, <1>4, <2>1, <2>2 DEF DmHitsExact, DmHas, DmHitsAre
  <2> QED
    BY <2>3, <2>4, <2>5, <2>6, <2>7 DEF DmIInv
<1>11. CASE dmDb = DmFile(1, DmMinutes(1), named, DmNoRows, {}, "sized", 1)
  <2>0. {} \in SUBSET DmMarks
    OBVIOUS
  <2>1. /\ dmDb \in DmFiles /\ dmDb.logs = 1 /\ dmDb.days = named.total /\ dmDb.summary = named
        /\ dmDb.hourly = DmNoRows /\ dmDb.keys = {} /\ dmDb.index = "sized" /\ dmDb.indexed = 1
        /\ \A t \in 1..Len(DmMinuteTables) : dmDb.minutes[t] = 1
    <3>1. named \in DmRowSets /\ DmNoRows \in DmRowSets /\ 1 \in Nat
      BY <1>4
    <3>2. "sized" \in {"absent", "sized", "plain"}
      OBVIOUS
    <3> QED
      BY ONLY <1>2, <1>11, <2>0, <3>1, <3>2
  <2>2. dmTotal = DmHistory /\ dmTotal \in Nat
    BY <1>1, <1>3, <2>1
  <2>3. DmTypes
    BY <1>5, <1>6, <1>7, <2>1, <2>2 DEF DmTypes
  <2>4. DmMarked /\ DmSearched
    BY <1>1, <1>5, <2>1 DEF DmMarked, DmSearched, DmHas
  <2>5. DmTotals /\ DmHits
    BY <1>1, <1>4, <2>1, <2>2 DEF DmTotals, DmHits, DmHitsHeld, DmHas
  <2>6. DmEarly
    BY <1>1, <1>4, <2>1, <2>2 DEF DmEarly, DmHas, DmSummaryMade, DmSummaryToCome, DmNamedRows, named
  <2>7. DmHitsExact
    BY <1>1, <1>4, <2>1, <2>2 DEF DmHitsExact, DmHas, DmHitsAre
  <2> QED
    BY <2>3, <2>4, <2>5, <2>6, <2>7 DEF DmIInv
<1>12. CASE dmDb = DmFile(1, DmMinutes(0), named, named, {"hourly", "lifetime", "search"}, "sized", 1)
  <2>0. PICK k \in SUBSET DmMarks : k = {"hourly", "lifetime", "search"}
    BY <1>8
  <2>1. dmDb = DmFile(1, DmMinutes(0), named, named, k, "sized", 1)
    BY <1>12, <2>0
  <2>2. /\ dmDb \in DmFiles /\ dmDb.logs = 1 /\ dmDb.days = named.total /\ dmDb.summary = named
        /\ dmDb.hourly = named /\ dmDb.keys = k /\ dmDb.index = "sized" /\ dmDb.indexed = 1
        /\ \A t \in 1..Len(DmMinuteTables) : dmDb.minutes[t] = 0
    BY <1>2, <1>4, <2>1
  <2>3. dmDb.keys = {"hourly", "lifetime", "search"}
    BY <2>0, <2>2
  <2>4. dmTotal = DmHistory /\ dmTotal \in Nat
    BY <1>1, <1>3, <2>2, <2>3
  <2>5. DmTypes
    BY <1>5, <1>6, <1>7, <2>2, <2>3, <2>4 DEF DmTypes
  <2>6. DmMarked /\ DmSearched
    BY <1>1, <1>5, <2>2, <2>3 DEF DmMarked, DmSearched, DmHas
  <2>7. DmTotals /\ DmHits
    BY <1>1, <1>4, <2>2, <2>3, <2>4 DEF DmTotals, DmHits, DmHitsHeld, DmHas
  <2>8. DmEarly
    BY <1>1, <1>4, <2>2, <2>3, <2>4 DEF DmEarly, DmHas, DmSummaryMade, DmSummaryToCome, DmNamedRows, named
  <2>9. DmHitsExact
    BY <1>1, <1>4, <2>2, <2>3, <2>4 DEF DmHitsExact, DmHas, DmHitsAre
  <2> QED
    BY <2>5, <2>6, <2>7, <2>8, <2>9 DEF DmIInv
<1>13. CASE dmDb = DmFile(1, DmMinutes(0), tagged, tagged, DmMarks \ {"compaction"}, "plain", 1)
  <2>0. PICK k \in SUBSET DmMarks : /\ k = {"hourly", "lifetime", "client", "source", "search"}
                                   /\ k = DmMarks \ {"compaction"}
    BY <1>8
  <2>1. dmDb = DmFile(1, DmMinutes(0), tagged, tagged, k, "plain", 1)
    BY <1>13, <2>0
  <2>2. /\ dmDb \in DmFiles /\ dmDb.logs = 1 /\ dmDb.days = tagged.total /\ dmDb.summary = tagged
        /\ dmDb.hourly = tagged /\ dmDb.keys = k /\ dmDb.index = "plain" /\ dmDb.indexed = 1
        /\ \A t \in 1..Len(DmMinuteTables) : dmDb.minutes[t] = 0
    BY <1>2, <1>4, <2>1
  <2>3. dmDb.keys = {"hourly", "lifetime", "client", "source", "search"}
    BY <2>0, <2>2
  <2>4. dmTotal = DmHistory /\ dmTotal \in Nat
    BY <1>1, <1>3, <2>2, <2>3
  <2>5. DmTypes
    BY <1>5, <1>6, <1>7, <2>2, <2>3, <2>4 DEF DmTypes
  <2>6. DmMarked /\ DmSearched
    BY <1>1, <1>5, <2>2, <2>3 DEF DmMarked, DmSearched, DmHas
  <2>7. DmTotals /\ DmHits
    BY <1>1, <1>4, <2>2, <2>3, <2>4 DEF DmTotals, DmHits, DmHitsHeld, DmHas
  <2>8. DmEarly
    BY <1>1, <1>4, <2>2, <2>3, <2>4 DEF DmEarly, DmHas, DmSummaryMade, DmSummaryToCome, DmNamedRows, named
  <2>9. DmHitsExact
    BY <1>1, <1>4, <2>2, <2>3, <2>4 DEF DmHitsExact, DmHas, DmHitsAre
  <2> QED
    BY <2>5, <2>6, <2>7, <2>8, <2>9 DEF DmIInv
<1> QED
  BY <1>9, <1>10, <1>11, <1>12, <1>13 DEF DmInit, DmVersions, named, tagged

(* A step that counts nothing, early in a start or late.                    *)
LEMMA DmCountsKept ==
  ASSUME DmIInv, NEW n, dmPc' = n,
         dmDb'.hourly = dmDb.hourly, dmDb'.summary = dmDb.summary, dmDb'.days = dmDb.days,
         dmDb'.minutes = dmDb.minutes, dmDb'.logs = dmDb.logs, dmTotal' = dmTotal,
         \A mark \in {"hourly", "lifetime", "source"} : mark \in dmDb'.keys <=> mark \in dmDb.keys,
         n \in {"closed", "tables", "columns", "search", "backfill"} \/ (dmPc \in DmAfterSource /\ n \in DmAfterSource),
         dmFaults' # 0 \/ (dmFaults' = dmFaults /\ dmPc \notin DmMovingHits)
  PROVE  DmMarked' /\ DmEarly' /\ DmTotals' /\ DmHits' /\ DmHitsExact'
<1>1. /\ DmHas("hourly")' <=> DmHas("hourly")
      /\ DmHas("lifetime")' <=> DmHas("lifetime")
      /\ DmHas("source")' <=> DmHas("source")
      /\ DmNamedRows' = DmNamedRows
  BY DEF DmHas, DmNamedRows
<1>2. /\ n \notin DmMovingHits /\ n \notin {"summary", "hourly", "hourlyMark"}
      /\ n \in DmAfterHourly => dmPc \in DmAfterSource /\ n \in DmAfterSource
      /\ n \in DmAfterLifetime => dmPc \in DmAfterSource /\ n \in DmAfterSource
      /\ n \in DmAfterSource => dmPc \in DmAfterSource
  BY DEF DmMovingHits, DmAfterHourly, DmAfterLifetime, DmAfterSource, DmAfterIndex
<1>3. dmPc \in DmAfterSource => DmHas("source") /\ DmHas("lifetime") /\ DmHas("hourly")
  BY DEF DmIInv, DmMarked
<1>4. DmMarked'
  BY <1>1, <1>2, <1>3 DEF DmIInv, DmMarked
<1>5. DmEarly'
  BY <1>1, <1>2, <1>3 DEF DmIInv, DmEarly, DmSummaryMade, DmSummaryToCome
<1>6. DmTotals'
  BY <1>1 DEF DmIInv, DmTotals
<1>7. DmHits'
  BY <1>1, <1>2 DEF DmIInv, DmHits, DmHitsHeld, DmMovingHits
<1>8. DmHitsExact'
  BY <1>1, <1>2 DEF DmIInv, DmHitsExact, DmHitsAre, DmMovingHits
<1> QED
  BY <1>4, <1>5, <1>6, <1>7, <1>8

(* A step on the way from the backfill to the index.                        *)
DmCounting == {"backfill", "summary", "hourly", "hourlyMark", "lifetime", "clientHours", "clientSummary",
               "clientMark", "index"} \cup DmMovingHits
LEMMA DmSearchKept ==
  ASSUME DmIInv, NEW n, dmPc' = n, dmDb'.index = dmDb.index, dmDb'.indexed = dmDb.indexed,
         dmDb'.logs = dmDb.logs, "search" \in dmDb'.keys <=> "search" \in dmDb.keys,
         dmExisted' = dmExisted, dmFaults' = dmFaults, dmPc \in DmCounting, n \in DmCounting
  PROVE  DmSearched'
<1>1. /\ dmPc \notin {"closed"} \cup DmAfterIndex /\ n \notin {"closed"} \cup DmAfterIndex
      /\ dmPc \notin DmBeforeCreate /\ n \notin DmBeforeCreate
  BY DEF DmCounting, DmAfterIndex, DmMovingHits, DmBeforeCreate
<1> QED
  BY <1>1 DEF DmIInv, DmSearched, DmHas

LEMMA DmDropKeeps == DmIInv /\ DmDrop => DmIInv'
<1> SUFFICES ASSUME DmIInv, DmDrop PROVE DmIInv'
  OBVIOUS
<1>1. /\ dmPc = "closed" /\ dmPc' = "tables" /\ UNCHANGED <<dmTotal, dmInserts, dmFaults>>
      /\ dmExisted' = (dmDb.index = "plain") /\ dmDropped' = (dmDb.index = "sized")
  BY DEF DmDrop
<1>2. /\ dmDb'.hourly = dmDb.hourly /\ dmDb'.summary = dmDb.summary /\ dmDb'.days = dmDb.days
      /\ dmDb'.minutes = dmDb.minutes /\ dmDb'.logs = dmDb.logs /\ dmDb'.keys = dmDb.keys
      /\ dmDb' \in DmFiles /\ dmDb'.indexed <= dmDb'.logs
      /\ dmDb.index # "sized" => dmDb' = dmDb
      /\ dmDb.index = "sized" => dmDb'.index = "absent" /\ dmDb'.indexed = 0
  <2>1. dmDb \in DmFiles /\ dmDb.indexed <= dmDb.logs
    BY DEF DmIInv, DmTypes
  <2>2. CASE dmDb.index # "sized"
    BY <2>1, <2>2 DEF DmDrop
  <2>3. CASE dmDb.index = "sized"
    <3>1. dmDb' = [dmDb EXCEPT !.index = "absent", !.indexed = 0, !.slack = TRUE]
      BY <2>3 DEF DmDrop, DmWithoutIndex
    <3>2. dmDb' \in DmFiles
      BY <2>1, <3>1 DEF DmFiles
    <3> QED
      BY <2>1, <2>3, <3>1, <3>2 DEF DmFiles
  <2> QED
    BY <2>2, <2>3
<1>3. DmTypes'
  <2>1. dmExisted' \in BOOLEAN /\ dmDropped' \in BOOLEAN
    BY <1>1
  <2> QED
    BY <1>1, <1>2, <2>1 DEF DmIInv, DmTypes, DmPcs
<1>4. DmSearched'
  <2>1. "tables" \notin {"closed"} \cup DmAfterIndex /\ "tables" \in DmBeforeCreate
    BY DEF DmAfterIndex, DmBeforeCreate
  <2>2. dmDb'.index # "sized"
    BY <1>2
  <2>3. dmFaults = 0 /\ dmDb.index = "plain" => dmDb.indexed = dmDb.logs
    BY <1>1 DEF DmIInv, DmSearched
  <2>4. dmFaults' = 0 /\ dmExisted' => dmDb'.indexed = dmDb'.logs
    BY <1>1, <1>2, <2>3
  <2> QED
    BY <1>1, <2>1, <2>2, <2>4 DEF DmSearched
<1>5. dmPc \notin DmMovingHits
  BY <1>1 DEF DmMovingHits
<1> QED
  BY <1>1, <1>2, <1>3, <1>4, <1>5, DmCountsKept DEF DmIInv

LEMMA DmCreateKeeps == DmIInv /\ (DmCreateTables \/ DmAddColumns \/ DmCreate) => DmIInv'
<1> SUFFICES ASSUME DmIInv, DmCreateTables \/ DmAddColumns \/ DmCreate PROVE DmIInv'
  OBVIOUS
<1>1. /\ UNCHANGED <<dmDropped, dmExisted, dmTotal, dmInserts, dmFaults>>
      /\ \/ dmPc = "tables" /\ dmPc' = "columns" /\ dmDb' = dmDb
         \/ dmPc = "columns" /\ dmPc' = "search" /\ dmDb' = dmDb
         \/ /\ dmPc = "search" /\ dmPc' = "backfill"
            /\ dmDb' = IF dmDb.index = "absent" THEN [dmDb EXCEPT !.index = "plain"] ELSE dmDb
  BY DEF DmCreateTables, DmAddColumns, DmCreate, DmStep
<1>2. dmDb.index # "sized"
  BY <1>1 DEF DmIInv, DmSearched, DmBeforeCreate
<1>3. /\ dmDb'.hourly = dmDb.hourly /\ dmDb'.summary = dmDb.summary /\ dmDb'.days = dmDb.days
      /\ dmDb'.minutes = dmDb.minutes /\ dmDb'.logs = dmDb.logs /\ dmDb'.keys = dmDb.keys
      /\ dmDb' \in DmFiles /\ dmDb'.indexed = dmDb.indexed
      /\ dmDb'.index # "sized"
      /\ dmDb'.index = "absent" => dmDb.index = "absent"
      /\ dmPc' = "backfill" => dmDb'.index = "plain"
  BY <1>1, <1>2 DEF DmIInv, DmTypes, DmFiles
<1>4. DmTypes'
  BY <1>1, <1>3 DEF DmIInv, DmTypes, DmPcs
<1>5. DmSearched'
  <2>1. /\ dmPc \notin {"closed"} \cup DmAfterIndex /\ dmPc' \notin {"closed"} \cup DmAfterIndex
        /\ dmPc' \notin DmBeforeCreate => dmPc' = "backfill"
    BY <1>1 DEF DmAfterIndex, DmBeforeCreate
  <2> QED
    BY <1>1, <1>3, <2>1 DEF DmIInv, DmSearched, DmHas
<1>6. dmPc \notin DmMovingHits /\ dmPc' \in {"columns", "search", "backfill"}
  BY <1>1 DEF DmMovingHits
<1> QED
  BY <1>1, <1>3, <1>4, <1>5, <1>6, DmCountsKept DEF DmIInv

(* The end of a start.                                                      *)
LEMMA DmCloseKeeps == DmIInv /\ (DmFails \/ DmClose) => DmIInv'
<1> SUFFICES ASSUME DmIInv, DmFails \/ DmClose PROVE DmIInv'
  OBVIOUS
<1>1. /\ UNCHANGED <<dmDb, dmDropped, dmExisted, dmTotal, dmInserts>> /\ dmPc' = "closed"
      /\ \/ dmPc = "open" /\ dmFaults' = dmFaults
         \/ dmFaults < MaxDmFaults /\ dmFaults' = dmFaults + 1
  BY DEF DmFails, DmClose
<1>2. dmFaults' \in 0..MaxDmFaults /\ (dmFaults' # 0 \/ (dmPc = "open" /\ dmFaults' = dmFaults))
  <2>1. dmFaults \in 0..MaxDmFaults /\ MaxDmFaults \in Nat
    BY DmConstants DEF DmIInv, DmTypes
  <2> QED
    BY <1>1, <2>1
<1>3. DmTypes'
  BY <1>1, <1>2 DEF DmIInv, DmTypes, DmPcs
<1>4. DmSearched'
  <2>1. "open" \in DmAfterIndex /\ "closed" \notin DmBeforeCreate
    BY DEF DmAfterIndex, DmBeforeCreate
  <2> QED
    BY <1>1, <1>2, <2>1 DEF DmIInv, DmSearched, DmHas
<1>5. "open" \notin DmMovingHits
  BY DEF DmMovingHits
<1> QED
  BY <1>1, <1>2, <1>3, <1>4, <1>5, DmCountsKept DEF DmIInv

LEMMA DmIndexKeeps == DmIInv /\ DmIndex => DmIInv'
<1> SUFFICES ASSUME DmIInv, DmIndex PROVE DmIInv'
  OBVIOUS
<1>1. /\ UNCHANGED <<dmDropped, dmExisted, dmTotal, dmInserts, dmFaults>>
      /\ dmPc = "index" /\ dmPc' = "mark" /\ dmDb' = DmIndexBuilt
  BY DEF DmIndex, DmStep
<1>2. /\ dmDb'.hourly = dmDb.hourly /\ dmDb'.summary = dmDb.summary /\ dmDb'.days = dmDb.days
      /\ dmDb'.minutes = dmDb.minutes /\ dmDb'.logs = dmDb.logs /\ dmDb'.index = dmDb.index
      /\ dmDb'.keys \in SUBSET DmMarks
      /\ \A mark \in {"hourly", "lifetime", "source"} : mark \in dmDb'.keys <=> mark \in dmDb.keys
      /\ dmDb'.indexed = dmDb.logs \/ (DmHas("search") /\ dmExisted /\ dmDb' = dmDb)
      /\ dmDb' \in DmFiles
  BY <1>1 DEF DmIInv, DmTypes, DmFiles, DmIndexBuilt, DmHas, DmMarks
<1>3. dmDb.index = "plain"
  BY <1>1 DEF DmIInv, DmSearched, DmBeforeCreate
<1>4. DmTypes'
  <2>1. dmDb'.indexed <= dmDb'.logs /\ dmDb'.index = "plain"
    BY <1>2, <1>3 DEF DmIInv, DmTypes, DmFiles
  <2> QED
    BY <1>1, <1>2, <2>1 DEF DmIInv, DmTypes, DmPcs
<1>5. DmSearched'
  <2>1. dmPc \notin {"closed"} \cup DmAfterIndex /\ "mark" \in DmAfterIndex /\ "mark" \notin DmBeforeCreate
    BY <1>1 DEF DmAfterIndex, DmBeforeCreate
  <2>2. dmFaults = 0 => dmDb'.indexed = dmDb'.logs
    BY <1>2, <2>1 DEF DmIInv, DmSearched
  <2> QED
    BY <1>1, <1>2, <1>3, <2>1, <2>2 DEF DmSearched
<1>6. dmPc \in DmAfterSource /\ dmPc' \in DmAfterSource /\ dmPc \notin DmMovingHits
  BY <1>1 DEF DmAfterSource, DmAfterIndex, DmMovingHits
<1> QED
  BY <1>1, <1>2, <1>4, <1>5, <1>6, DmCountsKept DEF DmIInv

LEMMA DmCompactKeeps == DmIInv /\ (DmMark \/ DmVacuum \/ DmUnmark \/ DmNothingPending \/ DmVacuumFails) => DmIInv'
<1> SUFFICES ASSUME DmIInv, DmMark \/ DmVacuum \/ DmUnmark \/ DmNothingPending \/ DmVacuumFails PROVE DmIInv'
  OBVIOUS
<1>1. /\ UNCHANGED <<dmDropped, dmExisted, dmTotal, dmInserts>>
      /\ dmPc \in {"mark", "compact", "unmark"} /\ dmPc' \in {"compact", "unmark", "open"}
      /\ \/ dmFaults' = dmFaults
         \/ dmFaults < MaxDmFaults /\ dmFaults' = dmFaults + 1
      /\ \/ dmDb' = dmDb
         \/ dmDb' = [dmDb EXCEPT !.keys = @ \cup {"compaction"}]
         \/ dmDb' = [dmDb EXCEPT !.slack = FALSE]
         \/ dmDb' = [dmDb EXCEPT !.keys = @ \ {"compaction"}]
  BY DEF DmMark, DmVacuum, DmUnmark, DmNothingPending, DmVacuumFails, DmStep
<1>2. /\ dmDb'.hourly = dmDb.hourly /\ dmDb'.summary = dmDb.summary /\ dmDb'.days = dmDb.days
      /\ dmDb'.minutes = dmDb.minutes /\ dmDb'.logs = dmDb.logs /\ dmDb'.index = dmDb.index
      /\ dmDb'.indexed = dmDb.indexed /\ dmDb' \in DmFiles
      /\ \A mark \in {"hourly", "lifetime", "source"} : mark \in dmDb'.keys <=> mark \in dmDb.keys
  <2>1. dmDb \in DmFiles
    BY DEF DmIInv, DmTypes
  <2>2. CASE dmDb' = dmDb
    BY <2>1, <2>2
  <2>3. CASE dmDb' = [dmDb EXCEPT !.slack = FALSE]
    <3>1. dmDb' \in DmFiles
      BY <2>1, <2>3 DEF DmFiles
    <3> QED
      BY <2>1, <2>3, <3>1 DEF DmFiles
  <2>4. ASSUME NEW k \in SUBSET DmMarks, dmDb' = [dmDb EXCEPT !.keys = k],
               k = dmDb.keys \cup {"compaction"} \/ k = dmDb.keys \ {"compaction"}
        PROVE  /\ dmDb'.hourly = dmDb.hourly /\ dmDb'.summary = dmDb.summary /\ dmDb'.days = dmDb.days
               /\ dmDb'.minutes = dmDb.minutes /\ dmDb'.logs = dmDb.logs /\ dmDb'.index = dmDb.index
               /\ dmDb'.indexed = dmDb.indexed /\ dmDb' \in DmFiles
               /\ \A mark \in {"hourly", "lifetime", "source"} : mark \in dmDb'.keys <=> mark \in dmDb.keys
    <3>1. dmDb' \in DmFiles /\ dmDb'.keys = k
      BY <2>1, <2>4 DEF DmFiles
    <3> QED
      BY <2>1, <2>4, <3>1 DEF DmFiles
  <2>5. dmDb.keys \cup {"compaction"} \in SUBSET DmMarks /\ dmDb.keys \ {"compaction"} \in SUBSET DmMarks
    BY <2>1 DEF DmFiles, DmMarks
  <2> QED
    BY <1>1, <2>2, <2>3, <2>4, <2>5
<1>3. dmFaults' \in 0..MaxDmFaults /\ (dmFaults' # 0 \/ dmFaults' = dmFaults)
  BY <1>1, DmConstants DEF DmIInv, DmTypes
<1>4. DmTypes'
  BY <1>1, <1>2, <1>3 DEF DmIInv, DmTypes, DmPcs
<1>5. /\ dmPc \in DmAfterSource /\ dmPc' \in DmAfterSource /\ dmPc \notin DmMovingHits
      /\ dmPc \in DmAfterIndex /\ dmPc' \in DmAfterIndex /\ dmPc \notin {"closed"} \cup DmBeforeCreate
      /\ dmPc' \notin {"closed"} \cup DmBeforeCreate
  BY <1>1 DEF DmAfterSource, DmAfterIndex, DmMovingHits, DmBeforeCreate
<1>6. DmSearched'
  BY <1>1, <1>2, <1>3, <1>5 DEF DmIInv, DmSearched
<1> QED
  BY <1>1, <1>2, <1>3, <1>4, <1>5, <1>6, DmCountsKept DEF DmIInv

(* Before the first mark nothing is counted yet, and with it nothing more.   *)
DmUncounted == {"backfill", "summary", "hourly", "hourlyMark"}
LEMMA DmUncountedKept ==
  ASSUME DmIInv, NEW n, dmPc' = n, n \in DmUncounted, dmPc \in DmUncounted,
         dmDb'.keys = dmDb.keys, UNCHANGED <<dmTotal, dmFaults>>,
         DmHas("hourly") => dmDb' = dmDb
  PROVE  /\ DmMarked' /\ DmTotals' /\ DmHits' /\ DmHitsExact'
         /\ DmHas("hourly") => DmEarly'
<1>1. /\ n \notin DmMovingHits /\ n \notin DmAfterHourly /\ n \notin DmAfterLifetime /\ n \notin DmAfterSource
      /\ dmPc \notin DmMovingHits
  BY DEF DmUncounted, DmMovingHits, DmAfterHourly, DmAfterLifetime, DmAfterSource, DmAfterIndex
<1>2. /\ DmHas("hourly")' <=> DmHas("hourly")
      /\ DmHas("lifetime")' <=> DmHas("lifetime")
      /\ DmHas("source")' <=> DmHas("source")
      /\ DmHas("lifetime") => DmHas("hourly")
      /\ DmHas("source") => DmHas("lifetime")
      /\ DmNamedRows' = DmNamedRows
  BY DEF DmHas, DmIInv, DmMarked, DmNamedRows
<1>3. DmMarked'
  BY <1>1, <1>2 DEF DmMarked
<1>4. DmTotals'
  BY <1>2 DEF DmIInv, DmTotals
<1>5. DmHits'
  BY <1>1, <1>2 DEF DmIInv, DmHits, DmHitsHeld, DmMovingHits
<1>6. DmHitsExact'
  BY <1>1, <1>2 DEF DmIInv, DmHitsExact, DmHitsAre, DmMovingHits
<1>7. DmHas("hourly") => DmEarly'
  BY <1>2 DEF DmIInv, DmEarly
<1> QED
  BY <1>3, <1>4, <1>5, <1>6, <1>7

LEMMA DmBackfillKeeps ==
  DmIInv /\ (DmBackfillDone \/ \E table \in 1..Len(DmMinuteTables) : DmBackfillTable(table)) => DmIInv'
<1> SUFFICES ASSUME DmIInv, DmBackfillDone \/ \E table \in 1..Len(DmMinuteTables) : DmBackfillTable(table)
             PROVE  DmIInv'
  OBVIOUS
<1>1. /\ UNCHANGED <<dmDropped, dmExisted, dmTotal, dmInserts, dmFaults>>
      /\ dmPc = "backfill" /\ dmPc' \in {"backfill", "summary"}
  BY DEF DmBackfillDone, DmBackfillTable, DmStep
<1>2. \/ dmDb' = dmDb
      \/ \E t \in 1..Len(DmMinuteTables) : /\ ~ DmHas("hourly") /\ dmDb.summary = DmNoRows /\ dmDb.logs > 0
                                           /\ dmDb' = [dmDb EXCEPT !.minutes[t] = IF @ = 0 THEN dmDb.logs ELSE @]
                                           /\ dmPc' = "backfill"
  BY DEF DmBackfillDone, DmBackfillTable, DmStep, DmBackfilled, DmNeedsBackfill, DmHas
<1>3. dmDb \in DmFiles /\ dmTotal \in Nat
  BY DEF DmIInv, DmTypes
<1>4. /\ dmDb'.hourly = dmDb.hourly /\ dmDb'.summary = dmDb.summary /\ dmDb'.days = dmDb.days
      /\ dmDb'.logs = dmDb.logs /\ dmDb'.keys = dmDb.keys /\ dmDb'.index = dmDb.index
      /\ dmDb'.indexed = dmDb.indexed /\ dmDb' \in DmFiles
      /\ \A u \in 1..Len(DmMinuteTables) : \/ dmDb'.minutes[u] = dmDb.minutes[u]
                                           \/ dmDb.minutes[u] = 0 /\ dmDb'.minutes[u] = dmDb.logs
  <2>1. ASSUME NEW t \in 1..Len(DmMinuteTables),
               dmDb' = [dmDb EXCEPT !.minutes[t] = IF @ = 0 THEN dmDb.logs ELSE @]
        PROVE  /\ dmDb'.hourly = dmDb.hourly /\ dmDb'.summary = dmDb.summary /\ dmDb'.days = dmDb.days
               /\ dmDb'.logs = dmDb.logs /\ dmDb'.keys = dmDb.keys /\ dmDb'.index = dmDb.index
               /\ dmDb'.indexed = dmDb.indexed /\ dmDb' \in DmFiles
               /\ \A u \in 1..Len(DmMinuteTables) : \/ dmDb'.minutes[u] = dmDb.minutes[u]
                                                    \/ dmDb.minutes[u] = 0 /\ dmDb'.minutes[u] = dmDb.logs
    BY <1>3, <2>1 DEF DmFiles
  <2>2. dmDb' = dmDb => \A u \in 1..Len(DmMinuteTables) : dmDb'.minutes[u] = dmDb.minutes[u]
    OBVIOUS
  <2> QED
    BY <1>2, <1>3, <2>1, <2>2
<1>5. DmTypes'
  BY <1>1, <1>4 DEF DmIInv, DmTypes, DmPcs
<1>6. ASSUME ~ DmHas("hourly") PROVE DmEarly'
  <2>1. ~ DmHas("hourly")' /\ DmNamedRows' = DmNamedRows
    BY <1>1, <1>4, <1>6 DEF DmHas, DmNamedRows
  <2>2. CASE DmSummaryMade
    BY <1>1, <1>4, <1>6, <2>1, <2>2 DEF DmIInv, DmEarly, DmSummaryMade
  <2>3. CASE DmSummaryToCome /\ ~ DmSummaryMade
    <3>1. \A u \in 1..Len(DmMinuteTables) :
             dmDb'.minutes[u] = dmTotal' \/ (dmDb'.minutes[u] = 0 /\ dmDb'.logs = dmTotal')
      BY <1>1, <1>4, <2>3 DEF DmSummaryToCome
    <3>2. dmPc' = "summary" => \A u \in 1..Len(DmMinuteTables) : dmDb'.minutes[u] = dmTotal'
      <4>1. ASSUME dmPc' = "summary" PROVE DmBackfillDone
        BY <4>1 DEF DmBackfillTable, DmStep
      <4>2. ASSUME dmPc' = "summary"
            PROVE  dmDb' = dmDb /\ (dmDb.logs = 0 \/ \A u \in 1..Len(DmMinuteTables) : dmDb.minutes[u] > 0)
        <5>1. DmNeedsBackfill /\ DOMAIN dmDb.minutes = 1..Len(DmMinuteTables)
          BY <1>3, <1>6, <2>3 DEF DmNeedsBackfill, DmSummaryToCome, DmHas, DmFiles
        <5> QED
          BY <4>1, <4>2, <5>1 DEF DmBackfillDone, DmStep
      <4>3. ASSUME dmPc' = "summary", NEW u \in 1..Len(DmMinuteTables) PROVE dmDb.minutes[u] = dmTotal
        BY <1>3, <2>3, <4>2, <4>3 DEF DmSummaryToCome
      <4> QED
        BY <1>1, <4>2, <4>3
    <3>3. dmDb'.summary = DmNoRows /\ (dmDb'.logs = 0 <=> dmTotal' = 0)
      BY <1>1, <1>4, <2>3 DEF DmSummaryToCome
    <3>4. dmPc' \notin {"hourly", "hourlyMark"}
      BY <1>1
    <3>5. DmSummaryToCome'
      BY <3>1, <3>2, <3>3, <3>4 DEF DmSummaryToCome
    <3> QED
      BY <1>1, <1>4, <1>6, <2>1, <3>5 DEF DmIInv, DmEarly
  <2> QED
    BY <1>6, <2>2, <2>3 DEF DmIInv, DmEarly
<1>7. DmHas("hourly") => dmDb' = dmDb
  BY <1>2
<1>8. dmPc \in DmUncounted /\ dmPc' \in DmUncounted /\ dmPc \in DmCounting /\ dmPc' \in DmCounting
  BY <1>1 DEF DmUncounted, DmCounting
<1> QED
  BY <1>1, <1>4, <1>5, <1>6, <1>7, <1>8, DmUncountedKept, DmSearchKept DEF DmIInv

LEMMA DmSummaryKeeps == DmIInv /\ DmSummary => DmIInv'
<1> SUFFICES ASSUME DmIInv, DmSummary PROVE DmIInv'
  OBVIOUS
<1>1. /\ UNCHANGED <<dmDropped, dmExisted, dmTotal, dmInserts, dmFaults>>
      /\ dmPc = "summary" /\ dmPc' = "hourly"
  BY DEF DmSummary, DmStep
<1>2. dmDb \in DmFiles /\ dmTotal \in Nat /\ 1 \in 1..Len(DmMinuteTables) /\ 2 \in 1..Len(DmMinuteTables)
      /\ 5 \in 1..Len(DmMinuteTables)
  BY DmTables DEF DmIInv, DmTypes
<1>3. dmPc \in DmUncounted /\ dmPc' \in DmUncounted /\ dmPc \in DmCounting /\ dmPc' \in DmCounting
  BY <1>1 DEF DmUncounted, DmCounting
<1>4. CASE DmNeedsBackfill /\ dmDb.minutes[1] > 0
  <2>1. dmDb' = [dmDb EXCEPT !.days = dmDb.minutes[1],
                             !.summary = [DmNoRows EXCEPT !.total = dmDb.minutes[1], !.domain = dmDb.minutes[2],
                                                          !.name = dmDb.minutes[5]]]
    BY <1>4 DEF DmSummary, DmStep
  <2>2. dmDb.minutes[1] = dmTotal /\ dmDb.minutes[2] = dmTotal /\ dmDb.minutes[5] = dmTotal
    <3>1. DmSummaryMade \/ DmSummaryToCome
      BY <1>4 DEF DmNeedsBackfill, DmHas, DmIInv, DmEarly
    <3>2. DmSummaryToCome => dmDb.minutes[1] = dmTotal /\ dmDb.minutes[2] = dmTotal /\ dmDb.minutes[5] = dmTotal
      BY <1>1, <1>2 DEF DmSummaryToCome
    <3>3. ~ DmSummaryMade
      BY <1>4, DmRowsEmpty DEF DmNeedsBackfill, DmSummaryMade
    <3> QED
      BY <3>1, <3>2, <3>3
  <2>3. dmDb' = [dmDb EXCEPT !.days = dmTotal, !.summary = DmNamedRows]
    <3>1. [DmNoRows EXCEPT !.total = dmTotal, !.domain = dmTotal, !.name = dmTotal] = DmNamedRows
      <4> DEFINE rows == [DmNoRows EXCEPT !.total = dmTotal, !.domain = dmTotal, !.name = dmTotal]
      <4>1. rows \in DmRowSets /\ DmNamedRows \in DmRowSets
        BY <1>2, DmRowsEmpty DEF DmRowSets
      <4>2. /\ rows.total = dmTotal /\ rows.domain = dmTotal /\ rows.name = dmTotal
            /\ rows.client = 0 /\ rows.tag = 0
        BY DmRowFields, DmRowsEmpty DEF DmRowSets
      <4>3. /\ DmNamedRows.total = dmTotal /\ DmNamedRows.domain = dmTotal /\ DmNamedRows.name = dmTotal
            /\ DmNamedRows.client = 0 /\ DmNamedRows.tag = 0
        BY DmRowFields DEF DmNamedRows
      <4> QED
        BY <4>1, <4>2, <4>3, DmRowsEqual
    <3> QED
      BY <2>1, <2>2, <3>1
  <2>4. /\ dmDb'.hourly = dmDb.hourly /\ dmDb'.summary = DmNamedRows /\ dmDb'.days = dmTotal
        /\ dmDb'.logs = dmDb.logs /\ dmDb'.keys = dmDb.keys /\ dmDb'.index = dmDb.index
        /\ dmDb'.indexed = dmDb.indexed /\ dmDb' \in DmFiles
    BY <1>2, <2>3, DmRowsEmpty DEF DmFiles
  <2>5. ~ DmHas("hourly") /\ ~ DmHas("hourly")' /\ DmNamedRows' = DmNamedRows /\ dmTotal # 0
    BY <1>1, <1>2, <1>4, <2>2, <2>4 DEF DmHas, DmNamedRows, DmNeedsBackfill
  <2>6. DmTypes'
    BY <1>1, <2>4 DEF DmIInv, DmTypes, DmPcs
  <2>7. DmEarly'
    BY <1>1, <2>4, <2>5 DEF DmIInv, DmEarly, DmSummaryMade
  <2> QED
    BY <1>1, <1>3, <2>4, <2>5, <2>6, <2>7, DmUncountedKept, DmSearchKept DEF DmIInv
<1>5. CASE ~ (DmNeedsBackfill /\ dmDb.minutes[1] > 0)
  <2>1. dmDb' = dmDb
    BY <1>5 DEF DmSummary, DmStep
  <2>2. DmTypes'
    BY <1>1, <2>1 DEF DmIInv, DmTypes, DmPcs
  <2>3. ASSUME ~ DmHas("hourly") PROVE DmEarly'
    <3>1. ~ DmHas("hourly")' /\ DmNamedRows' = DmNamedRows
      BY <1>1, <2>1, <2>3 DEF DmHas, DmNamedRows
    <3>2. DmSummaryMade => DmSummaryMade'
      BY <1>1, <2>1, <3>1 DEF DmSummaryMade
    <3>3. ASSUME DmSummaryToCome PROVE DmSummaryToCome'
      <4>1. dmDb.minutes[1] \in Nat /\ dmDb.minutes[1] = dmTotal /\ DmNeedsBackfill
        BY <1>1, <1>2, <2>3, <3>3 DEF DmSummaryToCome, DmNeedsBackfill, DmHas
      <4>2. dmTotal = 0
        BY <1>5, <4>1
      <4> QED
        BY <1>1, <2>1, <3>3, <4>2 DEF DmSummaryToCome
    <3> QED
      BY <1>1, <2>1, <2>3, <3>1, <3>2, <3>3 DEF DmIInv, DmEarly
  <2> QED
    BY <1>1, <1>3, <2>1, <2>2, <2>3, DmUncountedKept, DmSearchKept DEF DmIInv
<1> QED
  BY <1>4, <1>5

LEMMA DmHourlyKeeps == DmIInv /\ DmHourly => DmIInv'
<1> SUFFICES ASSUME DmIInv, DmHourly PROVE DmIInv'
  OBVIOUS
<1>1. /\ UNCHANGED <<dmDropped, dmExisted, dmTotal, dmInserts, dmFaults>>
      /\ dmPc = "hourly" /\ dmPc' = "hourlyMark"
  BY DEF DmHourly, DmStep
<1>2. dmDb \in DmFiles /\ dmTotal \in Nat /\ 1 \in 1..Len(DmMinuteTables) /\ 2 \in 1..Len(DmMinuteTables)
      /\ 5 \in 1..Len(DmMinuteTables)
  BY DmTables DEF DmIInv, DmTypes
<1>3. dmPc \in DmUncounted /\ dmPc' \in DmUncounted /\ dmPc \in DmCounting /\ dmPc' \in DmCounting
  BY <1>1 DEF DmUncounted, DmCounting
<1>4. CASE DmHas("hourly")
  <2>1. dmDb' = dmDb
    BY <1>4 DEF DmHourly, DmStep, DmHas
  <2>2. DmTypes'
    BY <1>1, <2>1 DEF DmIInv, DmTypes, DmPcs
  <2> QED
    BY <1>1, <1>3, <1>4, <2>1, <2>2, DmUncountedKept, DmSearchKept DEF DmIInv
<1>5. CASE ~ DmHas("hourly")
  <2>1. DmSummaryMade \/ DmSummaryToCome
    BY <1>5 DEF DmIInv, DmEarly
  <2>2. PICK rows \in DmRowSets : dmDb' = [dmDb EXCEPT !.hourly = rows] /\ rows = DmNamedRows
    <3>1. CASE dmDb.hourly # DmNoRows
      <4>1. dmDb.hourly = DmNamedRows
        BY <1>5, <3>1 DEF DmIInv, DmEarly
      <4>2. dmDb' = dmDb
        BY <1>5, <3>1 DEF DmHourly, DmStep, DmHas
      <4>3. dmDb' = [dmDb EXCEPT !.hourly = dmDb.hourly]
        BY <1>2, <4>2 DEF DmFiles
      <4> QED
        BY <1>2, <4>1, <4>3, DmRowsEmpty
    <3>2. CASE dmDb.hourly = DmNoRows /\ dmDb.summary # DmNoRows
      <4>1. dmDb.summary = DmNamedRows /\ dmDb.days = dmTotal
        BY <2>1, <3>2 DEF DmSummaryMade, DmSummaryToCome
      <4>2. dmDb' = [dmDb EXCEPT !.hourly = [dmDb.summary EXCEPT !.total = dmDb.days]]
        BY <1>5, <3>2 DEF DmHourly, DmStep, DmHas
      <4>3. DmNamedRows \in DmRowSets /\ DmNamedRows.total = dmTotal
        BY <1>2, DmRowsEmpty, DmRowFields DEF DmNamedRows
      <4>4. [DmNamedRows EXCEPT !.total = dmTotal] = DmNamedRows
        BY <4>3 DEF DmRowSets
      <4> QED
        BY <4>1, <4>2, <4>3, <4>4
    <3>3. CASE dmDb.hourly = DmNoRows /\ dmDb.summary = DmNoRows
      <4>1. dmTotal = 0 /\ dmDb.minutes[1] = 0 /\ dmDb.minutes[2] = 0 /\ dmDb.minutes[5] = 0
        <5>1. ~ DmSummaryMade
          BY <3>3, DmRowsEmpty DEF DmSummaryMade
        <5> QED
          BY <1>1, <1>2, <2>1, <5>1 DEF DmSummaryToCome
      <4>2. dmDb' = [dmDb EXCEPT !.hourly = [DmNoRows EXCEPT !.total = 0, !.domain = 0, !.name = 0]]
        BY <1>5, <3>3, <4>1 DEF DmHourly, DmStep, DmHas
      <4>3. /\ DmNoRows \in DmRowSets /\ DmNoRows.total = 0 /\ DmNoRows.domain = 0 /\ DmNoRows.name = 0
            /\ DmNoRows = DmNamedRows
        BY <4>1, DmRowsEmpty, DmRowFields DEF DmNamedRows
      <4>4. [DmNoRows EXCEPT !.total = 0, !.domain = 0, !.name = 0] = DmNoRows
        BY <4>3 DEF DmRowSets
      <4> QED
        BY <4>2, <4>3, <4>4
    <3> QED
      BY <3>1, <3>2, <3>3
  <2>3. /\ dmDb'.hourly = DmNamedRows /\ dmDb'.summary = dmDb.summary /\ dmDb'.days = dmDb.days
        /\ dmDb'.logs = dmDb.logs /\ dmDb'.keys = dmDb.keys /\ dmDb'.index = dmDb.index
        /\ dmDb'.indexed = dmDb.indexed /\ dmDb'.minutes = dmDb.minutes /\ dmDb' \in DmFiles
    BY <1>2, <2>2 DEF DmFiles
  <2>4. DmTypes'
    BY <1>1, <2>3 DEF DmIInv, DmTypes, DmPcs
  <2>5. ~ DmHas("hourly")' /\ DmNamedRows' = DmNamedRows
    BY <1>1, <1>5, <2>3 DEF DmHas, DmNamedRows
  <2>6. DmSummaryMade' \/ DmSummaryToCome'
    BY <1>1, <2>1, <2>3, <2>5 DEF DmSummaryMade, DmSummaryToCome
  <2>7. DmEarly'
    BY <2>3, <2>5, <2>6 DEF DmEarly
  <2> QED
    BY <1>1, <1>3, <1>5, <2>3, <2>4, <2>7, DmUncountedKept, DmSearchKept DEF DmIInv
<1> QED
  BY <1>4, <1>5

LEMMA DmHourlyMarkKeeps == DmIInv /\ DmHourlyMark => DmIInv'
<1> SUFFICES ASSUME DmIInv, DmHourlyMark PROVE DmIInv'
  OBVIOUS
<1>1. /\ UNCHANGED <<dmDropped, dmExisted, dmTotal, dmInserts, dmFaults>>
      /\ dmPc = "hourlyMark" /\ dmPc' = "lifetime" /\ dmDb' = [dmDb EXCEPT !.keys = @ \cup {"hourly"}]
  BY DEF DmHourlyMark, DmStep
<1>2. dmDb \in DmFiles /\ dmTotal \in Nat
  BY DEF DmIInv, DmTypes
<1>3. /\ dmDb'.hourly = dmDb.hourly /\ dmDb'.summary = dmDb.summary
      /\ dmDb'.logs = dmDb.logs /\ dmDb'.keys = dmDb.keys \cup {"hourly"} /\ dmDb'.index = dmDb.index
      /\ dmDb'.indexed = dmDb.indexed /\ dmDb' \in DmFiles
  <2>1. dmDb.keys \cup {"hourly"} \in SUBSET DmMarks
    BY <1>2 DEF DmFiles, DmMarks
  <2>2. dmDb' \in DmFiles
    BY <1>1, <1>2, <2>1 DEF DmFiles
  <2> QED
    BY <1>1, <1>2, <2>2 DEF DmFiles
<1>4. DmTypes'
  BY <1>1, <1>3 DEF DmIInv, DmTypes, DmPcs
<1>5. dmPc \in DmCounting /\ dmPc' \in DmCounting /\ ("search" \in dmDb'.keys <=> "search" \in dmDb.keys)
  BY <1>1, <1>3 DEF DmCounting
<1>6. DmSearched'
  BY <1>1, <1>3, <1>5, DmSearchKept
<1>7. /\ DmHas("hourly")' /\ DmNamedRows' = DmNamedRows
      /\ DmHas("lifetime")' <=> DmHas("lifetime")
      /\ DmHas("source")' <=> DmHas("source")
      /\ DmHas("lifetime") => DmHas("hourly")
      /\ DmHas("source") => DmHas("lifetime")
  BY <1>1, <1>3 DEF DmHas, DmNamedRows, DmIInv, DmMarked
<1>8. ~ DmHas("lifetime") => dmDb.hourly = DmNamedRows
  BY <1>1 DEF DmIInv, DmEarly
<1>9. /\ DmNamedRows.total = dmTotal /\ DmNamedRows.domain = dmTotal /\ DmNamedRows.name = dmTotal
      /\ DmNamedRows.tag = 0
  BY DmRowFields DEF DmNamedRows
<1>10. /\ dmPc \notin DmMovingHits /\ dmPc' \notin DmMovingHits
       /\ dmPc' \notin DmAfterLifetime /\ dmPc' \notin DmAfterSource
  BY <1>1 DEF DmMovingHits, DmAfterLifetime, DmAfterSource, DmAfterIndex
<1>11. DmMarked' /\ DmEarly'
  BY <1>1, <1>3, <1>7, <1>8, <1>10 DEF DmMarked, DmEarly
<1>12. DmTotals'
  BY <1>1, <1>3, <1>7, <1>8, <1>9 DEF DmIInv, DmTotals
<1>13. DmHits'
  BY <1>1, <1>2, <1>3, <1>7, <1>8, <1>9, <1>10 DEF DmIInv, DmHits, DmHitsHeld, DmMovingHits
<1>14. DmHitsExact'
  BY <1>1, <1>3, <1>7, <1>8, <1>9, <1>10 DEF DmIInv, DmHitsExact, DmHitsAre, DmMovingHits
<1> QED
  BY <1>4, <1>6, <1>11, <1>12, <1>13, <1>14 DEF DmIInv

LEMMA DmLifetimeKeeps == DmIInv /\ DmLifetime => DmIInv'
<1> SUFFICES ASSUME DmIInv, DmLifetime PROVE DmIInv'
  OBVIOUS
<1>1. /\ UNCHANGED <<dmDropped, dmExisted, dmTotal, dmInserts, dmFaults>>
      /\ dmPc = "lifetime" /\ dmPc' = "clientHours"
      /\ dmDb' = IF DmHas("lifetime") THEN dmDb
                 ELSE [dmDb EXCEPT !.summary = dmDb.hourly, !.keys = @ \cup {"lifetime"}]
  BY DEF DmLifetime, DmStep, DmHas
<1>2. dmDb \in DmFiles /\ dmTotal \in Nat
  BY DEF DmIInv, DmTypes
<1>3. /\ dmDb'.hourly = dmDb.hourly
      /\ dmDb'.summary = IF DmHas("lifetime") THEN dmDb.summary ELSE dmDb.hourly
      /\ dmDb'.logs = dmDb.logs /\ dmDb'.keys = dmDb.keys \cup {"lifetime"} /\ dmDb'.index = dmDb.index
      /\ dmDb'.indexed = dmDb.indexed /\ dmDb' \in DmFiles
  <2>1. dmDb.keys \cup {"lifetime"} \in SUBSET DmMarks
    BY <1>2 DEF DmFiles, DmMarks
  <2>2. CASE ~ DmHas("lifetime")
    <3>1. dmDb' \in DmFiles
      BY <1>1, <1>2, <2>1, <2>2 DEF DmFiles
    <3> QED
      BY <1>1, <1>2, <2>2, <3>1 DEF DmFiles
  <2>3. CASE DmHas("lifetime")
    BY <1>1, <1>2, <2>3 DEF DmHas
  <2> QED
    BY <2>2, <2>3
<1>4. DmTypes'
  BY <1>1, <1>3 DEF DmIInv, DmTypes, DmPcs
<1>5. dmPc \in DmCounting /\ dmPc' \in DmCounting /\ ("search" \in dmDb'.keys <=> "search" \in dmDb.keys)
  BY <1>1, <1>3 DEF DmCounting
<1>6. DmSearched'
  BY <1>1, <1>3, <1>5, DmSearchKept
<1>7. DmHas("hourly") /\ dmPc \in DmAfterHourly
  BY <1>1 DEF DmIInv, DmMarked, DmAfterHourly
<1>8. /\ DmHas("hourly")' /\ DmHas("lifetime")' /\ DmNamedRows' = DmNamedRows
      /\ DmHas("source")' <=> DmHas("source")
      /\ DmHas("source") => DmHas("lifetime")
  BY <1>1, <1>3, <1>7 DEF DmHas, DmNamedRows, DmIInv, DmMarked
<1>9. ~ DmHas("lifetime") => dmDb.hourly = DmNamedRows
  BY <1>7 DEF DmIInv, DmEarly
<1>10. /\ DmNamedRows.total = dmTotal /\ DmNamedRows.domain = dmTotal /\ DmNamedRows.name = dmTotal
       /\ DmNamedRows.tag = 0
  BY DmRowFields DEF DmNamedRows
<1>11. dmPc \notin DmMovingHits /\ dmPc' \notin DmMovingHits /\ dmPc' \notin DmAfterSource
  BY <1>1 DEF DmMovingHits, DmAfterSource, DmAfterIndex
<1>12. DmMarked' /\ DmEarly'
  BY <1>8, <1>11 DEF DmMarked, DmEarly
<1>13. DmTotals'
  BY <1>1, <1>3, <1>7, <1>8, <1>9, <1>10 DEF DmIInv, DmTotals
<1>14. DmHits'
  BY <1>1, <1>2, <1>3, <1>7, <1>8, <1>9, <1>10, <1>11 DEF DmIInv, DmHits, DmHitsHeld, DmMovingHits
<1>15. DmHitsExact'
  BY <1>1, <1>3, <1>7, <1>8, <1>9, <1>10, <1>11 DEF DmIInv, DmHitsExact, DmHitsAre, DmMovingHits
<1> QED
  BY <1>4, <1>6, <1>12, <1>13, <1>14, <1>15 DEF DmIInv

(* After the lifetime mark only the hits of lists are still on their way.   *)
DmLate == {"clientHours", "clientSummary", "clientMark"} \cup DmMovingHits
LEMMA DmLateKept ==
  ASSUME DmIInv, NEW n, dmPc' = n, dmPc \in DmLate, n \in DmLate, dmDb' \in DmFiles,
         UNCHANGED <<dmDropped, dmExisted, dmTotal, dmInserts, dmFaults>>,
         dmDb'.logs = dmDb.logs, dmDb'.index = dmDb.index, dmDb'.indexed = dmDb.indexed,
         \A mark \in {"hourly", "lifetime", "source", "search"} : mark \in dmDb'.keys <=> mark \in dmDb.keys,
         dmDb'.hourly.total = dmDb.hourly.total, dmDb'.hourly.domain = dmDb.hourly.domain,
         dmDb'.summary.total = dmDb.summary.total, dmDb'.summary.domain = dmDb.summary.domain
  PROVE  DmTypes' /\ DmMarked' /\ DmEarly' /\ DmTotals' /\ DmSearched'
<1>1. /\ dmPc \in DmCounting /\ n \in DmCounting /\ n \in DmPcs /\ n \notin DmAfterSource
      /\ dmPc \in DmAfterHourly /\ dmPc \in DmAfterLifetime
  BY DEF DmLate, DmCounting, DmPcs, DmAfterSource, DmAfterHourly, DmAfterLifetime, DmAfterIndex, DmMovingHits
<1>2. DmTypes'
  BY <1>1 DEF DmIInv, DmTypes
<1>3. DmSearched'
  BY <1>1, DmSearchKept
<1>4. DmHas("hourly") /\ DmHas("lifetime") /\ DmHas("hourly")' /\ DmHas("lifetime")'
  BY <1>1 DEF DmIInv, DmMarked, DmHas
<1>5. DmMarked' /\ DmEarly'
  BY <1>1, <1>4 DEF DmMarked, DmEarly
<1>6. DmTotals'
  BY <1>4 DEF DmIInv, DmTotals
<1> QED
  BY <1>2, <1>3, <1>5, <1>6

LEMMA DmClientKeeps == DmIInv /\ (DmClientHours \/ DmClientSummary \/ DmClientMark) => DmIInv'
<1> SUFFICES ASSUME DmIInv, DmClientHours \/ DmClientSummary \/ DmClientMark PROVE DmIInv'
  OBVIOUS
<1>1. /\ UNCHANGED <<dmDropped, dmExisted, dmTotal, dmInserts, dmFaults>>
      /\ dmPc \in {"clientHours", "clientSummary", "clientMark"}
      /\ dmPc' \in {"clientSummary", "clientMark", "copyHours"}
      /\ \/ dmDb' = dmDb
         \/ dmDb' = [dmDb EXCEPT !.hourly.client = dmDb.logs]
         \/ dmDb' = [dmDb EXCEPT !.summary.client = dmDb.hourly.client]
         \/ dmDb' = [dmDb EXCEPT !.keys = @ \cup {"client"}]
  BY DEF DmClientHours, DmClientSummary, DmClientMark, DmStep
<1>2. dmDb \in DmFiles /\ dmTotal \in Nat
  BY DEF DmIInv, DmTypes
<1>3. /\ dmDb' \in DmFiles
      /\ dmDb'.logs = dmDb.logs /\ dmDb'.index = dmDb.index /\ dmDb'.indexed = dmDb.indexed
      /\ dmDb'.hourly.total = dmDb.hourly.total /\ dmDb'.hourly.domain = dmDb.hourly.domain
      /\ dmDb'.summary.total = dmDb.summary.total /\ dmDb'.summary.domain = dmDb.summary.domain
      /\ dmDb'.hourly.name = dmDb.hourly.name /\ dmDb'.hourly.tag = dmDb.hourly.tag
      /\ dmDb'.summary.name = dmDb.summary.name /\ dmDb'.summary.tag = dmDb.summary.tag
      /\ dmDb'.keys = dmDb.keys \/ dmDb'.keys = dmDb.keys \cup {"client"}
  <2>1. CASE dmDb' = dmDb
    BY <1>2, <2>1
  <2>2. CASE dmDb' = [dmDb EXCEPT !.hourly.client = dmDb.logs]
    <3>1. dmDb' \in DmFiles
      BY <1>2, <2>2 DEF DmFiles, DmRowSets
    <3> QED
      BY <1>2, <2>2, <3>1 DEF DmFiles, DmRowSets
  <2>3. CASE dmDb' = [dmDb EXCEPT !.summary.client = dmDb.hourly.client]
    <3>1. dmDb' \in DmFiles
      BY <1>2, <2>3 DEF DmFiles, DmRowSets
    <3> QED
      BY <1>2, <2>3, <3>1 DEF DmFiles, DmRowSets
  <2>4. CASE dmDb' = [dmDb EXCEPT !.keys = @ \cup {"client"}]
    <3>1. dmDb.keys \cup {"client"} \in SUBSET DmMarks
      BY <1>2 DEF DmFiles, DmMarks
    <3>2. dmDb' \in DmFiles
      BY <1>2, <2>4, <3>1 DEF DmFiles
    <3> QED
      BY <1>2, <2>4, <3>2 DEF DmFiles
  <2> QED
    BY <1>1, <2>1, <2>2, <2>3, <2>4
<1>4. /\ dmPc \in DmLate /\ dmPc' \in DmLate
      /\ dmPc' \notin {"deleteHours", "copySummary", "deleteSummary", "sourceMark"}
      /\ dmPc \notin {"deleteHours", "copySummary", "deleteSummary", "sourceMark"}
  BY <1>1 DEF DmLate, DmMovingHits
<1>5. \A mark \in {"hourly", "lifetime", "source", "search"} : mark \in dmDb'.keys <=> mark \in dmDb.keys
  BY <1>3
<1>6. /\ DmHas("hourly")' <=> DmHas("hourly")
      /\ DmHas("lifetime")' <=> DmHas("lifetime")
      /\ DmHas("source")' <=> DmHas("source")
  BY <1>5 DEF DmHas
<1>7. DmHits'
  BY <1>1, <1>3, <1>4, <1>6 DEF DmIInv, DmHits, DmHitsHeld
<1>8. DmHitsExact'
  BY <1>1, <1>3, <1>4, <1>6 DEF DmIInv, DmHitsExact, DmHitsAre
<1> QED
  BY <1>1, <1>3, <1>4, <1>5, <1>7, <1>8, DmLateKept DEF DmIInv

LEMMA DmMoveHitsKeeps ==
  DmIInv /\ (DmCopyHours \/ DmDeleteHours \/ DmCopySummary \/ DmDeleteSummary) => DmIInv'
<1> SUFFICES ASSUME DmIInv, DmCopyHours \/ DmDeleteHours \/ DmCopySummary \/ DmDeleteSummary PROVE DmIInv'
  OBVIOUS
<1>1. /\ UNCHANGED <<dmDropped, dmExisted, dmTotal, dmInserts, dmFaults>>
      /\ dmPc \in {"copyHours", "deleteHours", "copySummary", "deleteSummary"}
      /\ DmHas("source") => dmDb' = dmDb
      /\ dmPc = "copyHours" => /\ dmPc' = "deleteHours"
                               /\ ~ DmHas("source") => dmDb' = [dmDb EXCEPT !.hourly = DmCopied(@)]
      /\ dmPc = "deleteHours" => /\ dmPc' = "copySummary"
                                 /\ ~ DmHas("source") => dmDb' = [dmDb EXCEPT !.hourly = DmDeleted(@)]
      /\ dmPc = "copySummary" => /\ dmPc' = "deleteSummary"
                                 /\ ~ DmHas("source") => dmDb' = [dmDb EXCEPT !.summary = DmCopied(@)]
      /\ dmPc = "deleteSummary" => /\ dmPc' = "sourceMark"
                                   /\ ~ DmHas("source") => dmDb' = [dmDb EXCEPT !.summary = DmDeleted(@)]
  BY DEF DmCopyHours, DmDeleteHours, DmCopySummary, DmDeleteSummary, DmStep, DmSourced, DmHas
<1>2. dmDb \in DmFiles /\ dmTotal \in Nat
  BY DEF DmIInv, DmTypes
<1>3. /\ dmDb.hourly \in DmRowSets /\ dmDb.summary \in DmRowSets
      /\ dmDb.hourly.name \in Nat /\ dmDb.hourly.tag \in Nat
      /\ dmDb.summary.name \in Nat /\ dmDb.summary.tag \in Nat
  BY <1>2 DEF DmFiles, DmRowSets
<1>4. ASSUME NEW rows \in DmRowSets
      PROVE  /\ DmCopied(rows) \in DmRowSets /\ DmDeleted(rows) \in DmRowSets
             /\ DmCopied(rows).total = rows.total /\ DmCopied(rows).domain = rows.domain
             /\ DmCopied(rows).name = rows.name /\ DmCopied(rows).tag = rows.tag + rows.name
             /\ DmDeleted(rows).total = rows.total /\ DmDeleted(rows).domain = rows.domain
             /\ DmDeleted(rows).name = 0 /\ DmDeleted(rows).tag = rows.tag
  BY DEF DmCopied, DmDeleted, DmRowSets
<1>5. PICK h \in DmRowSets :
         h = IF DmHas("source") THEN dmDb.hourly
             ELSE IF dmPc = "copyHours" THEN DmCopied(dmDb.hourly)
             ELSE IF dmPc = "deleteHours" THEN DmDeleted(dmDb.hourly) ELSE dmDb.hourly
  BY <1>3, <1>4
<1>6. PICK s \in DmRowSets :
         s = IF DmHas("source") THEN dmDb.summary
             ELSE IF dmPc = "copySummary" THEN DmCopied(dmDb.summary)
             ELSE IF dmPc = "deleteSummary" THEN DmDeleted(dmDb.summary) ELSE dmDb.summary
  BY <1>3, <1>4
<1>7. dmDb' = [dmDb EXCEPT !.hourly = h, !.summary = s]
  <2>1. [dmDb EXCEPT !.hourly = h] = [dmDb EXCEPT !.hourly = h, !.summary = dmDb.summary]
    BY <1>2 DEF DmFiles
  <2>2. [dmDb EXCEPT !.summary = s] = [dmDb EXCEPT !.hourly = dmDb.hourly, !.summary = s]
    BY <1>2 DEF DmFiles
  <2>3. dmDb = [dmDb EXCEPT !.hourly = dmDb.hourly, !.summary = dmDb.summary]
    BY <1>2 DEF DmFiles
  <2>4. CASE DmHas("source")
    <3>1. dmDb' = dmDb /\ h = dmDb.hourly /\ s = dmDb.summary
      BY <1>1, <1>5, <1>6, <2>4
    <3> QED
      BY <2>3, <3>1
  <2>5. CASE ~ DmHas("source") /\ dmPc \in {"copyHours", "deleteHours"}
    <3>1. dmDb' = [dmDb EXCEPT !.hourly = h] /\ s = dmDb.summary
      BY <1>1, <1>5, <1>6, <2>5
    <3> QED
      BY <2>1, <3>1
  <2>6. CASE ~ DmHas("source") /\ dmPc \in {"copySummary", "deleteSummary"}
    <3>1. dmDb' = [dmDb EXCEPT !.summary = s] /\ h = dmDb.hourly
      BY <1>1, <1>5, <1>6, <2>6
    <3> QED
      BY <2>2, <3>1
  <2> QED
    BY <1>1, <2>4, <2>5, <2>6
<1>8. /\ dmDb'.hourly = h /\ dmDb'.summary = s /\ dmDb'.keys = dmDb.keys /\ dmDb'.logs = dmDb.logs
      /\ dmDb'.index = dmDb.index /\ dmDb'.indexed = dmDb.indexed /\ dmDb' \in DmFiles
  BY <1>2, <1>7 DEF DmFiles
<1>9. /\ h.total = dmDb.hourly.total /\ h.domain = dmDb.hourly.domain
      /\ s.total = dmDb.summary.total /\ s.domain = dmDb.summary.domain
  BY <1>3, <1>4, <1>5, <1>6
<1>10. /\ h.name = IF ~ DmHas("source") /\ dmPc = "deleteHours" THEN 0 ELSE dmDb.hourly.name
       /\ h.tag = IF ~ DmHas("source") /\ dmPc = "copyHours" THEN dmDb.hourly.tag + dmDb.hourly.name
                  ELSE dmDb.hourly.tag
       /\ s.name = IF ~ DmHas("source") /\ dmPc = "deleteSummary" THEN 0 ELSE dmDb.summary.name
       /\ s.tag = IF ~ DmHas("source") /\ dmPc = "copySummary" THEN dmDb.summary.tag + dmDb.summary.name
                  ELSE dmDb.summary.tag
  BY <1>3, <1>4, <1>5, <1>6
<1>11. dmPc \in DmLate /\ dmPc' \in DmLate /\ dmPc \in DmAfterLifetime /\ dmPc \in DmAfterHourly
  BY <1>1 DEF DmLate, DmMovingHits, DmAfterHourly, DmAfterLifetime
<1>12. DmTypes' /\ DmMarked' /\ DmEarly' /\ DmTotals' /\ DmSearched'
  BY <1>1, <1>8, <1>9, <1>11, DmLateKept
<1>13. /\ DmHas("hourly") /\ DmHas("lifetime") /\ DmHas("hourly")' /\ DmHas("lifetime")'
       /\ DmHas("source")' <=> DmHas("source")
  BY <1>8, <1>11 DEF DmIInv, DmMarked, DmHas
<1>14. DmHits'
  <2>1. /\ DmHitsHeld(dmDb.hourly) /\ DmHitsHeld(dmDb.summary)
        /\ DmHas("source") => dmDb.hourly.name = 0 /\ dmDb.summary.name = 0
        /\ dmPc = "deleteHours" => dmDb.hourly.tag >= dmTotal
        /\ dmPc \in {"copySummary", "deleteSummary", "sourceMark"} => dmDb.hourly.name = 0
        /\ dmPc = "deleteSummary" => dmDb.summary.tag >= dmTotal
    BY <1>13 DEF DmIInv, DmHits
  <2>2. DmHitsHeld(h) /\ (dmPc' = "deleteHours" => h.tag >= dmTotal)
        /\ (dmPc' \in {"copySummary", "deleteSummary", "sourceMark"} => h.name = 0)
    BY <1>1, <1>2, <1>3, <1>10, <2>1 DEF DmHitsHeld
  <2>3. DmHitsHeld(s) /\ (dmPc' = "deleteSummary" => s.tag >= dmTotal)
        /\ (dmPc' = "sourceMark" => s.name = 0)
    BY <1>1, <1>2, <1>3, <1>10, <2>1 DEF DmHitsHeld
  <2>4. DmHas("source") => h.name = 0 /\ s.name = 0
    BY <1>10, <2>1
  <2> QED
    BY <1>1, <1>8, <1>13, <2>2, <2>3, <2>4 DEF DmHits, DmHitsHeld
<1>15. DmHitsExact'
  BY <1>1, <1>2, <1>3, <1>8, <1>10, <1>13 DEF DmIInv, DmHitsExact, DmHitsAre
<1> QED
  BY <1>12, <1>14, <1>15 DEF DmIInv

LEMMA DmSourceMarkKeeps == DmIInv /\ DmSourceMark => DmIInv'
<1> SUFFICES ASSUME DmIInv, DmSourceMark PROVE DmIInv'
  OBVIOUS
<1>1. /\ UNCHANGED <<dmDropped, dmExisted, dmTotal, dmInserts, dmFaults>>
      /\ dmPc = "sourceMark" /\ dmPc' = "index" /\ dmDb' = [dmDb EXCEPT !.keys = @ \cup {"source"}]
  BY DEF DmSourceMark, DmStep
<1>2. dmDb \in DmFiles /\ dmTotal \in Nat
  BY DEF DmIInv, DmTypes
<1>3. /\ dmDb'.hourly = dmDb.hourly /\ dmDb'.summary = dmDb.summary
      /\ dmDb'.logs = dmDb.logs /\ dmDb'.keys = dmDb.keys \cup {"source"} /\ dmDb'.index = dmDb.index
      /\ dmDb'.indexed = dmDb.indexed /\ dmDb' \in DmFiles
  <2>1. dmDb.keys \cup {"source"} \in SUBSET DmMarks
    BY <1>2 DEF DmFiles, DmMarks
  <2>2. dmDb' \in DmFiles
    BY <1>1, <1>2, <2>1 DEF DmFiles
  <2> QED
    BY <1>1, <1>2, <2>2 DEF DmFiles
<1>4. DmTypes'
  BY <1>1, <1>3 DEF DmIInv, DmTypes, DmPcs
<1>5. dmPc \in DmCounting /\ dmPc' \in DmCounting /\ ("search" \in dmDb'.keys <=> "search" \in dmDb.keys)
  BY <1>1, <1>3 DEF DmCounting, DmMovingHits
<1>6. DmSearched'
  BY <1>1, <1>3, <1>5, DmSearchKept
<1>7. dmPc \in DmAfterHourly /\ dmPc \in DmAfterLifetime
  BY <1>1 DEF DmAfterHourly, DmAfterLifetime, DmMovingHits
<1>8. /\ DmHas("hourly") /\ DmHas("lifetime") /\ DmHas("hourly")' /\ DmHas("lifetime")' /\ DmHas("source")'
      /\ DmNamedRows' = DmNamedRows
  BY <1>1, <1>3, <1>7 DEF DmHas, DmNamedRows, DmIInv, DmMarked
<1>9. DmMarked' /\ DmEarly' /\ DmTotals'
  BY <1>1, <1>3, <1>8 DEF DmIInv, DmMarked, DmEarly, DmTotals
<1>10. DmHits'
  BY <1>1, <1>3, <1>8 DEF DmIInv, DmHits, DmHitsHeld
<1>11. DmHitsExact'
  BY <1>1, <1>3, <1>8 DEF DmIInv, DmHitsExact, DmHitsAre
<1> QED
  BY <1>4, <1>6, <1>9, <1>10, <1>11 DEF DmIInv

LEMMA DmInsertKeeps == DmIInv /\ DmInsert => DmIInv'
<1> SUFFICES ASSUME DmIInv, DmInsert PROVE DmIInv'
  OBVIOUS
<1>1. /\ UNCHANGED <<dmPc, dmDropped, dmExisted, dmFaults>> /\ dmPc = "open"
      /\ dmInserts' = dmInserts + 1 /\ dmTotal' = dmTotal + 1
      /\ dmDb' = [dmDb EXCEPT !.logs = @ + 1, !.indexed = @ + 1, !.hourly = DmOneMore(@), !.summary = DmOneMore(@)]
  BY DEF DmInsert
<1>2. dmDb \in DmFiles /\ dmTotal \in Nat /\ dmInserts \in Nat /\ dmDb.indexed <= dmDb.logs
  BY DEF DmIInv, DmTypes
<1>3. ASSUME NEW rows \in DmRowSets
      PROVE  /\ DmOneMore(rows) \in DmRowSets
             /\ DmOneMore(rows).total = rows.total + 1 /\ DmOneMore(rows).domain = rows.domain + 1
             /\ DmOneMore(rows).name = rows.name /\ DmOneMore(rows).tag = rows.tag + 1
  BY DEF DmOneMore, DmRowSets
<1>4. PICK h \in DmRowSets, s \in DmRowSets : h = DmOneMore(dmDb.hourly) /\ s = DmOneMore(dmDb.summary)
  BY <1>2, <1>3 DEF DmFiles
<1>5. dmDb' = [dmDb EXCEPT !.logs = dmDb.logs + 1, !.indexed = dmDb.indexed + 1, !.hourly = h, !.summary = s]
  BY <1>1, <1>4
<1>6. /\ dmDb'.hourly = h /\ dmDb'.summary = s /\ dmDb'.keys = dmDb.keys /\ dmDb'.logs = dmDb.logs + 1
      /\ dmDb'.index = dmDb.index /\ dmDb'.indexed = dmDb.indexed + 1 /\ dmDb' \in DmFiles
      /\ dmDb.logs \in Nat /\ dmDb.indexed \in Nat
  <2>1. dmDb.logs \in Nat /\ dmDb.indexed \in Nat
    BY <1>2 DEF DmFiles
  <2>2. PICK l \in Nat, i \in Nat : l = dmDb.logs + 1 /\ i = dmDb.indexed + 1
    BY <2>1
  <2>3. dmDb' = [dmDb EXCEPT !.logs = l, !.indexed = i, !.hourly = h, !.summary = s]
    BY <1>5, <2>2
  <2>4. dmDb' \in DmFiles
    BY <1>2, <2>3 DEF DmFiles
  <2>5. /\ dmDb'.hourly = h /\ dmDb'.summary = s /\ dmDb'.keys = dmDb.keys /\ dmDb'.logs = l
        /\ dmDb'.index = dmDb.index /\ dmDb'.indexed = i
    BY <1>2, <2>3 DEF DmFiles
  <2> QED
    BY <2>1, <2>2, <2>4, <2>5
<1>7. /\ h.total = dmDb.hourly.total + 1 /\ h.domain = dmDb.hourly.domain + 1
      /\ h.name = dmDb.hourly.name /\ h.tag = dmDb.hourly.tag + 1
      /\ s.total = dmDb.summary.total + 1 /\ s.domain = dmDb.summary.domain + 1
      /\ s.name = dmDb.summary.name /\ s.tag = dmDb.summary.tag + 1
      /\ dmDb.hourly.tag \in Nat /\ dmDb.summary.tag \in Nat
  BY <1>2, <1>3, <1>4 DEF DmFiles, DmRowSets
<1>8. /\ dmPc \in DmAfterHourly /\ dmPc \in DmAfterLifetime /\ dmPc \in DmAfterSource /\ dmPc \in DmAfterIndex
      /\ dmPc \notin {"closed"} \cup DmBeforeCreate /\ dmPc \notin DmMovingHits
  BY <1>1 DEF DmAfterHourly, DmAfterLifetime, DmAfterSource, DmAfterIndex, DmBeforeCreate, DmMovingHits
<1>9. /\ DmHas("hourly") /\ DmHas("lifetime") /\ DmHas("source")
      /\ DmHas("hourly")' /\ DmHas("lifetime")' /\ DmHas("source")'
  BY <1>6, <1>8 DEF DmIInv, DmMarked, DmHas
<1>10. dmDb.index = "plain" /\ (dmFaults = 0 => dmDb.indexed = dmDb.logs)
  BY <1>8 DEF DmIInv, DmSearched
<1>11. DmTypes'
  BY <1>1, <1>2, <1>6, <1>10 DEF DmIInv, DmTypes
<1>12. DmMarked' /\ DmEarly'
  BY <1>1, <1>9 DEF DmMarked, DmEarly
<1>13. DmTotals'
  BY <1>1, <1>6, <1>7, <1>9 DEF DmIInv, DmTotals
<1>14. DmHits'
  <2>1. dmDb.hourly.name = 0 /\ dmDb.summary.name = 0 /\ dmDb.hourly.tag >= dmTotal /\ dmDb.summary.tag >= dmTotal
    BY <1>9 DEF DmIInv, DmHits, DmHitsHeld
  <2>2. h.name = 0 /\ s.name = 0 /\ h.tag >= dmTotal' /\ s.tag >= dmTotal'
    BY <1>1, <1>2, <1>7, <2>1
  <2> QED
    BY <1>1, <1>6, <1>8, <2>2 DEF DmHits, DmHitsHeld, DmMovingHits
<1>15. DmHitsExact'
  BY <1>1, <1>6, <1>7, <1>9 DEF DmIInv, DmHitsExact
<1>16. DmSearched'
  BY <1>1, <1>6, <1>8, <1>10 DEF DmSearched
<1> QED
  BY <1>11, <1>12, <1>13, <1>14, <1>15, <1>16 DEF DmIInv

LEMMA DmInductive == DmIInv /\ [DmNext]_dmVars => DmIInv'
<1> SUFFICES ASSUME DmIInv, [DmNext]_dmVars PROVE DmIInv'
  OBVIOUS
<1>1. CASE UNCHANGED dmVars
  BY <1>1 DEF dmVars, DmIInv, DmTypes, DmMarked, DmEarly, DmTotals, DmHits, DmHitsHeld, DmHitsExact, DmHitsAre,
     DmSearched, DmHas, DmSummaryMade, DmSummaryToCome, DmNamedRows
<1>2. CASE DmNext
  BY <1>2, DmDropKeeps, DmCreateKeeps, DmBackfillKeeps, DmSummaryKeeps, DmHourlyKeeps, DmHourlyMarkKeeps,
     DmLifetimeKeeps, DmClientKeeps, DmMoveHitsKeeps, DmSourceMarkKeeps, DmIndexKeeps, DmCompactKeeps,
     DmCloseKeeps, DmInsertKeeps DEF DmNext
<1> QED
  BY <1>1, <1>2

THEOREM DmInvariant == DmSpec => []DmIInv
BY DmInitial, DmInductive, PTL DEF DmSpec

(* DmHistoryKept: however many starts were cut off, and whatever version    *)
(* the file was of, an open database shows each query of the history once,  *)
(* no hit of a list is lost on the way from its name to its id, and after   *)
(* an upgrade that was not cut off each row can be found.                   *)
THEOREM DmHistoryCorrect == DmSpec => []DmHistoryKept
<1>1. DmIInv => DmHistoryKept
  <2> SUFFICES ASSUME DmIInv PROVE DmHistoryKept
    OBVIOUS
  <2>1. DmTypeOK
    <3>1. /\ dmDb.keys \subseteq DmMarks /\ dmDb.index \in {"absent", "sized", "plain"}
          /\ dmDb.indexed \in 0..dmDb.logs /\ (dmDb.index = "absent" => dmDb.indexed = 0)
      BY DEF DmIInv, DmTypes, DmFiles
    <3>2. dmDropped \in BOOLEAN /\ dmExisted \in BOOLEAN /\ dmFaults \in 0..MaxDmFaults
      BY DEF DmIInv, DmTypes
    <3> QED
      BY <3>1, <3>2 DEF DmTypeOK
  <2>2. dmPc = "open" => DmHas("hourly") /\ DmHas("lifetime") /\ DmHas("source")
    BY DEF DmIInv, DmMarked, DmAfterHourly, DmAfterLifetime, DmAfterSource, DmAfterIndex
  <2>3. DmTotalsKept
    BY <2>2 DEF DmIInv, DmTotals, DmTotalsKept
  <2>4. DmHitsKept
    BY <2>2 DEF DmIInv, DmHits, DmHitsHeld, DmHitsExact, DmHitsKept
  <2>5. DmUpgradeIndexed
    BY DEF DmIInv, DmSearched, DmUpgradeIndexed, DmAfterIndex, DmBeforeCreate
  <2> QED
    BY <2>1, <2>3, <2>4, <2>5 DEF DmHistoryKept
<1> QED
  BY <1>1, DmInvariant, PTL

------------------------------------------------------------------------------
(* A change of the directory: the invariant StIInv follows it through its   *)
(* stages.  The locator file is the only thing that a crash leaves of it,   *)
(* so StUsed and StLeft are about the locator alone: the directory in use   *)
(* has its database, and a directory still to be cleaned up holds a copy of *)
(* it at most.  StMoving, StAdopting and StWriting say what the start-up    *)
(* knows at each stage before it writes the locator, which is what makes    *)
(* the switch invisible, or the one that the user has asked for.            *)
StSame(c, e) == c.origin = e.origin /\ c.saves = e.saves

StTypes ==
    /\ locator \in Locators /\ target \in Locators
    /\ DOMAIN database \in SUBSET Directories /\ database \in [DOMAIN database -> Databases]
    /\ DOMAIN filterFiles \in SUBSET Directories /\ filterFiles \in [DOMAIN filterFiles -> FilterContents]
    /\ backups \in SUBSET (Directories \X Databases)
    /\ offline \in SUBSET Directories /\ DefaultDirectory \notin offline
    /\ stage \in Stages /\ storageFaults \in 0..MaxStorageFaults

StLocator ==
    /\ DataDir(locator) \notin {locator.pending, locator.cleanup}
    /\ (locator.pending = NoDirectory) <=> (locator.action = "none")
    /\ locator.pending # NoDirectory => locator.cleanup = NoDirectory

(* The directory in use has a database once it was chosen or opened. *)
StUsed ==
    \/ locator.data # NoDirectory \/ locator.pending # NoDirectory \/ locator.cleanup # NoDirectory
    \/ stage \in {"cleanup", "cleanup_filters", "cleanup_done", "run"}
    => DataDir(locator) \in DOMAIN database

(* What is left in a directory to be cleaned up is in use elsewhere. *)
StLeft ==
    /\ stage = "run" => locator.cleanup = NoDirectory
    /\ stage \in {"cleanup_filters", "cleanup_done"} => locator.cleanup # NoDirectory
    /\ locator.cleanup \in DOMAIN database => StSame(database[locator.cleanup], database[DataDir(locator)])

StMoving ==
    stage \in {"backup", "copy_filters", "enable_database", "enable_filters", "undo_database", "undo_filters"} =>
        /\ DataDir(target) = locator.pending /\ target.cleanup = DataDir(locator)
        /\ target.pending = NoDirectory /\ target.action = "none"
        /\ locator.action = "migrate"
        /\ DataDir(target) \notin DOMAIN filterFiles
        /\ stage \in {"backup", "copy_filters", "enable_database"} => DataDir(target) \notin DOMAIN database
        /\ stage = "enable_filters" => DataDir(target) \in DOMAIN database
        /\ DataDir(target) \in DOMAIN database => StSame(database[DataDir(target)], database[DataDir(locator)])

StAdopting ==
    stage \in {"adopt", "upgrade"} =>
        /\ DataDir(target) = locator.pending /\ target.cleanup = NoDirectory
        /\ target.pending = NoDirectory /\ target.action = "none"
        /\ locator.action = "use_existing"
        /\ DataDir(target) \in DOMAIN database
        /\ stage = "upgrade" => <<DataDir(target), database[DataDir(target)]>> \in backups

(* The three ways to the locator that is written. *)
StKept == target.data = locator.data /\ target.cleanup = locator.cleanup
StMoved == /\ locator.action = "migrate" /\ target.cleanup = DataDir(locator)
           /\ DataDir(target) = locator.pending /\ DataDir(target) \in DOMAIN database
           /\ StSame(database[DataDir(target)], database[DataDir(locator)])
           /\ ContentOf(filterFiles, DataDir(target)) = ContentOf(filterFiles, DataDir(locator))
StAdopted == /\ locator.action = "use_existing" /\ target.cleanup = NoDirectory
             /\ DataDir(target) = locator.pending /\ DataDir(target) \in DOMAIN database
StWriting ==
    stage = "write" => /\ locator.pending # NoDirectory
                       /\ target.pending = NoDirectory /\ target.action = "none"
                       /\ StKept \/ StMoved \/ StAdopted

StIInv == StTypes /\ StLocator /\ StUsed /\ StLeft /\ StMoving /\ StAdopting /\ StWriting

------------------------------------------------------------------------------
(* A database or lists that are put into a directory, or removed from it.   *)
LEMMA StPutDatabase ==
  ASSUME StTypes, NEW d \in Directories, NEW c \in Databases, database' = WithDir(database, d, c)
  PROVE  /\ DOMAIN database' = DOMAIN database \cup {d} /\ DOMAIN database' \in SUBSET Directories
         /\ database' \in [DOMAIN database' -> Databases] /\ database'[d] = c
         /\ \A e \in DOMAIN database : e # d => database'[e] = database[e]
BY DEF StTypes, WithDir

LEMMA StPutLists ==
  ASSUME StTypes, NEW d \in Directories, NEW c \in FilterContents, filterFiles' = WithDir(filterFiles, d, c)
  PROVE  /\ DOMAIN filterFiles' = DOMAIN filterFiles \cup {d} /\ DOMAIN filterFiles' \in SUBSET Directories
         /\ filterFiles' \in [DOMAIN filterFiles' -> FilterContents] /\ filterFiles'[d] = c
         /\ \A e \in DOMAIN filterFiles : e # d => filterFiles'[e] = filterFiles[e]
BY DEF StTypes, WithDir

LEMMA StDropDatabase ==
  ASSUME StTypes, NEW d, database' = WithoutDir(database, d)
  PROVE  /\ DOMAIN database' = DOMAIN database \ {d} /\ DOMAIN database' \in SUBSET Directories
         /\ database' \in [DOMAIN database' -> Databases]
         /\ \A e \in DOMAIN database : e # d => database'[e] = database[e]
BY DEF StTypes, WithoutDir, Restrict

LEMMA StDropLists ==
  ASSUME StTypes, NEW d, filterFiles' = WithoutDir(filterFiles, d)
  PROVE  /\ DOMAIN filterFiles' = DOMAIN filterFiles \ {d} /\ DOMAIN filterFiles' \in SUBSET Directories
         /\ filterFiles' \in [DOMAIN filterFiles' -> FilterContents]
         /\ \A e \in DOMAIN filterFiles : e # d => filterFiles'[e] = filterFiles[e]
BY DEF StTypes, WithoutDir, Restrict

(* A locator stands for a directory; the one for a directory, for it.       *)
LEMMA StDirectory ==
  ASSUME NEW l \in Locators
  PROVE  DataDir(l) \in Directories /\ (l.data # NoDirectory => DataDir(l) = l.data)
BY StorageConstants DEF Locators, Targets, DataDir

LEMMA StCustom ==
  ASSUME NEW d \in Directories
  PROVE  /\ CustomDataDir(d) \in Targets
         /\ \A l \in Locators : l.data = CustomDataDir(d) => DataDir(l) = d
BY StorageConstants DEF Targets, CustomDataDir, DataDir

(* The locator without the wish.                                            *)
LEMMA StWithoutWish ==
  ASSUME NEW l \in Locators, NEW m, m = [l EXCEPT !.pending = NoDirectory, !.action = "none"]
  PROVE  /\ m \in Locators /\ m.data = l.data /\ m.cleanup = l.cleanup
         /\ m.pending = NoDirectory /\ m.action = "none" /\ DataDir(m) = DataDir(l)
BY DEF Locators, Targets, DataDir

LEMMA StNoLocator == /\ NoLocator \in Locators /\ NoLocator.pending = NoDirectory
                     /\ NoLocator.action = "none" /\ NoLocator.cleanup = NoDirectory
                     /\ NoLocator.data = NoDirectory
BY DEF NoLocator, Locators, Targets

(* A step uses up at most one fault.                                        *)
LEMMA StBudget ==
  ASSUME StTypes, NEW s, NextStage(s) \/ FailTo(s)
  PROVE  storageFaults' \in 0..MaxStorageFaults /\ stage' = s /\ offline' = offline
BY StorageConstants DEF StTypes, NextStage, FailTo, StorageFault

(* Before the first start.                                                  *)
LEMMA StInitial == StorageInit => StIInv
<1> SUFFICES ASSUME StorageInit PROVE StIInv
  OBVIOUS
<1>1. database \in [{LegacyDirectory} -> Databases] /\ filterFiles \in [{LegacyDirectory} -> FilterContents]
  BY StorageConstants DEF StorageInit, Databases, FilterContents
<1>2. DOMAIN database = {LegacyDirectory} /\ DOMAIN filterFiles = {LegacyDirectory}
  BY <1>1
<1>3. StTypes
  BY <1>1, <1>2, StNoLocator, StorageConstants DEF StorageInit, StTypes, Stages
<1>4. StLocator /\ StUsed /\ StLeft
  BY <1>2, StNoLocator, StorageConstants DEF StorageInit, StLocator, StUsed, StLeft, DataDir
<1>5. StMoving /\ StAdopting /\ StWriting
  BY DEF StorageInit, StMoving, StAdopting, StWriting
<1> QED
  BY <1>3, <1>4, <1>5 DEF StIInv

(* Where the start-up has nothing in hand only the files count.             *)
LEMMA StIdle ==
  ASSUME StIInv, StTypes', UNCHANGED <<locator, database>>, stage' \in {"down", "initialize", "open"}
  PROVE  StIInv'
BY DEF StIInv, StLocator, StUsed, StLeft, StMoving, StAdopting, StWriting, DataDir, StSame

LEMMA StEndsKeep ==
  ASSUME StIInv,
         \/ InitializeFails \/ CleanupFails \/ StorageStop \/ StorageCrash
         \/ \E d \in Directories : VolumeChanges(d)
  PROVE  StIInv'
<1>1. CASE InitializeFails \/ CleanupFails \/ StorageStop \/ StorageCrash
  <2>1. NextStage("down") \/ FailTo("down")
    BY <1>1 DEF InitializeFails, CleanupFails, StorageStop, StorageCrash
  <2>2. UNCHANGED <<locator, database, filterFiles>>
    BY <1>1 DEF InitializeFails, CleanupFails, StorageStop, StorageCrash
  <2>3. target' \in Locators /\ backups' \in SUBSET (Directories \X Databases)
    BY <1>1, StNoLocator DEF InitializeFails, CleanupFails, StorageStop, StorageCrash, StIInv, StTypes
  <2>4. StTypes'
    BY <2>1, <2>2, <2>3, StBudget DEF StIInv, StTypes, Stages
  <2> QED
    BY <2>1, <2>2, <2>4, StIdle, StBudget DEF StIInv
<1>2. ASSUME NEW d \in Directories, VolumeChanges(d) PROVE StIInv'
  <2>1. storageFaults' \in 0..MaxStorageFaults /\ offline' \in SUBSET Directories
        /\ DefaultDirectory \notin offline'
    BY <1>2, StorageConstants DEF VolumeChanges, StorageFault, StIInv, StTypes
  <2>2. StTypes'
    BY <1>2, <2>1 DEF VolumeChanges, StIInv, StTypes
  <2> QED
    BY <1>2, <2>2, StIdle DEF VolumeChanges
<1> QED
  BY <1>1, <1>2

(* A service without data takes over a directory that has a database; it    *)
(* waits for no change, since then it would have data.                      *)
LEMMA StPrepareKeeps == StIInv /\ PrepareServiceStorage => StIInv'
<1> SUFFICES ASSUME StIInv, PrepareServiceStorage PROVE StIInv'
  OBVIOUS
<1>1. /\ storageFaults' \in 0..MaxStorageFaults /\ stage' = "initialize"
      /\ UNCHANGED <<database, filterFiles, backups, target, offline>>
  BY StBudget DEF PrepareServiceStorage, StIInv
<1>2. CASE locator' = locator
  <2>1. StTypes'
    BY <1>1, <1>2 DEF StIInv, StTypes, Stages
  <2> QED
    BY <1>1, <1>2, <2>1, StIdle
<1>3. CASE locator' # locator
  <2>1. /\ locator.data = NoDirectory /\ ~ DatabaseExists(DefaultDirectory) /\ DatabaseExists(LegacyDirectory)
        /\ locator' = [locator EXCEPT !.data = LegacyDirectory]
    BY <1>3 DEF PrepareServiceStorage
  <2>2. LegacyDirectory \in DOMAIN database /\ DefaultDirectory \notin DOMAIN database
    BY <2>1 DEF DatabaseExists, StIInv, StTypes
  <2>3. locator.pending = NoDirectory /\ locator.cleanup = NoDirectory
    BY <2>1, <2>2 DEF StIInv, StUsed, DataDir
  <2>4. /\ locator' \in Locators /\ locator'.data = LegacyDirectory /\ locator'.pending = NoDirectory
        /\ locator'.cleanup = NoDirectory /\ locator'.action = locator.action
    BY <2>1, <2>3, StorageConstants DEF StIInv, StTypes, Locators, Targets
  <2>5. StTypes'
    BY <1>1, <2>4 DEF StIInv, StTypes, Stages
  <2>6. DataDir(locator') = LegacyDirectory
    BY <2>4, StorageConstants DEF DataDir
  <2>7. NoDirectory \notin DOMAIN database
    BY StorageConstants DEF StIInv, StTypes
  <2>8. StLocator' /\ StUsed' /\ StLeft'
    BY <1>1, <2>2, <2>3, <2>4, <2>6, <2>7, StorageConstants DEF StIInv, StLocator, StUsed, StLeft, DataDir
  <2>9. StMoving' /\ StAdopting' /\ StWriting'
    BY <1>1 DEF StMoving, StAdopting, StWriting
  <2> QED
    BY <2>5, <2>8, <2>9 DEF StIInv
<1> QED
  BY <1>2, <1>3

(* The start-up takes a wish in hand.                                       *)
LEMMA StInitializeKeeps == StIInv /\ InitializeAt => StIInv'
<1> SUFFICES ASSUME StIInv, InitializeAt PROVE StIInv'
  OBVIOUS
<1>1. UNCHANGED <<locator, database, filterFiles, backups>>
  BY DEF InitializeAt
<1>2. PICK p : p = locator.pending
  OBVIOUS
<1>3. PICK taken : taken = [locator EXCEPT !.pending = NoDirectory, !.action = "none"]
  OBVIOUS
<1>4. /\ taken \in Locators /\ taken.data = locator.data /\ taken.cleanup = locator.cleanup
      /\ taken.pending = NoDirectory /\ taken.action = "none"
  BY <1>3, StWithoutWish DEF StIInv, StTypes
<1>5. CASE p = NoDirectory
  <2>1. target' = NoLocator /\ NextStage("open")
    BY <1>2, <1>5 DEF InitializeAt
  <2>2. StTypes'
    BY <1>1, <2>1, StBudget, StNoLocator DEF StIInv, StTypes, Stages
  <2> QED
    BY <1>1, <2>1, <2>2, StIdle, StBudget DEF StIInv
<1>6. CASE p # NoDirectory
  <2>1. p \in Directories /\ p # DataDir(locator)
    BY <1>2, <1>6 DEF StIInv, StTypes, StLocator, Locators, Targets
  <2>2. StLocator' /\ DataDir(locator) \in DOMAIN database
    BY <1>1, <1>2, <1>6 DEF StIInv, StLocator, StUsed, DataDir
  <2>3. CASE target' = taken /\ NextStage("write")
    <3>1. StTypes'
      BY <1>1, <1>4, <2>3, StBudget DEF StIInv, StTypes, Stages
    <3>2. StUsed' /\ StLeft' /\ StMoving' /\ StAdopting'
      BY <1>1, <2>3 DEF NextStage, StIInv, StUsed, StLeft, StMoving, StAdopting, DataDir, StSame
    <3>3. StWriting'
      BY <1>1, <1>2, <1>4, <1>6, <2>3 DEF StWriting, StKept
    <3> QED
      BY <2>2, <3>1, <3>2, <3>3 DEF StIInv
  <2>4. PICK moved : moved = [taken EXCEPT !.data = CustomDataDir(p)]
    OBVIOUS
  <2>5. ASSUME NEW c \in Targets, NEW m, m = [moved EXCEPT !.cleanup = c]
        PROVE  /\ m \in Locators /\ m.pending = NoDirectory /\ m.action = "none" /\ m.cleanup = c
               /\ DataDir(m) = p
    <3>1. CustomDataDir(p) \in Targets
      BY <2>1, StCustom
    <3>2. /\ m \in Locators /\ m.pending = NoDirectory /\ m.action = "none" /\ m.cleanup = c
          /\ m.data = CustomDataDir(p)
      BY <1>4, <2>4, <2>5, <3>1 DEF Locators, Targets
    <3> QED
      BY <2>1, <3>2, StCustom
  <2>6. CASE /\ locator.action = "migrate" /\ TargetAvailable(p) /\ DatabaseExists(DataDir(locator))
             /\ target' = [moved EXCEPT !.cleanup = DataDir(locator)] /\ NextStage("backup")
    <3>1. DataDir(locator) \in Targets
      BY StDirectory DEF StIInv, StTypes, Targets
    <3>2. /\ target' \in Locators /\ target'.pending = NoDirectory /\ target'.action = "none"
          /\ target'.cleanup = DataDir(locator) /\ DataDir(target') = p
      BY <2>5, <2>6, <3>1
    <3>3. StTypes'
      BY <1>1, <2>6, <3>2, StBudget DEF StIInv, StTypes, Stages
    <3>4. StUsed' /\ StLeft' /\ StAdopting' /\ StWriting'
      BY <1>1, <2>6 DEF NextStage, StIInv, StUsed, StLeft, StAdopting, StWriting, DataDir, StSame
    <3>5. p \notin DOMAIN database /\ p \notin DOMAIN filterFiles
      BY <2>6 DEF TargetAvailable
    <3>6. StMoving'
      BY <1>1, <1>2, <2>6, <3>2, <3>5 DEF NextStage, StMoving, DataDir
    <3> QED
      BY <2>2, <3>3, <3>4, <3>6 DEF StIInv
  <2>7. CASE /\ locator.action = "use_existing" /\ Adoptable(p)
             /\ target' = [moved EXCEPT !.cleanup = NoDirectory] /\ NextStage("adopt")
    <3>1. /\ target' \in Locators /\ target'.pending = NoDirectory /\ target'.action = "none"
          /\ target'.cleanup = NoDirectory /\ DataDir(target') = p
      BY <2>5, <2>7 DEF Targets
    <3>2. StTypes'
      BY <1>1, <2>7, <3>1, StBudget DEF StIInv, StTypes, Stages
    <3>3. StUsed' /\ StLeft' /\ StMoving' /\ StWriting'
      BY <1>1, <2>7 DEF NextStage, StIInv, StUsed, StLeft, StMoving, StWriting, DataDir, StSame
    <3>4. p \in DOMAIN database
      BY <2>7 DEF Adoptable, DatabaseExists
    <3>5. StAdopting'
      BY <1>1, <1>2, <2>7, <3>1, <3>4 DEF NextStage, StAdopting, DataDir
    <3> QED
      BY <2>2, <3>2, <3>3, <3>5 DEF StIInv
  <2> QED
    BY <1>2, <1>3, <1>6, <2>3, <2>4, <2>6, <2>7 DEF InitializeAt
<1> QED
  BY <1>5, <1>6

(* Copies under temporary names, and the turn to the undo, change no file   *)
(* that counts.                                                             *)
LEMMA StCopyKeeps == StIInv /\ (BackupDatabase \/ CopyFilters \/ MigrationFails) => StIInv'
<1> SUFFICES ASSUME StIInv, BackupDatabase \/ CopyFilters \/ MigrationFails PROVE StIInv'
  OBVIOUS
<1>1. UNCHANGED <<locator, database, filterFiles, backups, target>>
  BY DEF BackupDatabase, CopyFilters, MigrationFails
<1>2. PICK s \in {"copy_filters", "enable_database", "undo_database"} :
         /\ NextStage(s) \/ FailTo(s)
         /\ s # "undo_database" => stage \in {"backup", "copy_filters"}
  BY DEF BackupDatabase, CopyFilters, MigrationFails
<1>3. stage \in {"backup", "copy_filters", "enable_database", "enable_filters"}
  BY DEF BackupDatabase, CopyFilters, MigrationFails
<1>4. stage' = s
  BY <1>2, StBudget DEF StIInv
<1>5. StTypes'
  BY <1>1, <1>2, StBudget DEF StIInv, StTypes, Stages
<1>6. StLocator' /\ StUsed' /\ StLeft' /\ StAdopting' /\ StWriting'
  BY <1>1, <1>3, <1>4 DEF StIInv, StLocator, StUsed, StLeft, StAdopting, StWriting, DataDir, StSame
<1>7. StMoving'
  BY <1>1, <1>2, <1>3, <1>4 DEF StIInv, StMoving, DataDir, StSame
<1> QED
  BY <1>5, <1>6, <1>7 DEF StIInv

(* The database is renamed into a directory that has none.                  *)
LEMMA StEnableDatabaseKeeps == StIInv /\ EnableDatabase => StIInv'
<1> SUFFICES ASSUME StIInv, EnableDatabase PROVE StIInv'
  OBVIOUS
<1>1. PICK d \in Directories : d = DataDir(target)
  BY StDirectory DEF StIInv, StTypes
<1>2. PICK e \in Directories : e = DataDir(locator)
  BY StDirectory DEF StIInv, StTypes
<1>3. stage = "enable_database" /\ UNCHANGED <<locator, filterFiles, backups, target>>
  BY DEF EnableDatabase
<1>4. /\ d = locator.pending /\ d # NoDirectory /\ d # e /\ d \notin DOMAIN database
      /\ locator.cleanup = NoDirectory
  BY <1>1, <1>2, <1>3, StorageConstants DEF StIInv, StMoving, StLocator
<1>5. e \in DOMAIN database
  BY <1>2, <1>4 DEF StIInv, StUsed
<1>6. /\ DOMAIN database' = DOMAIN database \cup {d} /\ database' \in [DOMAIN database' -> Databases]
      /\ database'[d] = database[e]
      /\ \A x \in DOMAIN database : x # d => database'[x] = database[x]
  <2>1. database' = WithDir(database, d, database[e]) /\ database[e] \in Databases
    BY <1>1, <1>2, <1>5 DEF EnableDatabase, StIInv, StTypes
  <2> QED
    BY <2>1, StPutDatabase DEF StIInv
<1>7. stage' = "enable_filters" /\ storageFaults' \in 0..MaxStorageFaults /\ offline' = offline
  BY StBudget DEF EnableDatabase, StIInv
<1>8. StTypes'
  BY <1>3, <1>6, <1>7 DEF StIInv, StTypes, Stages
<1>9. StLocator' /\ StAdopting' /\ StWriting'
  BY <1>3, <1>7 DEF StIInv, StLocator, StAdopting, StWriting, DataDir
<1>10. StUsed' /\ StLeft'
  BY <1>2, <1>3, <1>4, <1>5, <1>6, <1>7, StorageConstants DEF StIInv, StTypes, StUsed, StLeft, DataDir
<1>11. StMoving'
  BY <1>1, <1>2, <1>3, <1>4, <1>5, <1>6, <1>7 DEF StIInv, StMoving, DataDir, StSame
<1> QED
  BY <1>8, <1>9, <1>10, <1>11 DEF StIInv

(* The lists follow, into a directory that has none: both directories hold  *)
(* the same now.                                                            *)
LEMMA StEnableFiltersKeeps == StIInv /\ EnableFilters => StIInv'
<1> SUFFICES ASSUME StIInv, EnableFilters PROVE StIInv'
  OBVIOUS
<1>1. PICK d \in Directories : d = DataDir(target)
  BY StDirectory DEF StIInv, StTypes
<1>2. PICK e \in Directories : e = DataDir(locator)
  BY StDirectory DEF StIInv, StTypes
<1>3. stage = "enable_filters" /\ UNCHANGED <<locator, database, backups, target>>
  BY DEF EnableFilters
<1>4. /\ d = locator.pending /\ d # NoDirectory /\ d # e /\ d \notin DOMAIN filterFiles
      /\ locator.cleanup = NoDirectory
  BY <1>1, <1>2, <1>3, StorageConstants DEF StIInv, StMoving, StLocator
<1>5. /\ DOMAIN filterFiles' \in SUBSET Directories /\ filterFiles' \in [DOMAIN filterFiles' -> FilterContents]
      /\ ContentOf(filterFiles', d) = ContentOf(filterFiles', e)
  <2>1. CASE e \in DOMAIN filterFiles
    <3>1. filterFiles' = WithDir(filterFiles, d, filterFiles[e]) /\ filterFiles[e] \in FilterContents
      BY <1>1, <1>2, <2>1 DEF EnableFilters, StIInv, StTypes
    <3>2. /\ DOMAIN filterFiles' = DOMAIN filterFiles \cup {d} /\ DOMAIN filterFiles' \in SUBSET Directories
          /\ filterFiles' \in [DOMAIN filterFiles' -> FilterContents] /\ filterFiles'[d] = filterFiles[e]
          /\ \A x \in DOMAIN filterFiles : x # d => filterFiles'[x] = filterFiles[x]
      BY <3>1, StPutLists DEF StIInv
    <3>3. d \in DOMAIN filterFiles' /\ e \in DOMAIN filterFiles' /\ filterFiles'[d] = filterFiles'[e]
      BY <1>4, <2>1, <3>2
    <3> QED
      BY <3>2, <3>3 DEF ContentOf
  <2>2. CASE e \notin DOMAIN filterFiles
    <3>1. filterFiles' = filterFiles
      BY <1>2, <2>2 DEF EnableFilters
    <3> QED
      BY <1>4, <2>2, <3>1 DEF ContentOf, StIInv, StTypes
  <2> QED
    BY <2>1, <2>2
<1>6. stage' = "write" /\ storageFaults' \in 0..MaxStorageFaults /\ offline' = offline
  BY StBudget DEF EnableFilters, StIInv
<1>7. StTypes'
  BY <1>3, <1>5, <1>6 DEF StIInv, StTypes, Stages
<1>8. StLocator' /\ StUsed' /\ StLeft' /\ StMoving' /\ StAdopting'
  BY <1>3, <1>6 DEF StIInv, StLocator, StUsed, StLeft, StMoving, StAdopting, DataDir, StSame
<1>9. StMoved'
  BY <1>1, <1>2, <1>3, <1>5 DEF StIInv, StMoving, StMoved, DataDir, StSame
<1>10. StWriting'
  BY <1>1, <1>3, <1>4, <1>9 DEF StIInv, StMoving, StWriting
<1> QED
  BY <1>7, <1>8, <1>10 DEF StIInv

(* The undo removes the copy, and only the copy.                            *)
LEMMA StUndoDatabaseKeeps == StIInv /\ UndoDatabase => StIInv'
<1> SUFFICES ASSUME StIInv, UndoDatabase PROVE StIInv'
  OBVIOUS
<1>1. PICK d \in Directories : d = DataDir(target)
  BY StDirectory DEF StIInv, StTypes
<1>2. PICK e \in Directories : e = DataDir(locator)
  BY StDirectory DEF StIInv, StTypes
<1>3. stage = "undo_database" /\ UNCHANGED <<locator, filterFiles, backups, target>>
  BY DEF UndoDatabase
<1>4. d = locator.pending /\ d # NoDirectory /\ d # e /\ locator.cleanup = NoDirectory
  BY <1>1, <1>2, <1>3, StorageConstants DEF StIInv, StMoving, StLocator
<1>5. /\ DOMAIN database' \in SUBSET Directories /\ database' \in [DOMAIN database' -> Databases]
      /\ DOMAIN database' \subseteq DOMAIN database
      /\ \A x \in DOMAIN database : x # d => x \in DOMAIN database' /\ database'[x] = database[x]
      /\ d \in DOMAIN database' => database'[d] = database[d]
  <2>1. CASE database' = WithoutDir(database, d)
    <3>1. /\ DOMAIN database' = DOMAIN database \ {d} /\ DOMAIN database' \in SUBSET Directories
          /\ database' \in [DOMAIN database' -> Databases]
          /\ \A x \in DOMAIN database : x # d => database'[x] = database[x]
      BY <2>1, StDropDatabase DEF StIInv
    <3> QED
      BY <3>1
  <2>2. CASE UNCHANGED database
    BY <2>2 DEF StIInv, StTypes
  <2> QED
    BY <1>1, <2>1, <2>2 DEF UndoDatabase
<1>6. stage' = "undo_filters" /\ storageFaults' \in 0..MaxStorageFaults /\ offline' = offline
  BY StBudget DEF UndoDatabase, StIInv
<1>7. StTypes'
  BY <1>3, <1>5, <1>6 DEF StIInv, StTypes, Stages
<1>8. e \in DOMAIN database
  BY <1>2, <1>4 DEF StIInv, StUsed
<1>9. StLocator' /\ StAdopting' /\ StWriting'
  BY <1>3, <1>6 DEF StIInv, StLocator, StAdopting, StWriting, DataDir
<1>10. StUsed' /\ StLeft'
  BY <1>2, <1>3, <1>4, <1>5, <1>6, <1>8, StorageConstants DEF StIInv, StTypes, StUsed, StLeft, DataDir
<1>11. StMoving'
  BY <1>1, <1>2, <1>3, <1>4, <1>5, <1>6, <1>8 DEF StIInv, StMoving, DataDir, StSame
<1> QED
  BY <1>7, <1>9, <1>10, <1>11 DEF StIInv

(* The wish is dropped and everything else of the locator stays.            *)
LEMMA StKeepOld ==
  ASSUME StIInv, KeepOldDirectory, UNCHANGED locator, locator.pending # NoDirectory
  PROVE  /\ target' \in Locators /\ target'.pending = NoDirectory /\ target'.action = "none"
         /\ StKept'
<1>1. /\ target' \in Locators /\ target'.pending = NoDirectory /\ target'.action = "none"
      /\ target'.data = locator.data /\ target'.cleanup = locator.cleanup
  BY StWithoutWish DEF KeepOldDirectory, StIInv, StTypes
<1> QED
  BY <1>1 DEF StKept

LEMMA StUndoFiltersKeeps == StIInv /\ UndoFilters => StIInv'
<1> SUFFICES ASSUME StIInv, UndoFilters PROVE StIInv'
  OBVIOUS
<1>1. stage = "undo_filters" /\ KeepOldDirectory /\ UNCHANGED <<locator, database, backups>>
  BY DEF UndoFilters
<1>2. locator.pending # NoDirectory
  BY <1>1 DEF StIInv, StMoving, StLocator
<1>3. target' \in Locators /\ target'.pending = NoDirectory /\ target'.action = "none" /\ StKept'
  BY <1>1, <1>2, StKeepOld
<1>4. DOMAIN filterFiles' \in SUBSET Directories /\ filterFiles' \in [DOMAIN filterFiles' -> FilterContents]
  <2>1. CASE filterFiles' = WithoutDir(filterFiles, DataDir(target))
    BY <2>1, StDropLists DEF StIInv
  <2>2. CASE UNCHANGED filterFiles
    BY <2>2 DEF StIInv, StTypes
  <2> QED
    BY <2>1, <2>2 DEF UndoFilters
<1>5. stage' = "write" /\ storageFaults' \in 0..MaxStorageFaults /\ offline' = offline
  BY StBudget DEF UndoFilters, StIInv
<1>6. StTypes'
  BY <1>1, <1>3, <1>4, <1>5 DEF StIInv, StTypes, Stages
<1>7. StLocator' /\ StUsed' /\ StLeft' /\ StMoving' /\ StAdopting'
  BY <1>1, <1>5 DEF StIInv, StLocator, StUsed, StLeft, StMoving, StAdopting, DataDir, StSame
<1>8. StWriting'
  BY <1>1, <1>2, <1>3 DEF StWriting
<1> QED
  BY <1>6, <1>7, <1>8 DEF StIInv

(* An adoption begins with the backup of what it will upgrade.              *)
LEMMA StAdoptBackupKeeps == StIInv /\ AdoptBackup => StIInv'
<1> SUFFICES ASSUME StIInv, AdoptBackup PROVE StIInv'
  OBVIOUS
<1>1. stage = "adopt" /\ UNCHANGED <<locator, database, filterFiles, target>>
  BY DEF AdoptBackup
<1>2. stage' = "upgrade" /\ storageFaults' \in 0..MaxStorageFaults /\ offline' = offline
  BY StBudget DEF AdoptBackup, StIInv
<1>3. DataDir(target) \in DOMAIN database
  BY <1>1 DEF StIInv, StAdopting
<1>4. backups' = {<<DataDir(target), database[DataDir(target)]>>}
  BY DEF AdoptBackup
<1>5. backups' \in SUBSET (Directories \X Databases)
  BY <1>3, <1>4 DEF StIInv, StTypes
<1>6. StTypes'
  BY <1>1, <1>2, <1>5 DEF StIInv, StTypes, Stages
<1>7. StLocator' /\ StUsed' /\ StLeft' /\ StMoving' /\ StWriting'
  BY <1>1, <1>2 DEF StIInv, StLocator, StUsed, StLeft, StMoving, StWriting, DataDir, StSame
<1>8. StAdopting'
  BY <1>1, <1>2, <1>4 DEF StIInv, StAdopting, DataDir
<1> QED
  BY <1>6, <1>7, <1>8 DEF StIInv

(* The upgrade changes the form of the adopted database and nothing else.   *)
LEMMA StUpgradeAdoptedKeeps == StIInv /\ UpgradeAdopted => StIInv'
<1> SUFFICES ASSUME StIInv, UpgradeAdopted PROVE StIInv'
  OBVIOUS
<1>1. stage = "upgrade" /\ UNCHANGED <<locator, filterFiles, backups>>
  BY DEF UpgradeAdopted
<1>2. PICK d \in Directories : d = DataDir(target) /\ d \in DOMAIN database
  BY <1>1, StDirectory DEF StIInv, StTypes, StAdopting
<1>3. stage' = "write" /\ storageFaults' \in 0..MaxStorageFaults /\ offline' = offline
  BY StBudget DEF UpgradeAdopted, StIInv
<1>4. /\ DOMAIN database' = DOMAIN database /\ database' \in [DOMAIN database' -> Databases]
      /\ \A x \in DOMAIN database : StSame(database'[x], database[x])
  <2>1. database' = [database EXCEPT ![d].form = "current"]
    BY <1>2 DEF UpgradeAdopted
  <2>2. [database[d] EXCEPT !.form = "current"] \in Databases
        /\ StSame([database[d] EXCEPT !.form = "current"], database[d])
    BY <1>2 DEF StIInv, StTypes, Databases, StSame
  <2> QED
    BY <1>2, <2>1, <2>2 DEF StIInv, StTypes, StSame
<1>5. locator.pending # NoDirectory
  BY <1>1 DEF StIInv, StAdopting, StLocator
<1>6. /\ target' \in Locators /\ target'.pending = NoDirectory /\ target'.action = "none"
      /\ StKept' \/ StAdopted'
  <2>1. CASE UNCHANGED target
    BY <1>1, <1>4, <2>1 DEF StIInv, StTypes, StAdopting, StAdopted, DataDir
  <2>2. CASE KeepOldDirectory
    BY <1>1, <1>5, <2>2, StKeepOld
  <2> QED
    BY <2>1, <2>2 DEF UpgradeAdopted
<1>7. StTypes'
  BY <1>1, <1>3, <1>4, <1>6 DEF StIInv, StTypes, Stages
<1>8. StLocator' /\ StUsed' /\ StMoving' /\ StAdopting'
  BY <1>1, <1>3, <1>4 DEF StIInv, StLocator, StUsed, StMoving, StAdopting, DataDir
<1>9. StLeft'
  <2>1. locator.cleanup = NoDirectory /\ NoDirectory \notin DOMAIN database
    BY <1>5, StorageConstants DEF StIInv, StLocator, StTypes
  <2> QED
    BY <1>1, <1>3, <1>4, <2>1 DEF StLeft
<1>10. StWriting'
  BY <1>1, <1>5, <1>6 DEF StWriting
<1> QED
  BY <1>7, <1>8, <1>9, <1>10 DEF StIInv

LEMMA StAdoptionFailsKeeps == StIInv /\ AdoptionFails => StIInv'
<1> SUFFICES ASSUME StIInv, AdoptionFails PROVE StIInv'
  OBVIOUS
<1>1. /\ stage \in {"adopt", "upgrade"} /\ KeepOldDirectory
      /\ UNCHANGED <<locator, database, filterFiles, backups>>
  BY DEF AdoptionFails
<1>2. locator.pending # NoDirectory
  BY <1>1 DEF StIInv, StAdopting, StLocator
<1>3. target' \in Locators /\ target'.pending = NoDirectory /\ target'.action = "none" /\ StKept'
  BY <1>1, <1>2, StKeepOld
<1>4. stage' = "write" /\ storageFaults' \in 0..MaxStorageFaults /\ offline' = offline
  BY StBudget DEF AdoptionFails, StIInv
<1>5. StTypes'
  BY <1>1, <1>3, <1>4 DEF StIInv, StTypes, Stages
<1>6. StLocator' /\ StUsed' /\ StLeft' /\ StMoving' /\ StAdopting'
  BY <1>1, <1>4 DEF StIInv, StLocator, StUsed, StLeft, StMoving, StAdopting, DataDir, StSame
<1>7. StWriting'
  BY <1>1, <1>2, <1>3 DEF StWriting
<1> QED
  BY <1>5, <1>6, <1>7 DEF StIInv

(* The switch.  The directory written has a database, and one to be cleaned *)
(* up is the one that was moved from.                                       *)
LEMMA StWriteLocatorKeeps == StIInv /\ WriteLocator => StIInv'
<1> SUFFICES ASSUME StIInv, WriteLocator PROVE StIInv'
  OBVIOUS
<1>1. /\ stage = "write" /\ target' = NoLocator /\ backups' = {} /\ UNCHANGED <<database, filterFiles>>
      /\ stage' \in {"open", "down"} /\ storageFaults' \in 0..MaxStorageFaults /\ offline' = offline
  BY StBudget DEF WriteLocator, StIInv
<1>2. CASE UNCHANGED locator
  <2>1. StTypes'
    BY <1>1, <1>2, StNoLocator DEF StIInv, StTypes, Stages
  <2> QED
    BY <1>1, <1>2, <2>1, StIdle
<1>3. CASE locator' = target
  <2>1. StTypes'
    BY <1>1, <1>3, StNoLocator DEF StIInv, StTypes, Stages
  <2>2. /\ target.pending = NoDirectory /\ target.action = "none" /\ locator.pending # NoDirectory
        /\ locator.cleanup = NoDirectory
        /\ DataDir(locator) \in DOMAIN database /\ DataDir(locator) # locator.pending
    BY <1>1 DEF StIInv, StWriting, StLocator, StUsed
  <2>3. NoDirectory \notin DOMAIN database
    BY StorageConstants DEF StIInv, StTypes
  <2>4. DataDir(target) \in DOMAIN database /\ target.cleanup # DataDir(target)
    <3>1. CASE StKept
      BY <2>2, <2>3, <3>1 DEF StKept, DataDir
    <3>2. CASE StMoved \/ StAdopted
      BY <2>2, <2>3, <3>2 DEF StMoved, StAdopted
    <3> QED
      BY <1>1, <3>1, <3>2 DEF StIInv, StWriting
  <2>5. target.cleanup \in DOMAIN database => StSame(database[target.cleanup], database[DataDir(target)])
    <3>1. CASE StKept \/ StAdopted
      BY <2>2, <2>3, <3>1 DEF StKept, StAdopted
    <3>2. CASE StMoved
      BY <3>2 DEF StMoved, StSame
    <3> QED
      BY <1>1, <3>1, <3>2 DEF StIInv, StWriting
  <2>6. DataDir(locator') = DataDir(target)
    BY <1>3
  <2>7. StLocator'
    BY <1>3, <2>2, <2>3, <2>4 DEF StLocator
  <2>8. StUsed' /\ StLeft'
    BY <1>1, <1>3, <2>4, <2>5 DEF StUsed, StLeft
  <2>9. StMoving' /\ StAdopting' /\ StWriting'
    BY <1>1 DEF StMoving, StAdopting, StWriting
  <2> QED
    BY <2>1, <2>7, <2>8, <2>9 DEF StIInv
<1> QED
  BY <1>2, <1>3 DEF WriteLocator

------------------------------------------------------------------------------
(* The database of the directory in use is created or upgraded.             *)
LEMMA StOpenDatabaseKeeps == StIInv /\ OpenDatabase => StIInv'
<1> SUFFICES ASSUME StIInv, OpenDatabase PROVE StIInv'
  OBVIOUS
<1>1. PICK d \in Directories : d = DataDir(locator)
  BY StDirectory DEF StIInv, StTypes
<1>2. stage = "open" /\ UNCHANGED <<locator, filterFiles, backups, target>>
  BY DEF OpenDatabase
<1>3. storageFaults' \in 0..MaxStorageFaults /\ offline' = offline /\ stage' \in {"cleanup", "down"}
  BY StBudget DEF OpenDatabase, StIInv
<1>4. CASE UNCHANGED database /\ stage' = "down"
  <2>1. StTypes'
    BY <1>2, <1>3, <1>4 DEF StIInv, StTypes, Stages
  <2> QED
    BY <1>2, <1>4, <2>1, StIdle
<1>5. CASE ~ (UNCHANGED database /\ stage' = "down")
  <2>1. PICK c : c = IF d \in DOMAIN database THEN [database[d] EXCEPT !.form = "current"]
                     ELSE [origin |-> d, saves |-> 0, form |-> "current"]
    OBVIOUS
  <2>2. stage' = "cleanup" /\ database' = WithDir(database, d, c)
    BY <1>1, <1>5, <2>1 DEF OpenDatabase, NextStage, FailTo
  <2>3. c \in Databases /\ (d \in DOMAIN database => StSame(c, database[d]))
    BY <2>1, StorageConstants DEF StIInv, StTypes, Databases, StSame
  <2>4. /\ DOMAIN database' = DOMAIN database \cup {d} /\ DOMAIN database' \in SUBSET Directories
        /\ database' \in [DOMAIN database' -> Databases] /\ database'[d] = c
        /\ \A e \in DOMAIN database : e # d => database'[e] = database[e]
    BY <2>2, <2>3, StPutDatabase DEF StIInv
  <2>5. StTypes'
    BY <1>2, <1>3, <2>2, <2>4 DEF StIInv, StTypes, Stages
  <2>6. StLocator' /\ StMoving' /\ StAdopting' /\ StWriting'
    BY <1>2, <2>2 DEF StIInv, StLocator, StMoving, StAdopting, StWriting, DataDir
  <2>7. StUsed'
    BY <1>1, <1>2, <2>4 DEF StUsed, DataDir
  <2>8. StLeft'
    <3>1. locator.cleanup # d
      BY <1>1 DEF StIInv, StLocator
    <3>2. locator.cleanup \in DOMAIN database'
            => /\ locator.cleanup \in DOMAIN database /\ d \in DOMAIN database
               /\ database'[locator.cleanup] = database[locator.cleanup]
      BY <1>1, <2>4, <3>1, StorageConstants DEF StIInv, StUsed, StTypes
    <3>3. locator.cleanup \in DOMAIN database'
            => StSame(database'[locator.cleanup], database'[d])
      BY <1>1, <2>3, <2>4, <3>2 DEF StIInv, StLeft, StSame
    <3> QED
      BY <1>1, <1>2, <2>2, <3>3 DEF StLeft, DataDir
  <2> QED
    BY <2>5, <2>6, <2>7, <2>8 DEF StIInv
<1> QED
  BY <1>4, <1>5

(* Steps of the clean-up that leave at most the directory to be cleaned     *)
(* without its database.                                                    *)
LEMMA StCleanupKeeps == StIInv /\ (CleanupDatabase \/ CleanupFilters) => StIInv'
<1> SUFFICES ASSUME StIInv, CleanupDatabase \/ CleanupFilters PROVE StIInv'
  OBVIOUS
<1>1. UNCHANGED <<locator, backups, target>>
  BY DEF CleanupDatabase, CleanupFilters
<1>2. PICK s \in {"run", "cleanup_filters", "cleanup_done"} :
         /\ NextStage(s) /\ (s = "run" <=> locator.cleanup = NoDirectory)
         /\ stage \in {"cleanup", "cleanup_filters"}
  BY DEF CleanupDatabase, CleanupFilters, StIInv, StLeft
<1>3. stage' = s /\ storageFaults' \in 0..MaxStorageFaults /\ offline' = offline
  BY <1>2, StBudget DEF StIInv
<1>4. /\ DOMAIN database' \in SUBSET DOMAIN database /\ database' \in [DOMAIN database' -> Databases]
      /\ \A x \in DOMAIN database' : database'[x] = database[x]
      /\ \A x \in DOMAIN database : x # locator.cleanup => x \in DOMAIN database'
  <2>1. CASE database' = WithoutDir(database, locator.cleanup)
    <3>1. /\ DOMAIN database' = DOMAIN database \ {locator.cleanup}
          /\ database' \in [DOMAIN database' -> Databases]
          /\ \A x \in DOMAIN database : x # locator.cleanup => database'[x] = database[x]
      BY <2>1, StDropDatabase DEF StIInv
    <3> QED
      BY <3>1
  <2>2. CASE UNCHANGED database
    BY <2>2 DEF StIInv, StTypes
  <2> QED
    BY <2>1, <2>2 DEF CleanupDatabase, CleanupFilters
<1>5. DOMAIN filterFiles' \in SUBSET Directories /\ filterFiles' \in [DOMAIN filterFiles' -> FilterContents]
  <2>1. CASE filterFiles' = WithoutDir(filterFiles, locator.cleanup)
    BY <2>1, StDropLists DEF StIInv
  <2>2. CASE UNCHANGED filterFiles
    BY <2>2 DEF StIInv, StTypes
  <2> QED
    BY <2>1, <2>2 DEF CleanupDatabase, CleanupFilters
<1>6. StTypes'
  BY <1>1, <1>3, <1>4, <1>5 DEF StIInv, StTypes, Stages
<1>7. StLocator' /\ StMoving' /\ StAdopting' /\ StWriting'
  BY <1>1, <1>2, <1>3 DEF StIInv, StLocator, StMoving, StAdopting, StWriting, DataDir
<1>8. DataDir(locator) \in DOMAIN database /\ DataDir(locator) \in DOMAIN database'
  BY <1>2, <1>4 DEF StIInv, StUsed, StLocator
<1>9. StUsed' /\ StLeft'
  BY <1>1, <1>2, <1>3, <1>4, <1>8 DEF StIInv, StUsed, StLeft, DataDir
<1> QED
  BY <1>6, <1>7, <1>9 DEF StIInv

LEMMA StCleanupDoneKeeps == StIInv /\ CleanupDone => StIInv'
<1> SUFFICES ASSUME StIInv, CleanupDone PROVE StIInv'
  OBVIOUS
<1>1. stage = "cleanup_done" /\ UNCHANGED <<database, filterFiles, backups, target>>
  BY DEF CleanupDone
<1>2. /\ locator' \in Locators /\ locator'.data = locator.data /\ locator'.cleanup = NoDirectory
      /\ locator'.pending = locator.pending /\ locator'.action = locator.action
  BY DEF CleanupDone, StIInv, StTypes, Locators, Targets
<1>3. stage' = "run" /\ storageFaults' \in 0..MaxStorageFaults /\ offline' = offline
  BY StBudget DEF CleanupDone, StIInv
<1>4. StTypes'
  BY <1>1, <1>2, <1>3 DEF StIInv, StTypes, Stages
<1>5. DataDir(locator') = DataDir(locator) /\ DataDir(locator) \in DOMAIN database
  BY <1>1, <1>2 DEF DataDir, StIInv, StUsed
<1>6. StLocator' /\ StUsed' /\ StLeft'
  <2>1. NoDirectory \notin DOMAIN database /\ DataDir(locator) # NoDirectory
    BY <1>5, StorageConstants DEF StIInv, StTypes
  <2> QED
    BY <1>1, <1>2, <1>3, <1>5, <2>1 DEF StIInv, StLocator, StUsed, StLeft, DataDir
<1>7. StMoving' /\ StAdopting' /\ StWriting'
  BY <1>3 DEF StMoving, StAdopting, StWriting
<1> QED
  BY <1>4, <1>6, <1>7 DEF StIInv

(* The service saves to the directory in use.                               *)
LEMMA StSaveKeeps == StIInv /\ SaveData => StIInv'
<1> SUFFICES ASSUME StIInv, SaveData PROVE StIInv'
  OBVIOUS
<1>1. stage = "run" /\ UNCHANGED <<locator, backups, offline, stage, target, storageFaults>>
  BY DEF SaveData
<1>2. PICK d \in Directories : d = DataDir(locator) /\ d \in DOMAIN database
  BY <1>1, StDirectory DEF StIInv, StTypes, StUsed
<1>3. /\ DOMAIN database' = DOMAIN database /\ database' \in [DOMAIN database' -> Databases]
      /\ DOMAIN filterFiles' \in SUBSET Directories /\ filterFiles' \in [DOMAIN filterFiles' -> FilterContents]
  <2>1. CASE /\ database[d].saves < MaxSaves /\ database' = [database EXCEPT ![d].saves = @ + 1]
             /\ UNCHANGED filterFiles
    <3>1. [database[d] EXCEPT !.saves = @ + 1] \in Databases
      BY <1>2, <2>1, StorageConstants DEF StIInv, StTypes, Databases
    <3> QED
      BY <1>2, <2>1, <3>1 DEF StIInv, StTypes
  <2>2. CASE /\ UNCHANGED database /\ d \in DOMAIN filterFiles /\ filterFiles[d].saves < MaxSaves
             /\ filterFiles' = [filterFiles EXCEPT ![d].saves = @ + 1]
    <3>1. [filterFiles[d] EXCEPT !.saves = @ + 1] \in FilterContents
      BY <2>2, StorageConstants DEF StIInv, StTypes, FilterContents
    <3> QED
      BY <2>2, <3>1 DEF StIInv, StTypes
  <2>3. CASE UNCHANGED database /\ filterFiles' = WithDir(filterFiles, d, [origin |-> d, saves |-> 0])
    <3>1. [origin |-> d, saves |-> 0] \in FilterContents
      BY StorageConstants DEF FilterContents
    <3>2. DOMAIN filterFiles' \in SUBSET Directories /\ filterFiles' \in [DOMAIN filterFiles' -> FilterContents]
      BY <2>3, <3>1, StPutLists DEF StIInv
    <3> QED
      BY <2>3, <3>2 DEF StIInv, StTypes
  <2> QED
    BY <1>2, <2>1, <2>2, <2>3 DEF SaveData
<1>4. StTypes'
  BY <1>1, <1>3 DEF StIInv, StTypes
<1>5. StLocator' /\ StUsed' /\ StMoving' /\ StAdopting' /\ StWriting'
  BY <1>1, <1>3 DEF StIInv, StLocator, StUsed, StMoving, StAdopting, StWriting, DataDir
<1>6. StLeft'
  BY <1>1, <1>3, StorageConstants DEF StIInv, StTypes, StLeft
<1> QED
  BY <1>4, <1>5, <1>6 DEF StIInv

LEMMA StRequestKeeps == StIInv /\ (\E d \in Directories : RequestStorageChange(d)) => StIInv'
<1> SUFFICES ASSUME StIInv, NEW d \in Directories, RequestStorageChange(d) PROVE StIInv'
  OBVIOUS
<1>1. stage = "run" /\ UNCHANGED <<database, filterFiles, backups, offline, stage, target, storageFaults>>
  BY DEF RequestStorageChange
<1>2. /\ locator' \in Locators /\ locator'.data = locator.data /\ locator'.cleanup = locator.cleanup
      /\ (locator'.pending = NoDirectory) <=> (locator'.action = "none")
      /\ locator'.pending # DataDir(locator)
  <2>1. CASE locator' = [locator EXCEPT !.pending = NoDirectory, !.action = "none"]
    BY <2>1, StDirectory, StorageConstants DEF StIInv, StTypes, Locators, Targets
  <2>2. CASE /\ d # DataDir(locator)
             /\ \E a \in {"use_existing", "migrate"} : locator' = [locator EXCEPT !.pending = d, !.action = a]
    <3>1. PICK a \in {"use_existing", "migrate"} :
                 locator' = [locator EXCEPT !.pending = d, !.action = a]
      BY <2>2
    <3>2. locator \in Locators /\ d \in Targets /\ d # NoDirectory
      BY StorageConstants DEF StIInv, StTypes, Targets
    <3>3. locator' \in Locators
      BY <3>1, <3>2 DEF Locators
    <3>4. /\ locator'.data = locator.data /\ locator'.cleanup = locator.cleanup
          /\ locator'.pending = d /\ locator'.action = a
      BY <3>1, <3>2 DEF Locators
    <3> QED
      BY <2>2, <3>2, <3>3, <3>4
  <2> QED
    BY <2>1, <2>2 DEF RequestStorageChange
<1>3. StTypes'
  BY <1>1, <1>2 DEF StIInv, StTypes
<1>4. DataDir(locator') = DataDir(locator) /\ DataDir(locator) \in DOMAIN database
  BY <1>1, <1>2 DEF DataDir, StIInv, StUsed
<1>5. StLocator' /\ StUsed' /\ StLeft'
  BY <1>1, <1>2, <1>4 DEF StIInv, StLocator, StUsed, StLeft
<1>6. StMoving' /\ StAdopting' /\ StWriting'
  BY <1>1 DEF StMoving, StAdopting, StWriting
<1> QED
  BY <1>3, <1>5, <1>6 DEF StIInv

(* Data of somebody else appear in a directory that is neither in use nor   *)
(* still to be cleaned up.                                                  *)
LEMMA StAppearKeeps == StIInv /\ (\E d \in Directories : DataAppear(d)) => StIInv'
<1> SUFFICES ASSUME StIInv, NEW d \in Directories, DataAppear(d) PROVE StIInv'
  OBVIOUS
<1>1. stage = "down" /\ UNCHANGED <<locator, filterFiles, backups, offline, stage, target>>
  BY DEF DataAppear
<1>2. /\ d \notin DOMAIN database /\ d # locator.cleanup
      /\ storageFaults' \in 0..MaxStorageFaults
  BY StorageConstants DEF DataAppear, TargetAvailable, StorageFault, StIInv, StTypes
<1>3. PICK f \in {"old", "unusable"} : database' = WithDir(database, d, [origin |-> d, saves |-> 0, form |-> f])
  BY DEF DataAppear
<1>4. /\ DOMAIN database' = DOMAIN database \cup {d} /\ DOMAIN database' \in SUBSET Directories
      /\ database' \in [DOMAIN database' -> Databases]
      /\ \A e \in DOMAIN database : e # d => database'[e] = database[e]
  <2>1. [origin |-> d, saves |-> 0, form |-> f] \in Databases
    BY StorageConstants DEF Databases
  <2> QED
    BY <1>3, <2>1, StPutDatabase DEF StIInv
<1>5. StTypes'
  BY <1>1, <1>2, <1>4 DEF StIInv, StTypes
<1>6. StLocator' /\ StUsed' /\ StMoving' /\ StAdopting' /\ StWriting'
  BY <1>1, <1>4 DEF StIInv, StLocator, StUsed, StMoving, StAdopting, StWriting, DataDir
<1>7. StLeft'
  <2>1. locator.cleanup \in DOMAIN database'
          => /\ locator.cleanup \in DOMAIN database /\ DataDir(locator) \in DOMAIN database
             /\ locator.cleanup # d /\ DataDir(locator) # d
    BY <1>2, <1>4, StorageConstants DEF StIInv, StUsed, StTypes
  <2> QED
    BY <1>1, <1>4, <2>1 DEF StIInv, StLeft, DataDir
<1> QED
  BY <1>5, <1>6, <1>7 DEF StIInv

LEMMA StInductive == StIInv /\ [StorageNext]_storageVars => StIInv'
<1> SUFFICES ASSUME StIInv, [StorageNext]_storageVars PROVE StIInv'
  OBVIOUS
<1>1. CASE UNCHANGED storageVars
  BY <1>1 DEF storageVars, StIInv, StTypes, StLocator, StUsed, StLeft, StMoving, StAdopting, StWriting,
     StKept, StMoved, StAdopted, DataDir, StSame
<1>2. CASE StorageStartStep
  BY <1>2, StPrepareKeeps, StInitializeKeeps, StEndsKeep, StCopyKeeps, StEnableDatabaseKeeps,
     StEnableFiltersKeeps, StUndoDatabaseKeeps, StUndoFiltersKeeps, StAdoptBackupKeeps,
     StUpgradeAdoptedKeeps, StWriteLocatorKeeps, StOpenDatabaseKeeps, StCleanupKeeps, StCleanupDoneKeeps
     DEF StorageStartStep
<1>3. CASE StorageNext /\ ~ StorageStartStep
  BY <1>3, StCopyKeeps, StAdoptionFailsKeeps, StEndsKeep, StSaveKeeps, StRequestKeeps, StAppearKeeps
     DEF StorageNext
<1> QED
  BY <1>1, <1>2, <1>3

(* The invariant holds in every reachable state.                            *)
THEOREM StInvariant == StorageSpec => []StIInv
BY StInitial, StInductive, PTL DEF StorageSpec

------------------------------------------------------------------------------
(* What the user sees of the stored data.                                   *)
StSettings == ContentOf(database, DataDir(locator))
StLists == ContentOf(filterFiles, DataDir(locator))
StWish == locator.action = "use_existing"

LEMMA StContent == StTypes => DataStoreView!IsContent(StSettings) /\ DataStoreView!IsContent(StLists)
<1> SUFFICES ASSUME StTypes
             PROVE  DataStoreView!IsContent(StSettings) /\ DataStoreView!IsContent(StLists)
  OBVIOUS
<1>1. ASSUME NEW d \in DOMAIN database
      PROVE  database[d].origin \in Directories /\ database[d].saves \in Nat
  BY StorageConstants DEF StTypes, Databases
<1>2. ASSUME NEW d \in DOMAIN filterFiles
      PROVE  filterFiles[d].origin \in Directories /\ filterFiles[d].saves \in Nat
  BY StorageConstants DEF StTypes, FilterContents
<1> QED
  BY <1>1, <1>2 DEF StSettings, StLists, ContentOf, DataStoreView!IsContent

(* Also after a step.                                                       *)
LEMMA StContentNext ==
  StTypes' => DataStoreView!IsContent(StSettings)' /\ DataStoreView!IsContent(StLists)'
BY StContent, PTL

(* A step that keeps the directory in use and what it holds.                *)
LEMMA StUnseen ==
  ASSUME UNCHANGED locator,
         \/ UNCHANGED database
         \/ /\ DataDir(locator) \in DOMAIN database <=> DataDir(locator) \in DOMAIN database'
            /\ DataDir(locator) \in DOMAIN database
                 => StSame(database'[DataDir(locator)], database[DataDir(locator)]),
         \/ UNCHANGED filterFiles
         \/ /\ DataDir(locator) \in DOMAIN filterFiles <=> DataDir(locator) \in DOMAIN filterFiles'
            /\ DataDir(locator) \in DOMAIN filterFiles
                 => filterFiles'[DataDir(locator)] = filterFiles[DataDir(locator)]
  PROVE  UNCHANGED <<StSettings, StLists, StWish>>
BY DEF StSettings, StLists, StWish, ContentOf, DataDir, StSame

(* A change of the directory is unseen up to the switch.                    *)
LEMMA StChangeUnseen ==
  ASSUME StIInv,
         \/ InitializeAt \/ BackupDatabase \/ CopyFilters \/ EnableDatabase \/ EnableFilters
         \/ UndoDatabase \/ UndoFilters \/ AdoptBackup \/ UpgradeAdopted
         \/ MigrationFails \/ AdoptionFails
  PROVE  UNCHANGED <<StSettings, StLists, StWish>>
<1>1. UNCHANGED locator
  BY DEF InitializeAt, BackupDatabase, CopyFilters, EnableDatabase, EnableFilters, UndoDatabase, UndoFilters,
     AdoptBackup, UpgradeAdopted, MigrationFails, AdoptionFails
<1>2. PICK d \in Directories : d = DataDir(target)
  BY StDirectory DEF StIInv, StTypes
<1>3. PICK e \in Directories : e = DataDir(locator)
  BY StDirectory DEF StIInv, StTypes
<1>4. stage \in {"enable_database", "enable_filters", "undo_database", "undo_filters", "upgrade"} => d # e
  BY <1>2, <1>3 DEF StIInv, StMoving, StAdopting, StLocator
<1>5. CASE InitializeAt \/ BackupDatabase \/ CopyFilters \/ AdoptBackup \/ MigrationFails \/ AdoptionFails
  BY <1>1, <1>5, StUnseen DEF InitializeAt, BackupDatabase, CopyFilters, AdoptBackup, MigrationFails, AdoptionFails
<1>6. CASE EnableDatabase
  <2>1. e \in DOMAIN database /\ d # e
    BY <1>3, <1>4, <1>6 DEF EnableDatabase, StIInv, StMoving, StLocator, StUsed
  <2>2. database' = WithDir(database, d, database[e]) /\ UNCHANGED filterFiles
    BY <1>2, <1>3, <1>6 DEF EnableDatabase
  <2>3. e \in DOMAIN database' /\ database'[e] = database[e]
    BY <2>1, <2>2 DEF WithDir
  <2> QED
    BY <1>1, <1>3, <2>1, <2>2, <2>3, StUnseen DEF StSame
<1>7. CASE EnableFilters
  <2>1. d # e
    BY <1>4, <1>7 DEF EnableFilters
  <2>2. filterFiles' = filterFiles \/ filterFiles' = WithDir(filterFiles, d, filterFiles[e])
    BY <1>2, <1>3, <1>7 DEF EnableFilters
  <2>3. (e \in DOMAIN filterFiles <=> e \in DOMAIN filterFiles')
        /\ (e \in DOMAIN filterFiles => filterFiles'[e] = filterFiles[e])
    BY <2>1, <2>2 DEF WithDir
  <2>4. UNCHANGED database
    BY <1>7 DEF EnableFilters
  <2> QED
    BY <1>1, <1>3, <2>3, <2>4, StUnseen
<1>8. CASE UndoDatabase
  <2>1. d # e
    BY <1>4, <1>8 DEF UndoDatabase
  <2>2. (database' = database \/ database' = WithoutDir(database, d)) /\ UNCHANGED filterFiles
    BY <1>2, <1>8 DEF UndoDatabase
  <2>3. (e \in DOMAIN database <=> e \in DOMAIN database')
        /\ (e \in DOMAIN database => database'[e] = database[e])
    BY <2>1, <2>2 DEF WithoutDir, Restrict
  <2> QED
    BY <1>1, <1>3, <2>2, <2>3, StUnseen DEF StSame
<1>9. CASE UndoFilters
  <2>1. d # e
    BY <1>4, <1>9 DEF UndoFilters
  <2>2. (filterFiles' = filterFiles \/ filterFiles' = WithoutDir(filterFiles, d)) /\ UNCHANGED database
    BY <1>2, <1>9 DEF UndoFilters
  <2>3. (e \in DOMAIN filterFiles <=> e \in DOMAIN filterFiles')
        /\ (e \in DOMAIN filterFiles => filterFiles'[e] = filterFiles[e])
    BY <2>1, <2>2 DEF WithoutDir, Restrict
  <2> QED
    BY <1>1, <1>3, <2>2, <2>3, StUnseen
<1>10. CASE UpgradeAdopted
  <2>1. d # e /\ UNCHANGED filterFiles
    BY <1>4, <1>10 DEF UpgradeAdopted
  <2>2. database' = [database EXCEPT ![d].form = "current"]
    BY <1>2, <1>10 DEF UpgradeAdopted
  <2>3. (e \in DOMAIN database <=> e \in DOMAIN database')
        /\ (e \in DOMAIN database => database'[e] = database[e])
    BY <2>1, <2>2
  <2> QED
    BY <1>1, <1>3, <2>1, <2>3, StUnseen DEF StSame
<1> QED
  BY <1>5, <1>6, <1>7, <1>8, <1>9, <1>10

(* So is the clean-up, and what happens while the service is down.          *)
LEMMA StCleanupUnseen ==
  ASSUME StIInv,
         \/ InitializeFails \/ CleanupDatabase \/ CleanupFilters \/ CleanupDone \/ CleanupFails
         \/ StorageStop \/ StorageCrash
         \/ \E d \in Directories : VolumeChanges(d) \/ DataAppear(d)
  PROVE  UNCHANGED <<StSettings, StLists, StWish>>
<1>1. CASE InitializeFails \/ CleanupFails \/ StorageStop \/ StorageCrash \/ \E d \in Directories : VolumeChanges(d)
  BY <1>1, StUnseen DEF InitializeFails, CleanupFails, StorageStop, StorageCrash, VolumeChanges
<1>2. CASE CleanupDatabase \/ CleanupFilters
  <2>1. UNCHANGED locator /\ DataDir(locator) # locator.cleanup
    BY <1>2 DEF CleanupDatabase, CleanupFilters, StIInv, StLocator
  <2>2. /\ database' = database \/ database' = WithoutDir(database, locator.cleanup)
        /\ filterFiles' = filterFiles \/ filterFiles' = WithoutDir(filterFiles, locator.cleanup)
    BY <1>2 DEF CleanupDatabase, CleanupFilters
  <2>3. /\ DataDir(locator) \in DOMAIN database <=> DataDir(locator) \in DOMAIN database'
        /\ DataDir(locator) \in DOMAIN database => database'[DataDir(locator)] = database[DataDir(locator)]
    BY <2>1, <2>2 DEF WithoutDir, Restrict
  <2>4. /\ DataDir(locator) \in DOMAIN filterFiles <=> DataDir(locator) \in DOMAIN filterFiles'
        /\ DataDir(locator) \in DOMAIN filterFiles
             => filterFiles'[DataDir(locator)] = filterFiles[DataDir(locator)]
    BY <2>1, <2>2 DEF WithoutDir, Restrict
  <2> QED
    BY <2>1, <2>3, <2>4, StUnseen DEF StSame
<1>3. CASE CleanupDone
  <2>1. /\ locator'.data = locator.data /\ locator'.action = locator.action
        /\ UNCHANGED <<database, filterFiles>>
    BY <1>3 DEF CleanupDone, StIInv, StTypes, Locators
  <2>2. DataDir(locator') = DataDir(locator)
    BY <2>1 DEF DataDir
  <2> QED
    BY <2>1, <2>2 DEF StSettings, StLists, StWish
<1>4. ASSUME NEW d \in Directories, DataAppear(d) PROVE UNCHANGED <<StSettings, StLists, StWish>>
  <2>1. DataDir(locator) # d
    BY <1>4 DEF DataAppear, TargetAvailable, DataDir, StIInv, StUsed
  <2>2. PICK c : database' = WithDir(database, d, c)
    BY <1>4 DEF DataAppear
  <2>3. /\ DataDir(locator) \in DOMAIN database <=> DataDir(locator) \in DOMAIN database'
        /\ DataDir(locator) \in DOMAIN database => database'[DataDir(locator)] = database[DataDir(locator)]
    BY <2>1, <2>2 DEF WithDir
  <2> QED
    BY <1>4, <2>3, StUnseen DEF StSame, DataAppear
<1> QED
  BY <1>1, <1>2, <1>3, <1>4

(* The user sees data created, saved, chosen and adopted, and nothing else. *)
StSeen == \/ UNCHANGED <<StSettings, StLists, StWish>>
          \/ DataStoreView!Next

LEMMA StPrepareSeen ==
  ASSUME StIInv, StIInv', PrepareServiceStorage PROVE StSeen
<1>1. CASE locator' = locator
  BY <1>1, StUnseen DEF PrepareServiceStorage, StSeen
<1>2. CASE locator' # locator
  <2>1. /\ locator.data = NoDirectory /\ DefaultDirectory \notin DOMAIN database
        /\ LegacyDirectory \in DOMAIN database
        /\ locator' = [locator EXCEPT !.data = LegacyDirectory]
        /\ UNCHANGED <<database, filterFiles>>
    BY <1>2 DEF PrepareServiceStorage, DatabaseExists, StIInv, StTypes
  <2>2. locator'.data = LegacyDirectory /\ locator'.action = locator.action
    BY <2>1 DEF StIInv, StTypes, Locators
  <2>3. DataDir(locator) = DefaultDirectory /\ DataDir(locator') = LegacyDirectory
    BY <2>1, <2>2, StorageConstants DEF DataDir
  <2>4. StSettings = {} /\ StSettings' # {} /\ UNCHANGED StWish
    BY <2>1, <2>2, <2>3 DEF StSettings, StWish, ContentOf
  <2>5. DataStoreView!IsContent(StSettings)' /\ DataStoreView!IsContent(StLists)'
    BY StContentNext DEF StIInv
  <2> QED
    BY <2>4, <2>5 DEF StSeen, DataStoreView!Next, DataStoreView!Create, StSettings, StLists, StWish,
       DataStoreView!IsContent
<1> QED
  BY <1>1, <1>2

LEMMA StOpenSeen ==
  ASSUME StIInv, StIInv', OpenDatabase PROVE StSeen
<1>1. PICK d \in Directories : d = DataDir(locator)
  BY StDirectory DEF StIInv, StTypes
<1>2. UNCHANGED <<locator, filterFiles>>
  BY DEF OpenDatabase
<1>3. CASE UNCHANGED database
  BY <1>2, <1>3, StUnseen DEF StSeen
<1>4. ASSUME NEW c, database' = WithDir(database, d, c), d \in DOMAIN database,
             c = [database[d] EXCEPT !.form = "current"]
      PROVE  StSeen
  <2>1. d \in DOMAIN database' /\ database'[d] = c
    BY <1>4 DEF WithDir
  <2>2. database[d] \in Databases
    BY <1>4 DEF StIInv, StTypes
  <2>3. StSame(database'[d], database[d])
    BY <1>4, <2>1, <2>2 DEF StSame, Databases
  <2> QED
    BY <1>1, <1>2, <1>4, <2>1, <2>3, StUnseen DEF StSeen
<1>5. ASSUME NEW c, database' = WithDir(database, d, c), d \notin DOMAIN database
      PROVE  StSeen
  <2>1. d \in DOMAIN database'
    BY <1>5 DEF WithDir
  <2>2. StSettings = {} /\ StSettings' # {} /\ UNCHANGED StWish
    BY <1>1, <1>2, <1>5, <2>1 DEF StSettings, StWish, ContentOf
  <2>3. DataStoreView!IsContent(StSettings)' /\ DataStoreView!IsContent(StLists)'
    BY StContentNext DEF StIInv
  <2> QED
    BY <2>2, <2>3 DEF StSeen, DataStoreView!Next, DataStoreView!Create, StSettings, StLists, StWish,
       DataStoreView!IsContent
<1> QED
  BY <1>1, <1>3, <1>4, <1>5 DEF OpenDatabase

LEMMA StSaveSeen ==
  ASSUME StIInv, StIInv', SaveData PROVE StSeen
<1>1. PICK d \in Directories : d = DataDir(locator)
  BY StDirectory DEF StIInv, StTypes
<1>2. UNCHANGED locator /\ d \in DOMAIN database /\ database[d] \in Databases
  BY <1>1 DEF SaveData, StIInv, StUsed, StTypes
<1>3. ASSUME database' = [database EXCEPT ![d].saves = @ + 1], UNCHANGED filterFiles
      PROVE  StSeen
  <2>1. /\ d \in DOMAIN database' /\ database'[d].origin = database[d].origin
        /\ database'[d].saves = database[d].saves + 1
    BY <1>2, <1>3 DEF Databases
  <2>2. StSettings = {[origin |-> database[d].origin, saves |-> database[d].saves]}
    BY <1>1, <1>2 DEF StSettings, ContentOf
  <2>3. StSettings' = {[origin |-> database[d].origin, saves |-> database[d].saves + 1]}
    BY <1>1, <1>2, <2>1 DEF StSettings, ContentOf
  <2>4. StSettings' = DataStoreView!Grown(StSettings)
    BY <2>2, <2>3 DEF DataStoreView!Grown
  <2>5. UNCHANGED <<StLists, StWish>>
    BY <1>2, <1>3 DEF StLists, StWish, ContentOf
  <2> QED
    BY <2>4, <2>5 DEF StSeen, DataStoreView!Next, DataStoreView!SaveSettings, StSettings, StLists, StWish
<1>4. ASSUME UNCHANGED database PROVE UNCHANGED <<StSettings, StWish>>
  BY <1>2, <1>4 DEF StSettings, StWish, ContentOf
<1>5. ASSUME UNCHANGED database, d \in DOMAIN filterFiles,
             filterFiles' = [filterFiles EXCEPT ![d].saves = @ + 1]
      PROVE  StSeen
  <2>1. filterFiles[d] \in FilterContents
    BY <1>5 DEF StIInv, StTypes
  <2>2. /\ d \in DOMAIN filterFiles' /\ filterFiles'[d].origin = filterFiles[d].origin
        /\ filterFiles'[d].saves = filterFiles[d].saves + 1
    BY <1>5, <2>1 DEF FilterContents
  <2>3. StLists = {[origin |-> filterFiles[d].origin, saves |-> filterFiles[d].saves]}
    BY <1>1, <1>5 DEF StLists, ContentOf
  <2>4. StLists' = {[origin |-> filterFiles[d].origin, saves |-> filterFiles[d].saves + 1]}
    BY <1>1, <1>2, <2>2 DEF StLists, ContentOf
  <2>5. StLists' = DataStoreView!Grown(StLists)
    BY <2>3, <2>4 DEF DataStoreView!Grown
  <2> QED
    BY <1>4, <1>5, <2>5 DEF StSeen, DataStoreView!Next, DataStoreView!SaveLists, StSettings, StLists, StWish
<1>6. ASSUME UNCHANGED database, d \notin DOMAIN filterFiles PROVE StSeen
  <2>1. StLists = {}
    BY <1>1, <1>6 DEF StLists, ContentOf
  <2>2. DataStoreView!IsContent(StLists)'
    BY StContentNext DEF StIInv
  <2> QED
    BY <1>4, <1>6, <2>1, <2>2 DEF StSeen, DataStoreView!Next, DataStoreView!SaveLists, StSettings, StLists,
       StWish, DataStoreView!IsContent
<1> QED
  BY <1>1, <1>3, <1>5, <1>6 DEF SaveData

LEMMA StRequestSeen ==
  ASSUME StIInv, StIInv', \E d \in Directories : RequestStorageChange(d) PROVE StSeen
<1>1. /\ locator'.data = locator.data /\ UNCHANGED <<database, filterFiles>>
      /\ locator' \in Locators
  BY DEF RequestStorageChange, StIInv, StTypes, Locators
<1>2. UNCHANGED <<StSettings, StLists>>
  BY <1>1 DEF StSettings, StLists, DataDir
<1>3. StWish' \in BOOLEAN
  BY DEF StWish
<1> QED
  BY <1>2, <1>3 DEF StSeen, DataStoreView!Next, DataStoreView!Choose, StSettings, StLists, StWish

(* The switch itself: to the same directory, to the copy, or to the data    *)
(* that the user has asked for.                                             *)
LEMMA StSwitchSeen ==
  ASSUME StIInv, StIInv', WriteLocator PROVE StSeen
<1>1. UNCHANGED <<database, filterFiles>>
  BY DEF WriteLocator
<1>2. CASE UNCHANGED locator
  BY <1>1, <1>2, StUnseen DEF StSeen
<1>3. ASSUME locator' = target PROVE StSeen
  <2>1. locator'.action = "none" /\ (StKept \/ StMoved \/ StAdopted)
    BY <1>3 DEF WriteLocator, StIInv, StWriting
  <2>2. CASE StKept
    <3>1. DataDir(locator') = DataDir(locator)
      BY <1>3, <2>2 DEF StKept, DataDir
    <3>2. UNCHANGED <<StSettings, StLists>> /\ StWish' \in BOOLEAN
      BY <1>1, <3>1 DEF StSettings, StLists, StWish
    <3> QED
      BY <3>2 DEF StSeen, DataStoreView!Next, DataStoreView!Choose, StSettings, StLists, StWish
  <2>3. CASE StMoved
    <3>1. DataDir(locator) \in DOMAIN database
      BY DEF WriteLocator, StIInv, StWriting, StUsed
    <3>2. UNCHANGED <<StSettings, StLists>>
      BY <1>1, <1>3, <2>3, <3>1 DEF StMoved, StSettings, StLists, ContentOf, StSame
    <3>3. ~ StWish /\ ~ StWish'
      BY <2>1, <2>3 DEF StMoved, StWish
    <3> QED
      BY <3>2, <3>3 DEF StSeen, StWish
  <2>4. CASE StAdopted
    <3>1. StWish /\ ~ StWish'
      BY <2>1, <2>4 DEF StAdopted, StWish
    <3>2. DataStoreView!IsContent(StSettings)' /\ DataStoreView!IsContent(StLists)'
      BY StContentNext DEF StIInv
    <3> QED
      BY <3>1, <3>2 DEF StSeen, DataStoreView!Next, DataStoreView!Adopt, StSettings, StLists, StWish,
         DataStoreView!IsContent
  <2> QED
    BY <2>1, <2>2, <2>3, <2>4
<1> QED
  BY <1>2, <1>3 DEF WriteLocator

LEMMA StStepSeen == StIInv /\ StIInv' /\ [StorageNext]_storageVars => StSeen
<1> SUFFICES ASSUME StIInv, StIInv', [StorageNext]_storageVars PROVE StSeen
  OBVIOUS
<1>1. CASE UNCHANGED storageVars
  BY <1>1 DEF storageVars, StSeen, StSettings, StLists, StWish, ContentOf, DataDir
<1>2. CASE StorageNext
  BY <1>2, StChangeUnseen, StCleanupUnseen, StPrepareSeen, StOpenSeen, StSaveSeen, StRequestSeen,
     StSwitchSeen DEF StorageNext, StorageStartStep, StSeen
<1> QED
  BY <1>1, <1>2

(* StoredDataSurvive: whichever operation of a start fails, and wherever    *)
(* the process dies, the directory that storage.json names shows the latest *)
(* settings and lists.                                                      *)
THEOREM StStoredDataCorrect == StorageSpec => StoredDataSurvive
<1>1. StorageInit => DataStoreView!Init
  <2> SUFFICES ASSUME StorageInit PROVE DataStoreView!Init
    OBVIOUS
  <2>1. DataDir(locator) = DefaultDirectory /\ ~ StWish
    BY DEF StorageInit, NoLocator, DataDir, StWish
  <2>2. DefaultDirectory \notin DOMAIN database /\ DefaultDirectory \notin DOMAIN filterFiles
    BY StorageConstants DEF StorageInit
  <2>3. StSettings = {} /\ StLists = {}
    BY <2>1, <2>2 DEF StSettings, StLists, ContentOf
  <2> QED
    BY <2>1, <2>3 DEF DataStoreView!Init, DataStoreView!IsContent, StSettings, StLists, StWish
<1>2. StIInv /\ StIInv' /\ [StorageNext]_storageVars => [DataStoreView!Next]_<<StSettings, StLists, StWish>>
  BY StStepSeen DEF StSeen
<1> QED
  BY <1>1, <1>2, StInvariant, PTL
     DEF StorageSpec, StoredDataSurvive, DataStoreView!Spec, DataStoreView!storeVars, StSettings, StLists, StWish

------------------------------------------------------------------------------
(* Deletions and changes of data that are not in use.                       *)
StCopyLeft ==
    \A d \in DOMAIN database \ DOMAIN database' :
       \E e \in DOMAIN database' :
          /\ database'[e].origin = database[d].origin
          /\ database'[e].saves >= database[d].saves

StForeignBacked ==
    \A d \in (DOMAIN database \cap DOMAIN database') \ {DataDir(locator)} :
       database'[d] # database[d] => <<d, database[d]>> \in backups

(* A directory whose content is also in the directory in use may go.        *)
LEMMA StDropSpared ==
  ASSUME StTypes, NEW d,
         database' = database \/ database' = WithoutDir(database, d),
         d # DataDir(locator),
         d \in DOMAIN database => /\ DataDir(locator) \in DOMAIN database
                                  /\ StSame(database[d], database[DataDir(locator)])
  PROVE  StCopyLeft /\ StForeignBacked
<1>1. CASE database' = database
  BY <1>1 DEF StCopyLeft, StForeignBacked
<1>2. CASE database' = WithoutDir(database, d)
  <2>1. DOMAIN database' = DOMAIN database \ {d} /\ \A e \in DOMAIN database' : database'[e] = database[e]
    BY <1>2 DEF WithoutDir, Restrict
  <2>2. StForeignBacked
    BY <2>1 DEF StForeignBacked
  <2>3. ASSUME d \in DOMAIN database
        PROVE  \E e \in DOMAIN database' :
                  /\ database'[e].origin = database[d].origin
                  /\ database'[e].saves >= database[d].saves
    <3>1. PICK e \in DOMAIN database' : e = DataDir(locator)
      BY <2>1, <2>3
    <3>2. database[d].saves \in Nat /\ StSame(database[d], database'[e])
      BY <2>1, <2>3, <3>1, StorageConstants DEF StTypes, Databases
    <3> QED
      BY <3>2 DEF StSame
  <2> QED
    BY <2>1, <2>2, <2>3 DEF StCopyLeft
<1> QED
  BY <1>1, <1>2

(* A database is put into an empty directory, or changed where it is used.  *)
LEMMA StPutSpared ==
  ASSUME StTypes, NEW d, NEW c, database' = WithDir(database, d, c),
         d \notin DOMAIN database \/ d = DataDir(locator)
  PROVE  StCopyLeft /\ StForeignBacked
BY DEF StCopyLeft, StForeignBacked, WithDir

LEMMA StStepSpared == StIInv /\ [StorageNext]_storageVars => StCopyLeft /\ StForeignBacked
<1> SUFFICES ASSUME StIInv, [StorageNext]_storageVars PROVE StCopyLeft /\ StForeignBacked
  OBVIOUS
<1>1. ASSUME UNCHANGED database PROVE StCopyLeft /\ StForeignBacked
  BY <1>1 DEF StCopyLeft, StForeignBacked
<1>2. PICK d \in Directories : d = DataDir(target)
  BY StDirectory DEF StIInv, StTypes
<1>3. stage \in {"enable_database", "undo_database", "upgrade"} => d # DataDir(locator)
  BY <1>2 DEF StIInv, StMoving, StAdopting, StLocator
<1>4. CASE EnableDatabase
  BY <1>2, <1>4, StPutSpared DEF EnableDatabase, StIInv, StMoving
<1>5. CASE UndoDatabase
  <2>1. database' = database \/ database' = WithoutDir(database, d)
    BY <1>2, <1>5 DEF UndoDatabase
  <2>2. d \in DOMAIN database => StSame(database[d], database[DataDir(locator)])
    BY <1>2, <1>5 DEF UndoDatabase, StIInv, StMoving
  <2>3. DataDir(locator) \in DOMAIN database /\ d # DataDir(locator)
    BY <1>3, <1>5 DEF UndoDatabase, StIInv, StMoving, StLocator, StUsed
  <2> QED
    BY <2>1, <2>2, <2>3, StDropSpared DEF StIInv
<1>6. CASE UpgradeAdopted
  <2>1. DOMAIN database' = DOMAIN database /\ \A e \in DOMAIN database : e # d => database'[e] = database[e]
    BY <1>2, <1>6 DEF UpgradeAdopted
  <2>2. <<d, database[d]>> \in backups
    BY <1>2, <1>6 DEF UpgradeAdopted, StIInv, StAdopting
  <2> QED
    BY <2>1, <2>2 DEF StCopyLeft, StForeignBacked
<1>7. CASE OpenDatabase
  <2>1. UNCHANGED database \/ \E c : database' = WithDir(database, DataDir(locator), c)
    BY <1>7 DEF OpenDatabase
  <2> QED
    BY <1>1, <2>1, StPutSpared DEF StIInv
<1>8. CASE CleanupDatabase
  <2>1. database' = database \/ database' = WithoutDir(database, locator.cleanup)
    BY <1>8 DEF CleanupDatabase
  <2>2. locator.cleanup \in DOMAIN database => StSame(database[locator.cleanup], database[DataDir(locator)])
    BY DEF StIInv, StLeft
  <2>3. DataDir(locator) \in DOMAIN database /\ locator.cleanup # DataDir(locator)
    BY <1>8 DEF CleanupDatabase, StIInv, StUsed, StLocator
  <2> QED
    BY <2>1, <2>2, <2>3, StDropSpared DEF StIInv
<1>9. CASE SaveData
  <2>1. UNCHANGED database \/ database' = [database EXCEPT ![DataDir(locator)].saves = @ + 1]
    BY <1>9 DEF SaveData
  <2>2. ASSUME database' = [database EXCEPT ![DataDir(locator)].saves = @ + 1]
        PROVE  /\ DOMAIN database' = DOMAIN database
               /\ \A e \in DOMAIN database : e # DataDir(locator) => database'[e] = database[e]
    BY <2>2
  <2> QED
    BY <1>1, <2>1, <2>2 DEF StCopyLeft, StForeignBacked
<1>10. ASSUME NEW e \in Directories, DataAppear(e) PROVE StCopyLeft /\ StForeignBacked
  <2>1. e \notin DOMAIN database
    BY <1>10 DEF DataAppear, TargetAvailable
  <2>2. PICK c : database' = WithDir(database, e, c)
    BY <1>10 DEF DataAppear
  <2> QED
    BY <2>1, <2>2, StPutSpared DEF StIInv
<1>11. CASE UNCHANGED storageVars
  BY <1>1, <1>11 DEF storageVars
<1>12. CASE \/ PrepareServiceStorage \/ InitializeAt \/ InitializeFails \/ BackupDatabase \/ CopyFilters
            \/ EnableFilters \/ UndoFilters \/ AdoptBackup \/ WriteLocator \/ CleanupFilters \/ CleanupDone
            \/ MigrationFails \/ AdoptionFails \/ CleanupFails \/ StorageStop \/ StorageCrash
            \/ \E e \in Directories : RequestStorageChange(e) \/ VolumeChanges(e)
  <2>1. CASE \/ PrepareServiceStorage \/ InitializeAt \/ InitializeFails \/ BackupDatabase \/ CopyFilters
             \/ EnableFilters \/ UndoFilters \/ AdoptBackup \/ WriteLocator
    BY <1>1, <2>1 DEF PrepareServiceStorage, InitializeAt, InitializeFails, BackupDatabase, CopyFilters,
       EnableFilters, UndoFilters, AdoptBackup, WriteLocator
  <2>2. CASE \/ CleanupFilters \/ CleanupDone \/ MigrationFails \/ AdoptionFails \/ CleanupFails
             \/ StorageStop \/ StorageCrash
    BY <1>1, <2>2 DEF CleanupFilters, CleanupDone, MigrationFails, AdoptionFails, CleanupFails, StorageStop,
       StorageCrash
  <2>3. ASSUME NEW e \in Directories, RequestStorageChange(e) \/ VolumeChanges(e)
        PROVE  StCopyLeft /\ StForeignBacked
    <3>1. UNCHANGED database
      BY <2>3 DEF RequestStorageChange, VolumeChanges
    <3> QED
      BY <1>1, <3>1
  <2> QED
    BY <1>12, <2>1, <2>2, <2>3
<1> QED
  BY <1>4, <1>5, <1>6, <1>7, <1>8, <1>9, <1>10, <1>11, <1>12 DEF StorageNext, StorageStartStep

(* DataNeverLost: nothing the start-up deletes was the last copy, nothing   *)
(* foreign is changed without its backup, and the locator never names the   *)
(* directory in use as one to clean up.                                     *)
THEOREM StNeverLost == StorageSpec => DataNeverLost
<1>1. StIInv => StorageTypeOK
  <2> SUFFICES ASSUME StIInv PROVE StorageTypeOK
    OBVIOUS
  <2>1. Range(database) \subseteq Databases /\ Range(filterFiles) \subseteq FilterContents
    BY DEF StIInv, StTypes, Range
  <2> QED
    BY <2>1 DEF StIInv, StTypes, StLocator, StorageTypeOK
<1>2. StIInv /\ [StorageNext]_storageVars => [StCopyLeft]_storageVars /\ [StForeignBacked]_storageVars
  BY StStepSpared
<1> QED
  BY <1>1, <1>2, StInvariant, PTL
     DEF StorageSpec, DataNeverLost, NeverTheLastCopy, AdoptionBackedUp, StCopyLeft, StForeignBacked

------------------------------------------------------------------------------
(* The parts side by side: to each of them the others stand still.          *)
durableVars == <<storageVars, dmVars, lnVars, wnVars, part>>

LEMMA DurableParts ==
  [DurableNext]_durableVars => /\ [StorageNext]_storageVars /\ [DmNext]_dmVars
                               /\ [LnNext]_lnVars /\ [WnNext]_wnVars
BY DEF DurableNext, StoragePart, SchemaPart, LinuxPart, WindowsPart, durableVars

(* The stored data survive beside the takeovers: the abstract store and the *)
(* copies, for the system that the runs check.                              *)
THEOREM DurableStored == DurableSpec => StoredDataSurvive /\ DataNeverLost
BY DurableParts, StStoredDataCorrect, StNeverLost, PTL DEF DurableSpec, DurableInit, StorageSpec, durableVars

(* Both takeovers are never ahead of what their journals record.            *)
THEOREM DurableJournals == DurableSpec => LnJournalled /\ WnJournalled
BY DurableParts, LnJournalCorrect, WnJournalCorrect, PTL DEF DurableSpec, DurableInit, LnSpec, WnSpec, durableVars

(* SystemGivenBack: the service that is named as the resolver serves, an    *)
(* orderly stop and an uninstallation leave nothing pointing to it, and the *)
(* servers that the user has set since stay, on both platforms.             *)
THEOREM DurableGivenBack == DurableSpec => SystemGivenBack
BY DurableParts, LnTypeCorrect, LnServesCorrect, LnStopCorrect, WnTypeCorrect, WnUserServersCorrect,
   WnUninstallCorrect, PTL DEF DurableSpec, DurableInit, LnSpec, WnSpec, SystemGivenBack, durableVars

(* And an open database shows the whole history beside them.                *)
THEOREM DurableHistory == DurableSpec => []DmHistoryKept
BY DurableParts, DmHistoryCorrect, PTL DEF DurableSpec, DurableInit, DmSpec, durableVars

=============================================================================
