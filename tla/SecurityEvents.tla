--------------------------- MODULE SecurityEvents ---------------------------
(* security_events.rs with its callers in stats.rs and service_core.rs: the *)
(* queue of security events in memory, the table in the database, and the   *)
(* writer thread between them.  DNS workers record under the lock of the    *)
(* statistics and send to the writer through a bounded channel, possibly    *)
(* waiting for room with the lock held; clearing and pruning wait for the   *)
(* writer with the lock held; the management page writes to the table       *)
(* itself, after it has let go of the lock.                                 *)
EXTENDS Integers, Sequences, FiniteSets, SequencesExt

CONSTANTS SeKinds,       \* (type, protocol, client, reason) of DNS events
          SeWebKinds,    \* the same of the web_auth_* events
          SeQueueLimit,  \* QUEUE_CAPACITY
          SeBatchLimit,  \* BATCH_SIZE
          SeShown,       \* SECURITY_EVENT_CAPACITY
          SeWindow,      \* SECURITY_EVENT_AGGREGATE_SECONDS
          SeLookback,    \* SECURITY_EVENT_AGGREGATE_LOOKBACK
          SeRetention,   \* security_event_retention_hours
          MaxSeTime, MaxSeEvents, MaxSeFaults, MaxSeStarts, MaxSeClears

ASSUME SeConstants ==
    /\ {SeQueueLimit, SeBatchLimit, SeShown, SeLookback, MaxSeTime} \subseteq Nat \ {0}
    /\ {SeWindow, SeRetention, MaxSeEvents, MaxSeFaults, MaxSeStarts, MaxSeClears} \subseteq Nat
    /\ SeKinds \cap SeWebKinds = {}

VARIABLES seServer,   \* down, reset, restored, up, stopping, joined, ending
          seMem,      \* stats.security_events
          seDb,       \* row -> [last, count]
          seSender,   \* stats.security_event_sender is Some
          seChannel, seBatch,
          seWriter,   \* the thread: running or ended
          seHold,     \* who holds the stats lock across a wait
          seWeb,      \* web events between memory and table
          seDue,      \* a prune between the table and memory: {} or {since}
          seQuit,     \* the process is shutting down
          seNow, seEvents, seFaults, seStarts,
          seHoled,    \* history: rows whose increments were lost, or counted apart
          seLost,     \* history: an increment was lost
          seEra       \* history: clears so far
seVars == <<seServer, seMem, seDb, seSender, seChannel, seBatch, seWriter, seHold, seWeb, seDue, seQuit,
            seNow, seEvents, seFaults, seStarts, seHoled, seLost, seEra>>

SeFree == [op |-> "free"]
SeUnlocked == seHold = SeFree
SeRow(e) == <<e.kind, e.first>>
SeRows(S) == {SeRow(e) : e \in S}

SeInit ==
    /\ seServer = "down" /\ seMem = <<>> /\ seDb = <<>> /\ seSender = FALSE
    /\ seChannel = <<>> /\ seBatch = <<>> /\ seWriter = "ended" /\ seHold = SeFree
    /\ seWeb = {} /\ seDue = {} /\ seNow = 1 /\ seEvents = 0 /\ seFaults = 0 /\ seStarts = 0
    /\ seHoled = {} /\ seLost = FALSE /\ seEra = 0 /\ seQuit = FALSE

(* The table and memory with one increment more.  UPSERT_SECURITY_EVENT_SQL *)
SeUpsert(db, e) ==
    [r \in DOMAIN db \cup {SeRow(e)} |->
        IF r # SeRow(e) THEN db[r]
        ELSE IF r \in DOMAIN db
        THEN [last |-> IF db[r].last > e.last THEN db[r].last ELSE e.last, count |-> db[r].count + e.count]
        ELSE [last |-> e.last, count |-> e.count]]
SeStored(events) ==
    LET table[n \in 0..Len(events)] == IF n = 0 THEN seDb ELSE SeUpsert(table[n - 1], events[n])
    IN table[Len(events)]

(* find_aggregatable_event: the latest of the same kind inside the window.  *)
SeSame(k) == {i \in DOMAIN seMem : /\ i > Len(seMem) - SeLookback
                                   /\ seMem[i].kind = k /\ seNow - seMem[i].last <= SeWindow}

(* Mutant: the queue is trimmed one event late. *)
SeAppendedLate(k) ==
    IF SeSame(k) # {}
    THEN LET i == Max(SeSame(k)) IN
         Append(RemoveAt(seMem, i), [seMem[i] EXCEPT !.last = seNow, !.count = @ + 1])
    ELSE Append(IF Len(seMem) > SeShown THEN Tail(seMem) ELSE seMem,
                [kind |-> k, first |-> seNow, last |-> seNow, count |-> 1])

(* append_security_event: the merged event moves to the back, a full queue  *)
(* loses its front.                                                         *)
SeAppended(k) ==
    IF SeSame(k) # {}
    THEN LET i == Max(SeSame(k)) IN
         Append(RemoveAt(seMem, i), [seMem[i] EXCEPT !.last = seNow, !.count = @ + 1])
    ELSE Append(IF Len(seMem) >= SeShown THEN Tail(seMem) ELSE seMem,
                [kind |-> k, first |-> seNow, last |-> seNow, count |-> 1])

(* Mutant: the increment carries the accumulated count. *)
SeIncrementAll(k) == Last(SeAppended(k))

(* What is written for it: only what is new. *)
SeIncrement(k) == [Last(SeAppended(k)) EXCEPT !.count = 1]

SeBatched == [i \in DOMAIN seBatch |-> seBatch[i].event]
SeEventsOf(messages, r) ==
    Cardinality({i \in DOMAIN messages : messages[i].op = "event" /\ SeRow(messages[i].event) = r})
SeOnTheWay(r) ==
    SeEventsOf(seBatch, r) + SeEventsOf(seChannel, r) + Cardinality({e \in seWeb : SeRow(e) = r})
    + (IF seHold.op = "record" /\ SeRow(seHold.message.event) = r THEN 1 ELSE 0)

(* An event of the same kind and time that memory no longer finds: pushed   *)
(* out, or further back than it looks.  The new one shares its row.         *)
SeAgain(k) == {r \in {<<k, seNow>>} : SeSame(k) = {} /\ (r \in DOMAIN seDb \/ SeOnTheWay(r) > 0)}

SeLoseAnd(rows, events) ==
    /\ seHoled' = seHoled \cup rows \cup SeRows(events)
    /\ seLost' = (seLost \/ events # {})
SeLose(events) == SeLoseAnd({}, events)
SeLoseNothing == UNCHANGED <<seHoled, seLost>>
SeQueued == {m.event : m \in {x \in Range(seChannel) : x.op = "event"}}

------------------------------------------------------------------------------
(* A worker refuses a query: record_security_event and                      *)
(* persist_security_event.  With the channel full it waits, lock held.      *)
SeMessage(k) == [op |-> "event", event |-> SeIncrement(k), era |-> seEra]

(* Mutant: nobody joins the workers before the writer is stopped. *)
SeWorkersAliveLonger == seServer \in {"up", "stopping", "joined", "ending"}
SeWorkersAlive == seServer \in {"up", "stopping"}

SeRecord(k) ==
    /\ SeWorkersAlive /\ SeUnlocked /\ seEvents < MaxSeEvents
    /\ seEvents' = seEvents + 1
    /\ seMem' = SeAppended(k)
    /\ IF ~seSender \/ seWriter = "ended"
       THEN SeLoseAnd(SeAgain(k), {SeIncrement(k)}) /\ UNCHANGED <<seChannel, seHold>>
       ELSE /\ SeLoseAnd(SeAgain(k), {})
            /\ IF Len(seChannel) < SeQueueLimit
               THEN seChannel' = Append(seChannel, SeMessage(k)) /\ UNCHANGED seHold
               ELSE seHold' = [op |-> "record", message |-> SeMessage(k)] /\ UNCHANGED seChannel
    /\ UNCHANGED <<seServer, seDb, seSender, seBatch, seWriter, seWeb, seDue, seNow, seFaults, seStarts,
                   seQuit, seEra>>

(* The waiting sender finds room, or nobody to receive. *)
SeRecordWaited ==
    /\ seHold.op = "record" /\ seHold' = SeFree
    /\ \/ /\ seWriter = "ended" /\ SeLose({seHold.message.event}) /\ UNCHANGED seChannel
       \/ /\ seWriter = "running" /\ Len(seChannel) < SeQueueLimit
          /\ seChannel' = Append(seChannel, seHold.message) /\ SeLoseNothing
    /\ UNCHANGED <<seServer, seMem, seDb, seSender, seBatch, seWriter, seWeb, seDue, seNow, seEvents,
                   seFaults, seStarts, seQuit, seEra>>

(* record_web_admin_security_event: memory first, then, without the lock,   *)
(* the table.                                                               *)
SeWebRecord(k) ==
    /\ SeUnlocked /\ seEvents < MaxSeEvents /\ seWeb = {}
    /\ seEvents' = seEvents + 1
    /\ seMem' = SeAppended(k) /\ seWeb' = {SeIncrement(k)} /\ SeLoseAnd(SeAgain(k), {})
    /\ UNCHANGED <<seServer, seDb, seSender, seChannel, seBatch, seWriter, seHold, seDue, seNow, seFaults,
                   seStarts, seQuit, seEra>>
SeWebWrite ==
    /\ seWeb # {} /\ seWeb' = {}
    /\ \/ (\E e \in seWeb : seDb' = SeUpsert(seDb, e)) /\ SeLoseNothing /\ UNCHANGED seFaults
       \/ /\ seFaults < MaxSeFaults /\ seFaults' = seFaults + 1
          /\ SeLose(seWeb) /\ UNCHANGED seDb
    /\ UNCHANGED <<seServer, seMem, seSender, seChannel, seBatch, seWriter, seHold, seDue, seNow, seEvents,
                   seStarts, seQuit, seEra>>

------------------------------------------------------------------------------
(* Mutant: the writer counts what it has written in the statistics. *)
SeWriterFreeAfterLock == seWriter = "running" /\ SeUnlocked

(* write_events: the writer never touches the statistics. *)
SeWriterFree == seWriter = "running"

(* An error of the database ends it, and whoever waits for its reply gives   *)
(* up; a prune lets go of the runtime lock with that.                       *)
SeAwaitsReply == seHold.op = "flush" /\ seHold.stage = "wait"
SeWriterFails ==
    /\ seFaults < MaxSeFaults /\ seFaults' = seFaults + 1
    /\ seWriter' = "ended" /\ seBatch' = <<>> /\ seChannel' = <<>>
    /\ SeLose(Range(SeBatched) \cup SeQueued)
    /\ seHold' = IF SeAwaitsReply THEN SeFree ELSE seHold
    /\ seDue' = IF SeAwaitsReply /\ seHold.for = "prune" THEN {} ELSE seDue
    /\ UNCHANGED seDb

SeWriterTakes ==
    /\ SeWriterFree /\ seChannel # <<>> /\ Head(seChannel).op = "event"
    /\ Len(seBatch) < SeBatchLimit
    /\ seBatch' = Append(seBatch, Head(seChannel)) /\ seChannel' = Tail(seChannel)
    /\ UNCHANGED <<seServer, seMem, seDb, seSender, seWriter, seHold, seWeb, seDue, seNow, seEvents,
                   seFaults, seStarts, seQuit, seHoled, seLost, seEra>>

(* The batch is full or its deadline has passed. *)
SeWriterWrites ==
    /\ SeWriterFree /\ seBatch # <<>>
    /\ \/ /\ seDb' = SeStored(SeBatched) /\ seBatch' = <<>>
          /\ SeLoseNothing /\ UNCHANGED <<seChannel, seWriter, seHold, seDue, seFaults>>
       \/ SeWriterFails
    /\ UNCHANGED <<seServer, seMem, seSender, seWeb, seNow, seEvents, seStarts, seQuit, seEra>>

(* The reply of a flush: with it the caller goes on, or gives up. *)
SeWriterFlushes ==
    /\ SeWriterFree /\ seChannel # <<>> /\ Head(seChannel).op = "flush"
    /\ Len(seBatch) < SeBatchLimit
    /\ \/ /\ seDb' = SeStored(SeBatched) /\ seBatch' = <<>> /\ seChannel' = Tail(seChannel)
          /\ seHold' = [seHold EXCEPT !.stage = "do"]
          /\ SeLoseNothing /\ UNCHANGED <<seWriter, seDue, seFaults>>
       \/ SeWriterFails
    /\ UNCHANGED <<seServer, seMem, seSender, seWeb, seNow, seEvents, seStarts, seQuit, seEra>>

SeWriterStops ==
    /\ SeWriterFree /\ seChannel # <<>> /\ Head(seChannel).op = "stop"
    /\ Len(seBatch) < SeBatchLimit
    /\ \/ /\ seDb' = SeStored(SeBatched) /\ seBatch' = <<>> /\ seChannel' = <<>> /\ seWriter' = "ended"
          /\ SeLoseNothing /\ UNCHANGED <<seFaults, seHold, seDue>>
       \/ SeWriterFails
    /\ UNCHANGED <<seServer, seMem, seSender, seWeb, seNow, seEvents, seStarts, seQuit, seEra>>

------------------------------------------------------------------------------
(* Mutant: a clear does not take the lock.  *)
SeRuntimeFreeAlways == seDue = {} /\ seHold.op # "flush"

(* runtime_update_lock: held by a start, a stop, a prune and a clear from    *)
(* end to end, but not by the stop of a shutdown.                           *)
SeRuntimeFree == (seQuit \/ seServer \in {"down", "up"}) /\ seDue = {} /\ seHold.op # "flush"

(* prune_expired deletes old rows from the table, without the lock of the    *)
(* statistics; then prune_security_events locks, flushes and deletes again. *)
SeExpiredRows(since) == {r \in DOMAIN seDb : seDb[r].last < since}
SeWithout(rows) == [r \in DOMAIN seDb \ rows |-> seDb[r]]
SePrune ==
    /\ SeRuntimeFree /\ seNow > SeRetention /\ seDue' = {seNow - SeRetention}
    /\ seDb' = SeWithout(SeExpiredRows(seNow - SeRetention))
    /\ seHoled' = seHoled \cup SeExpiredRows(seNow - SeRetention)
    /\ UNCHANGED <<seServer, seMem, seSender, seChannel, seBatch, seWriter, seHold, seWeb, seNow, seEvents,
                   seFaults, seStarts, seQuit, seLost, seEra>>

(* Mutant: nothing is flushed, the caller goes on at once. *)
SeFirstStageAtOnce == "do"

(* flush_security_events: with a sender, first the message. *)
SeFirstStage == IF seSender THEN "send" ELSE "do"

SeLock(op) ==
    /\ SeUnlocked
    /\ op = "prune" => seDue # {}
    /\ op = "clear" => SeRuntimeFree /\ seEra < MaxSeClears
    /\ seHold' = [op |-> "flush", for |-> op, stage |-> SeFirstStage]
    /\ UNCHANGED <<seServer, seMem, seDb, seSender, seChannel, seBatch, seWriter, seWeb, seDue, seNow,
                   seEvents, seFaults, seStarts, seQuit, seHoled, seLost, seEra>>

SeFlushSend ==
    /\ seHold.op = "flush" /\ seHold.stage = "send"
    /\ \/ /\ seWriter = "ended" /\ seHold' = SeFree
          /\ seDue' = IF seHold.for = "prune" THEN {} ELSE seDue
          /\ UNCHANGED seChannel
       \/ /\ seWriter = "running" /\ Len(seChannel) < SeQueueLimit
          /\ seChannel' = Append(seChannel, [op |-> "flush"])
          /\ seHold' = [seHold EXCEPT !.stage = "wait"] /\ UNCHANGED seDue
    /\ UNCHANGED <<seServer, seMem, seDb, seSender, seBatch, seWriter, seWeb, seNow, seEvents, seFaults,
                   seStarts, seQuit, seHoled, seLost, seEra>>

(* The shown events at the given places, in their order. *)
SeRetained(places) ==
    LET n == Cardinality(places)
    IN {[i \in 1..n |-> seMem[order[i]]] :
           order \in {o \in [1..n -> places] : \A i, j \in 1..n : i < j => o[i] < o[j]}}

(* The deletion, in the table and then in memory, or an error of the table. *)
SeDelete ==
    /\ seHold.op = "flush" /\ seHold.stage = "do" /\ seHold' = SeFree
    /\ LET all == seHold.for = "clear"
           rows == IF all THEN DOMAIN seDb ELSE UNION {SeExpiredRows(s) : s \in seDue}
       IN \/ /\ seDb' = SeWithout(rows)
             /\ seMem' \in IF all THEN {<<>>}
                           ELSE SeRetained({i \in DOMAIN seMem : \A s \in seDue : seMem[i].last >= s})
             /\ seHoled' = seHoled \cup (IF all THEN SeRows(seWeb) ELSE rows)
             /\ seEra' = seEra + (IF all THEN 1 ELSE 0)
             /\ UNCHANGED seFaults
          \/ /\ seFaults < MaxSeFaults /\ seFaults' = seFaults + 1
             /\ UNCHANGED <<seDb, seMem, seHoled, seEra>>
    /\ seDue' = IF seHold.for = "prune" THEN {} ELSE seDue
    /\ UNCHANGED <<seServer, seSender, seChannel, seBatch, seWriter, seWeb, seNow, seEvents, seStarts,
                   seQuit, seLost>>

------------------------------------------------------------------------------
(* recent_security_events, of the retention time, oldest first: what memory *)
(* may be restored to.  The ids that order events of one second are left out.*)
SeRecent ==
    LET kept == {r \in DOMAIN seDb : seDb[r].last >= seNow - SeRetention}
        events == {[kind |-> r[1], first |-> r[2], last |-> seDb[r].last, count |-> seDb[r].count] : r \in kept}
    IN {s \in UNION {[1..n -> events] : n \in 0..SeShown} :
           /\ \A i, j \in DOMAIN s : i < j => s[i] # s[j] /\ s[i].last <= s[j].last
           /\ \A e \in events \ Range(s) : Len(s) = SeShown /\ \A i \in DOMAIN s : e.last <= s[i].last}

(* start_with_filter_runtime: reset_stats drops events and sender, ... *)
SeStartReset ==
    /\ seServer = "down" /\ ~seQuit /\ SeRuntimeFree /\ SeUnlocked /\ seStarts < MaxSeStarts
    /\ seStarts' = seStarts + 1 /\ seServer' = "reset"
    /\ seMem' = <<>> /\ seSender' = FALSE
    /\ UNCHANGED <<seDb, seChannel, seBatch, seWriter, seHold, seWeb, seDue, seNow, seEvents, seFaults,
                   seQuit, seHoled, seLost, seEra>>

(* ... restore_persisted_security_events puts the stored ones back, ... *)
SeRestore ==
    /\ seServer = "reset" /\ SeUnlocked /\ seServer' = "restored"
    /\ \/ seMem' \in SeRecent /\ seHoled' = seHoled \cup SeRows(seWeb) /\ UNCHANGED seFaults
       \/ /\ seFaults < MaxSeFaults /\ seFaults' = seFaults + 1
          /\ seHoled' = seHoled \cup DOMAIN seDb \cup SeRows(seWeb) /\ UNCHANGED seMem
    /\ UNCHANGED <<seDb, seSender, seChannel, seBatch, seWriter, seHold, seWeb, seDue, seNow, seEvents,
                   seStarts, seQuit, seLost, seEra>>

(* ... and SecurityEventWriter::start comes before the workers. *)
SeStartWriter ==
    /\ seServer = "restored" /\ SeUnlocked /\ seServer' = "up"
    /\ seSender' = TRUE /\ seWriter' = "running" /\ seChannel' = <<>> /\ seBatch' = <<>>
    /\ UNCHANGED <<seMem, seDb, seHold, seWeb, seDue, seNow, seEvents, seFaults, seStarts, seQuit, seHoled,
                   seLost, seEra>>

(* DnsServer::stop: the flag, the workers joined, then the writer's stop    *)
(* takes the sender and sends Stop under the lock, and joins.               *)
SeStop ==
    /\ \/ seServer = "up" /\ SeRuntimeFree /\ seServer' = "stopping"
       \/ seServer = "stopping" /\ seHold.op # "record" /\ seServer' = "joined"
       \/ seServer = "ending" /\ seWriter = "ended" /\ seHold.op # "stop" /\ seServer' = "down"
    /\ UNCHANGED <<seMem, seDb, seSender, seChannel, seBatch, seWriter, seHold, seWeb, seDue, seNow,
                   seEvents, seFaults, seStarts, seQuit, seHoled, seLost, seEra>>
(* shutdown stops the server without the runtime lock, while the threads of  *)
(* the clients still serve; nothing starts after it.                        *)
SeShutdown ==
    /\ seServer = "up" /\ seServer' = "stopping" /\ seQuit' = TRUE
    /\ UNCHANGED <<seMem, seDb, seSender, seChannel, seBatch, seWriter, seHold, seWeb, seDue, seNow,
                   seEvents, seFaults, seStarts, seHoled, seLost, seEra>>
SeStopWriter ==
    /\ seServer = "joined" /\ SeUnlocked /\ seSender' = FALSE
    /\ seServer' = "ending"
    /\ IF seWriter = "running" /\ Len(seChannel) < SeQueueLimit
       THEN seChannel' = Append(seChannel, [op |-> "stop"]) /\ UNCHANGED seHold
       ELSE /\ seHold' = IF seWriter = "running" THEN [op |-> "stop"] ELSE SeFree
            /\ UNCHANGED seChannel
    /\ UNCHANGED <<seMem, seDb, seBatch, seWriter, seWeb, seDue, seNow, seEvents, seFaults, seStarts,
                   seQuit, seHoled, seLost, seEra>>
SeStopWaited ==
    /\ seHold.op = "stop" /\ seHold' = SeFree
    /\ \/ seWriter = "ended" /\ UNCHANGED seChannel
       \/ /\ seWriter = "running" /\ Len(seChannel) < SeQueueLimit
          /\ seChannel' = Append(seChannel, [op |-> "stop"])
    /\ UNCHANGED <<seServer, seMem, seDb, seSender, seBatch, seWriter, seWeb, seDue, seNow, seEvents,
                   seFaults, seStarts, seQuit, seHoled, seLost, seEra>>

(* The process dies and comes back: AppState::new restores once. *)
SeCrash ==
    /\ seFaults < MaxSeFaults /\ seFaults' = seFaults + 1
    /\ SeLose(Range(SeBatched) \cup SeQueued \cup seWeb
              \cup (IF seHold.op = "record" THEN {seHold.message.event} ELSE {}))
    /\ seServer' = "down" /\ seMem' \in SeRecent /\ seSender' = FALSE
    /\ seChannel' = <<>> /\ seBatch' = <<>> /\ seWriter' = "ended" /\ seHold' = SeFree
    /\ seWeb' = {} /\ seDue' = {} /\ seQuit' = FALSE
    /\ UNCHANGED <<seDb, seNow, seEvents, seStarts, seEra>>

SeTick ==
    /\ seNow < MaxSeTime /\ seNow' = seNow + 1
    /\ UNCHANGED <<seServer, seMem, seDb, seSender, seChannel, seBatch, seWriter, seHold, seWeb, seDue,
                   seEvents, seFaults, seStarts, seQuit, seHoled, seLost, seEra>>

SeCallerStep == SeRecordWaited \/ SeFlushSend \/ SeDelete \/ SeStopWaited

SeNext ==
    \/ \E k \in SeKinds : SeRecord(k)
    \/ \E k \in SeWebKinds : SeWebRecord(k)
    \/ SeRecordWaited \/ SeWebWrite
    \/ SeWriterTakes \/ SeWriterWrites \/ SeWriterFlushes \/ SeWriterStops
    \/ SePrune \/ \E op \in {"clear", "prune"} : SeLock(op)
    \/ SeFlushSend \/ SeDelete
    \/ SeStartReset \/ SeRestore \/ SeStartWriter
    \/ SeStop \/ SeShutdown \/ SeStopWriter \/ SeStopWaited
    \/ SeCrash \/ SeTick

(* The writer thread runs, and so does whoever waits with the lock. *)
SeFairness ==
    /\ WF_seVars(SeWriterTakes) /\ WF_seVars(SeWriterWrites)
    /\ WF_seVars(SeWriterFlushes) /\ WF_seVars(SeWriterStops)
    /\ WF_seVars(SeCallerStep)

SeSpec == SeInit /\ [][SeNext]_seVars /\ SeFairness

------------------------------------------------------------------------------
SeEvents == [kind : SeKinds \cup SeWebKinds, first : 0..MaxSeTime, last : 0..MaxSeTime, count : Nat]

(* The channel, the batch and the shown events stay within their limits,    *)
(* the shown events keep the order of their last occurrence that the merge  *)
(* relies on when it stops looking.                                         *)
SeTypeOK ==
    /\ seServer \in {"down", "reset", "restored", "up", "stopping", "joined", "ending"}
    /\ seMem \in Seq(SeEvents) /\ Len(seMem) <= SeShown
    /\ \A i, j \in DOMAIN seMem : i <= j => seMem[i].last <= seMem[j].last
    /\ Len(seChannel) <= SeQueueLimit /\ Len(seBatch) <= SeBatchLimit
    /\ Range(SeBatched) \subseteq SeEvents
    /\ seWriter \in {"running", "ended"} /\ seSender \in BOOLEAN

(* An event shown has exactly the count that the table has, or will have    *)
(* when what is on the way arrives: merging in memory, increments on the    *)
(* way, the upsert and the restoration after a restart count alike, unless  *)
(* an increment was lost, expired, or passed a clear or restoration, or the *)
(* row was begun a second time after memory had pushed its event out.       *)
SeShownIsStored ==
    \A i \in DOMAIN seMem :
        LET r == SeRow(seMem[i]) IN
        r \in seHoled \/
            seMem[i].count = SeOnTheWay(r) + (IF r \in DOMAIN seDb THEN seDb[r].count ELSE 0)

(* What the comment of flush_security_events says of a clear: all events     *)
(* before it are in the table when it deletes, so that nothing recorded     *)
(* before is still on its way, in the channel, the batch or a waiting worker.*)
SeClearWaitsForAll ==
    /\ \A i \in DOMAIN seChannel : seChannel[i].op = "event" => seChannel[i].era = seEra
    /\ \A i \in DOMAIN seBatch : seBatch[i].era = seEra
    /\ seHold.op = "record" => seHold.message.era = seEra

(* It does, unless the process is shutting down: clear_security_events_...   *)
(* flushes before it deletes, and the runtime lock keeps it away from a stop *)
(* that has taken the sender but whose writer is still at work.             *)
SeClearedIsGone == seQuit \/ SeClearWaitsForAll

(* Without an error of the database or a crash no security event is lost,   *)
(* also none recorded while the server stops.                               *)
SeOnlyFaultsLose == seLost => seFaults > 0

(* Whoever waits for the writer with the lock of the statistics gets on:    *)
(* for room in the channel, for the reply to a flush, or to see it gone.    *)
SeLockComesFree == ~SeUnlocked ~> SeUnlocked

(* What the comment in restore_persisted_security_events says: the lock     *)
(* keeps an event of the management page that is in memory from being       *)
(* overwritten by an older snapshot of the table.                           *)
SeWebEventsStay ==
    [][SeRestore => \A i \in DOMAIN seMem : seMem[i].kind \in SeWebKinds =>
          \E j \in DOMAIN seMem' : SeRow(seMem'[j]) = SeRow(seMem[i])]_seVars

(* Events in memory, on their way and in the table agree, cleared ones do not*)
(* come back, and only a fault loses one.                                    *)
SeEventsKept == SeTypeOK /\ SeShownIsStored /\ SeClearedIsGone /\ SeOnlyFaultsLose
==============================================================================
