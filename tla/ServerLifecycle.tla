--------------------------- MODULE ServerLifecycle ---------------------------
(* DnsServer of server.rs: its threads from start to stop.  Listeners hand   *)
(* queries to the workers' queues, TCP connections hold a slot and wait for  *)
(* their answer, workers and background refreshes feed the query log whose   *)
(* writer ends when the last sender is gone, stop joins every thread, and    *)
(* the watchdog of service_core.rs replaces a server with a dead thread.     *)
(* Every loop may be past its look at the stop flag when the flag is raised. *)
EXTENDS Integers, Sequences, FiniteSets

CONSTANTS SvWorkerCount, SvQueueLimit,   \* dns_worker_count, dns_worker_queue_capacity
          SvListeners, SvConns,          \* listening addresses; peers over TCP
          SvMaxConns,                    \* TCP_MAX_CONNECTIONS
          SvLogLimit,                    \* QUERY_LOG_QUEUE_CAPACITY
          MaxSvQueries, MaxSvFaults, MaxSvTasks, MaxSvStarts

ASSUME SvConstants ==
    /\ {SvWorkerCount, SvQueueLimit, SvMaxConns, SvLogLimit} \subseteq Nat \ {0}
    /\ {MaxSvQueries, MaxSvFaults, MaxSvTasks, MaxSvStarts} \subseteq Nat

SvWorkers == 1..SvWorkerCount
SvUdp == "udp"                           \* an item that came by UDP

VARIABLES svPhase,     \* down, up, stopping
          svFlag,      \* the stop flag
          svWorker,    \* worker -> running or ended
          svQueue,     \* worker -> its queue; an item is SvUdp or a connection
          svAccept,    \* listener -> accepting, draining, ended
          svRecv,      \* listener -> running or ended
          svConn,      \* peer -> none, reading, waiting, answered
          svActive,    \* active_tcp_connections
          svMonitor,   \* the monitoring thread: idle, serving, ended
          svTasks,     \* refreshes in the background that hold a sender
          svLog,       \* entries in the log queue
          svWriter,    \* the log writer: running or ended
          svNextWorker,
          svQueries, svFaults, svStarts,
          svSkipped    \* history: a query was dropped beside an idle queue
svVars == <<svPhase, svFlag, svWorker, svQueue, svAccept, svRecv, svConn, svActive, svMonitor, svTasks, svLog,
            svWriter, svNextWorker, svQueries, svFaults, svStarts, svSkipped>>

SvInit ==
    /\ svPhase = "down" /\ svFlag = FALSE
    /\ svWorker = [w \in SvWorkers |-> "ended"] /\ svQueue = [w \in SvWorkers |-> <<>>]
    /\ svAccept = [l \in SvListeners |-> "ended"] /\ svRecv = [l \in SvListeners |-> "ended"]
    /\ svConn = [c \in SvConns |-> "none"] /\ svActive = 0
    /\ svMonitor = "ended" /\ svTasks = 0 /\ svLog = 0 /\ svWriter = "ended"
    /\ svNextWorker = 1 /\ svQueries = 0 /\ svFaults = 0 /\ svStarts = 0 /\ svSkipped = FALSE

(* start_with_filter_runtime, from bound listeners on. *)
SvStart ==
    /\ svPhase = "down" /\ svStarts < MaxSvStarts
    /\ svStarts' = svStarts + 1
    /\ svPhase' = "up" /\ svFlag' = FALSE
    /\ svWorker' = [w \in SvWorkers |-> "running"] /\ svQueue' = [w \in SvWorkers |-> <<>>]
    /\ svAccept' = [l \in SvListeners |-> "accepting"] /\ svRecv' = [l \in SvListeners |-> "running"]
    /\ svMonitor' = "idle" /\ svWriter' = "running" /\ svActive' = 0 /\ svLog' = 0 /\ svNextWorker' = 1
    /\ UNCHANGED <<svConn, svTasks, svQueries, svFaults, svSkipped>>

(* bind_listener_pair finds a socket taken: no thread was made yet. *)
SvStartFails ==
    /\ svPhase = "down" /\ svStarts < MaxSvStarts /\ svFaults < MaxSvFaults
    /\ svStarts' = svStarts + 1 /\ svFaults' = svFaults + 1
    /\ UNCHANGED <<svPhase, svFlag, svWorker, svQueue, svAccept, svRecv, svConn, svActive, svMonitor, svTasks,
                   svLog, svWriter, svNextWorker, svQueries, svSkipped>>

------------------------------------------------------------------------------
(* Mutant: the queue takes one more than its capacity. *)
SvRoomForOneMore(w) == svWorker[w] = "running" /\ Len(svQueue[w]) <= SvQueueLimit

(* dispatch_dns_work: from the next worker on around the circle, the first   *)
(* whose receiver lives and whose queue has room.                            *)
SvRoom(w) == svWorker[w] = "running" /\ Len(svQueue[w]) < SvQueueLimit
SvTurn(w) == (w - svNextWorker + SvWorkerCount) % SvWorkerCount

(* Mutant: only the worker whose turn it is. *)
SvTargetsNextOnly == {w \in SvWorkers : SvRoom(w) /\ SvTurn(w) = 0}

SvTargets == {w \in SvWorkers : SvRoom(w) /\ \A v \in SvWorkers : SvRoom(v) => SvTurn(w) <= SvTurn(v)}
SvAllGone == \A w \in SvWorkers : svWorker[w] = "ended"
SvPut(w, item) == svQueue' = [svQueue EXCEPT ![w] = Append(@, item)]
SvDropped == svSkipped' = (svSkipped \/ \E w \in SvWorkers : SvRoom(w))

(* serve_udp *)
SvUdpQuery(l) ==
    /\ svRecv[l] = "running" /\ svQueries < MaxSvQueries
    /\ svQueries' = svQueries + 1
    /\ \/ \E w \in SvTargets : /\ SvPut(w, SvUdp) /\ svNextWorker' = (w % SvWorkerCount) + 1
                               /\ UNCHANGED <<svRecv, svSkipped>>
       \/ /\ SvTargets = {} /\ ~SvAllGone /\ SvDropped                            \* Full
          /\ UNCHANGED <<svQueue, svNextWorker, svRecv>>
       \/ /\ SvAllGone /\ svRecv' = [svRecv EXCEPT ![l] = "ended"]                 \* Disconnected
          /\ UNCHANGED <<svQueue, svNextWorker, svSkipped>>
    /\ UNCHANGED <<svPhase, svFlag, svWorker, svAccept, svConn, svActive, svMonitor, svTasks, svLog, svWriter,
                   svFaults, svStarts>>
SvUdpEnds(l) ==
    /\ svRecv[l] = "running" /\ svFlag /\ svRecv' = [svRecv EXCEPT ![l] = "ended"]
    /\ UNCHANGED <<svPhase, svFlag, svWorker, svQueue, svAccept, svConn, svActive, svMonitor, svTasks, svLog,
                   svWriter, svNextWorker, svQueries, svFaults, svStarts, svSkipped>>

------------------------------------------------------------------------------
(* Mutant: the slot of a connection without a thread is kept. *)
SvSlotAfterSpawnKept(spawned) == svActive + 1

(* The slot is released when the closure that owns it is dropped, also when  *)
(* no thread could be made.                                                  *)
SvSlotAfterSpawn(spawned) == IF spawned THEN svActive + 1 ELSE svActive

(* serve_tcp: accept, try_acquire_tcp_connection_slot, spawn. *)
SvTcpAccept(l, c) ==
    /\ svAccept[l] = "accepting" /\ svConn[c] = "none"
    /\ svActive < SvMaxConns
    /\ \/ /\ svConn' = [svConn EXCEPT ![c] = "reading"]
          /\ svActive' = SvSlotAfterSpawn(TRUE) /\ UNCHANGED svFaults
       \/ /\ svFaults < MaxSvFaults /\ svFaults' = svFaults + 1
          /\ svActive' = SvSlotAfterSpawn(FALSE) /\ UNCHANGED svConn
    /\ UNCHANGED <<svPhase, svFlag, svWorker, svQueue, svAccept, svRecv, svMonitor, svTasks, svLog, svWriter,
                   svNextWorker, svQueries, svStarts, svSkipped>>

(* After the flag the accept loop waits until no connection is left, of any  *)
(* listener.                                                                 *)
SvTcpEnds(l) ==
    /\ svFlag
    /\ \/ svAccept[l] = "accepting" /\ svAccept' = [svAccept EXCEPT ![l] = "draining"]
       \/ svAccept[l] = "draining" /\ svActive = 0 /\ svAccept' = [svAccept EXCEPT ![l] = "ended"]
    /\ UNCHANGED <<svPhase, svFlag, svWorker, svQueue, svRecv, svConn, svActive, svMonitor, svTasks, svLog,
                   svWriter, svNextWorker, svQueries, svFaults, svStarts, svSkipped>>

(* handle_tcp_connection: a complete query was read and dispatched. *)
SvConnQuery(c) ==
    /\ svConn[c] = "reading" /\ svQueries < MaxSvQueries
    /\ svQueries' = svQueries + 1
    /\ \/ \E w \in SvTargets : /\ SvPut(w, c)
                               /\ svConn' = [svConn EXCEPT ![c] = "waiting"]
                               /\ UNCHANGED <<svActive, svSkipped>>
       \/ /\ SvTargets = {} /\ SvDropped
          /\ svConn' = [svConn EXCEPT ![c] = "none"] /\ svActive' = svActive - 1
          /\ UNCHANGED svQueue
    /\ UNCHANGED <<svPhase, svFlag, svWorker, svAccept, svRecv, svMonitor, svTasks, svLog, svWriter, svNextWorker,
                   svFaults, svStarts>>

(* Mutant: the read loop waits for the peer without looking at the flag. *)
SvMayCloseWhileReading(c) == FALSE

(* read_tcp_bytes_until: the flag ends the loop within one read timeout. *)
SvMayClose(c) == svFlag

(* The loop ends: the flag; an answer that cannot be written; no answer, in  *)
(* time or at all because the item was dropped; or the peer is gone.         *)
SvConnCloses(c) ==
    /\ \/ svConn[c] = "reading" /\ SvMayClose(c)
       \/ svConn[c] = "waiting"
       \/ svConn[c] = "answered"
    /\ svConn' = [svConn EXCEPT ![c] = "none"] /\ svActive' = svActive - 1
    \* a late answer goes to a channel nobody reads
    /\ svQueue' = [w \in SvWorkers |-> [i \in DOMAIN svQueue[w] |->
                                           IF svQueue[w][i] = c THEN SvUdp ELSE svQueue[w][i]]]
    /\ UNCHANGED <<svPhase, svFlag, svWorker, svAccept, svRecv, svMonitor, svTasks, svLog, svWriter, svNextWorker,
                   svQueries, svFaults, svStarts, svSkipped>>
SvPeerLeaves(c) ==
    /\ svConn[c] = "reading"
    /\ svConn' = [svConn EXCEPT ![c] = "none"] /\ svActive' = svActive - 1
    /\ UNCHANGED <<svPhase, svFlag, svWorker, svQueue, svAccept, svRecv, svMonitor, svTasks, svLog, svWriter,
                   svNextWorker, svQueries, svFaults, svStarts, svSkipped>>
SvConnWrote(c) ==
    /\ svConn[c] = "answered" /\ svConn' = [svConn EXCEPT ![c] = "reading"]
    /\ UNCHANGED <<svPhase, svFlag, svWorker, svQueue, svAccept, svRecv, svActive, svMonitor, svTasks, svLog,
                   svWriter, svNextWorker, svQueries, svFaults, svStarts, svSkipped>>

------------------------------------------------------------------------------
(* A log entry is offered, never waited for. *)
SvLogged == svLog' = IF svLog < SvLogLimit THEN svLog + 1 ELSE svLog

(* dns_worker_loop and handle_dns_query: the answer, the entry for the log,  *)
(* perhaps a refresh in the background; or a panic, which ends the thread    *)
(* and drops what waits in its queue.                                        *)
SvWorkerHandles(w) ==
    /\ svWorker[w] = "running" /\ svQueue[w] # <<>>
    /\ svConn' = [c \in SvConns |-> IF c = Head(svQueue[w]) /\ svConn[c] = "waiting" THEN "answered" ELSE svConn[c]]
    /\ svQueue' = [svQueue EXCEPT ![w] = Tail(@)]
    /\ SvLogged
    /\ svTasks' \in {svTasks, svTasks + 1} /\ svTasks' <= MaxSvTasks
    /\ UNCHANGED <<svPhase, svFlag, svWorker, svAccept, svRecv, svActive, svMonitor, svWriter, svNextWorker,
                   svQueries, svFaults, svStarts, svSkipped>>
SvWorkerPanics(w) ==
    /\ svWorker[w] = "running" /\ svQueue[w] # <<>> /\ svFaults < MaxSvFaults
    /\ svFaults' = svFaults + 1
    /\ svWorker' = [svWorker EXCEPT ![w] = "ended"] /\ svQueue' = [svQueue EXCEPT ![w] = <<>>]
    /\ UNCHANGED <<svPhase, svFlag, svAccept, svRecv, svConn, svActive, svMonitor, svTasks, svLog, svWriter,
                   svNextWorker, svQueries, svStarts, svSkipped>>
SvWorkerEnds(w) ==
    /\ svWorker[w] = "running" /\ svFlag
    /\ svWorker' = [svWorker EXCEPT ![w] = "ended"] /\ svQueue' = [svQueue EXCEPT ![w] = <<>>]
    /\ UNCHANGED <<svPhase, svFlag, svAccept, svRecv, svConn, svActive, svMonitor, svTasks, svLog, svWriter,
                   svNextWorker, svQueries, svFaults, svStarts, svSkipped>>

(* refresh_cache_async: its own sender, its own entry. *)
SvTaskEnds ==
    /\ svTasks > 0 /\ svTasks' = svTasks - 1 /\ SvLogged
    /\ UNCHANGED <<svPhase, svFlag, svWorker, svQueue, svAccept, svRecv, svConn, svActive, svMonitor, svWriter,
                   svNextWorker, svQueries, svFaults, svStarts, svSkipped>>

(* Mutant: the writer looks at the stop flag like every other thread. *)
SvChannelClosedByFlag == svFlag

(* Every worker has dropped the context and every refresh its sender. *)
SvChannelClosed == SvAllGone /\ svTasks = 0

(* run_query_log_writer: a batch, whatever insert_query_events says; at the  *)
(* end recv fails only when queue and senders are gone.                      *)
SvLogWrites ==
    /\ svWriter = "running" /\ svLog > 0 /\ svLog' \in 0..(svLog - 1)
    /\ UNCHANGED <<svPhase, svFlag, svWorker, svQueue, svAccept, svRecv, svConn, svActive, svMonitor, svTasks,
                   svWriter, svNextWorker, svQueries, svFaults, svStarts, svSkipped>>
SvLogEnds ==
    /\ svWriter = "running" /\ SvChannelClosed /\ svLog = 0
    /\ svWriter' = "ended"
    /\ UNCHANGED <<svPhase, svFlag, svWorker, svQueue, svAccept, svRecv, svConn, svActive, svMonitor, svTasks,
                   svLog, svNextWorker, svQueries, svFaults, svStarts, svSkipped>>

(* monitoring::spawn: one request at a time inside the accept loop. *)
SvMonitorStep ==
    /\ \/ svMonitor = "idle" /\ ~svFlag /\ svMonitor' = "serving"
       \/ svMonitor = "serving" /\ svMonitor' = "idle"
       \/ svMonitor = "idle" /\ svFlag /\ svMonitor' = "ended"
    /\ UNCHANGED <<svPhase, svFlag, svWorker, svQueue, svAccept, svRecv, svConn, svActive, svTasks, svLog,
                   svWriter, svNextWorker, svQueries, svFaults, svStarts, svSkipped>>

------------------------------------------------------------------------------
(* Mutant: only the listeners are looked at. *)
SvFinishedThreadsOfListeners == \E l \in SvListeners : svAccept[l] = "ended" \/ svRecv[l] = "ended"

(* has_finished_threads *)
SvFinishedThreads ==
    \/ \E l \in SvListeners : svAccept[l] = "ended" \/ svRecv[l] = "ended"
    \/ \E w \in SvWorkers : svWorker[w] = "ended"
    \/ svMonitor = "ended" \/ svWriter = "ended"

(* stop, by the user or by the watchdog before it starts anew. *)
SvStopCalled ==
    /\ svPhase = "up" /\ svPhase' = "stopping" /\ svFlag' = TRUE
    /\ UNCHANGED <<svWorker, svQueue, svAccept, svRecv, svConn, svActive, svMonitor, svTasks, svLog, svWriter,
                   svNextWorker, svQueries, svFaults, svStarts, svSkipped>>
SvWatchdog == SvFinishedThreads /\ SvStopCalled
SvStopped ==
    /\ svPhase = "stopping"
    /\ SvAllGone /\ svMonitor = "ended" /\ svWriter = "ended"
    /\ \A l \in SvListeners : svAccept[l] = "ended" /\ svRecv[l] = "ended"
    /\ svPhase' = "down"
    /\ UNCHANGED <<svFlag, svWorker, svQueue, svAccept, svRecv, svConn, svActive, svMonitor, svTasks, svLog,
                   svWriter, svNextWorker, svQueries, svFaults, svStarts, svSkipped>>

SvNext ==
    \/ SvStart \/ SvStartFails \/ SvStopCalled \/ SvWatchdog \/ SvStopped
    \/ \E l \in SvListeners : SvUdpQuery(l) \/ SvUdpEnds(l) \/ SvTcpEnds(l)
    \/ \E l \in SvListeners, c \in SvConns : SvTcpAccept(l, c)
    \/ \E c \in SvConns : SvConnQuery(c) \/ SvConnCloses(c) \/ SvPeerLeaves(c) \/ SvConnWrote(c)
    \/ \E w \in SvWorkers : SvWorkerHandles(w) \/ SvWorkerPanics(w) \/ SvWorkerEnds(w)
    \/ SvTaskEnds \/ SvLogWrites \/ SvLogEnds \/ SvMonitorStep

(* Threads run; every wait in them has a timeout; the watchdog looks again.  *)
SvFairness ==
    /\ WF_svVars(SvStopped) /\ WF_svVars(SvWatchdog)
    /\ \A l \in SvListeners : WF_svVars(SvUdpEnds(l)) /\ WF_svVars(SvTcpEnds(l))
    /\ \A c \in SvConns : WF_svVars(SvConnCloses(c))
    /\ \A w \in SvWorkers : WF_svVars(SvWorkerEnds(w))
    /\ WF_svVars(SvTaskEnds) /\ WF_svVars(SvLogWrites) /\ WF_svVars(SvLogEnds) /\ WF_svVars(SvMonitorStep)

SvSpec == SvInit /\ [][SvNext]_svVars /\ SvFairness

------------------------------------------------------------------------------
(* Queues stay within their capacity, and a queue without its thread is      *)
(* empty.                                                                    *)
SvTypeOK ==
    /\ svPhase \in {"down", "up", "stopping"} /\ svFlag \in BOOLEAN
    /\ \A w \in SvWorkers :
         /\ svWorker[w] \in {"running", "ended"} /\ svQueue[w] \in Seq(SvConns \cup {SvUdp})
         /\ Len(svQueue[w]) <= IF svWorker[w] = "running" THEN SvQueueLimit ELSE 0
    /\ svAccept \in [SvListeners -> {"accepting", "draining", "ended"}]
    /\ svRecv \in [SvListeners -> {"running", "ended"}]
    /\ svConn \in [SvConns -> {"none", "reading", "waiting", "answered"}]
    /\ svLog \in 0..SvLogLimit /\ svTasks \in 0..MaxSvTasks

(* The counter shared by all accept loops and connection threads is exactly  *)
(* the number of connections, at most the limit, also after a thread could   *)
(* not be made.                                                              *)
SvSlotsCounted ==
    /\ svActive = Cardinality({c \in SvConns : svConn[c] # "none"})
    /\ svActive <= SvMaxConns

(* When stop returns, no log entry that was accepted is left unwritten, not  *)
(* of a worker and not of a refresh in the background.                       *)
SvLogIsDrained == svWriter = "ended" => svLog = 0 /\ svTasks = 0

(* A query is only dropped when no live worker has room.                     *)
SvDropsOnlyWhenFull == ~svSkipped

(* stop returns: every thread notices the flag, or the end of its channel,   *)
(* also with connections open and refreshes under way.                       *)
SvStopReturns == svPhase = "stopping" ~> svPhase = "down"

(* A server that has lost a thread is replaced or stopped.                   *)
SvDeadThreadNoticed ==
    (svPhase = "up" /\ \E w \in SvWorkers : svWorker[w] = "ended") ~> svPhase # "up"

(* Between start and stop no slot, no log entry and no query is lost: slots  *)
(* are counted exactly, the log is drained before its writer ends, and only a*)
(* full queue drops a query.                                                 *)
SvThreadsSound == SvTypeOK /\ SvSlotsCounted /\ SvLogIsDrained /\ SvDropsOnlyWhenFull
==============================================================================
