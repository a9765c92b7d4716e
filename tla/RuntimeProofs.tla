--------------------------- MODULE RuntimeProofs ---------------------------
(***************************************************************************)
(* Proofs about seven components of the running service, each for every    *)
(* number of its threads: the server with its workers, listeners and       *)
(* connections (ServerLifecycle), the bridge to the privileged service     *)
(* (ServiceBridge), the update of the filter lists (FilterUpdate), the     *)
(* cache of compiled rules (RuleCache), the limit on clients               *)
(* (AccessControl), the sessions of the web console (WebSessions) and the  *)
(* forwarding of queries to upstreams (UpstreamHealth); and about three    *)
(* systems that the runs compose of them, of the security events and of    *)
(* the statistics.                                                         *)
(***************************************************************************)
EXTENDS MCServer, MCRemote, MCPolicies, UpstreamHealth, DatabaseProofs, PolicyProofs

(* The connections that hold a slot. *)
SvOpen == {c \in SvConns : svConn[c] # "none"}

SvKinds ==
    /\ svPhase \in {"down", "up", "stopping"} /\ svFlag \in BOOLEAN
    /\ svWorker \in [SvWorkers -> {"running", "ended"}]
    /\ svQueue \in [SvWorkers -> Seq(SvConns \cup {SvUdp})]
    /\ svAccept \in [SvListeners -> {"accepting", "draining", "ended"}]
    /\ svRecv \in [SvListeners -> {"running", "ended"}]
    /\ svConn \in [SvConns -> {"none", "reading", "waiting", "answered"}]
    /\ svNextWorker \in SvWorkers
    /\ svLog \in 0..SvLogLimit /\ svTasks \in 0..MaxSvTasks
    /\ svWriter \in {"running", "ended"}
    /\ svSkipped \in BOOLEAN

SvShort ==
    \A w \in SvWorkers :
        Len(svQueue[w]) <= IF svWorker[w] = "running" THEN SvQueueLimit ELSE 0

(* Only finitely many connections are open, and svActive counts them. *)
SvCount ==
    /\ IsFiniteSet(SvOpen) /\ svActive = Cardinality(SvOpen)
    /\ svActive <= SvMaxConns

(* The writer is the last of those who send to it. *)
SvWriterLast == svWriter = "ended" => SvAllGone /\ svLog = 0 /\ svTasks = 0

(* Nobody accepts, so nobody is connected: the last accept loop waits. *)
SvLastAccept == (\A l \in SvListeners : svAccept[l] = "ended") => svActive = 0

SvAtRest ==
    svPhase = "down" => svWriter = "ended" /\ \A l \in SvListeners : svAccept[l] = "ended"

(* The inductive invariant. *)
SvInv ==
    /\ SvKinds /\ SvShort /\ SvCount /\ SvWriterLast /\ SvLastAccept /\ SvAtRest
    /\ SvDropsOnlyWhenFull

(* Of the workers with room one comes first from the next worker on. *)
LEMMA SvFirstRoom ==
    ASSUME svNextWorker \in SvWorkers, NEW w \in SvWorkers, SvRoom(w)
    PROVE  SvTargets # {}
<1> DEFINE R == {v \in SvWorkers : SvRoom(v)}
           T == {SvTurn(v) : v \in R}
<1>1. SvWorkerCount \in Nat \ {0}
  BY SvConstants DEF SvConstants
<1>2. \A v \in SvWorkers : SvTurn(v) \in Nat
  <2> TAKE v \in SvWorkers
  <2>1. v - svNextWorker + SvWorkerCount \in Nat
    BY <1>1 DEF SvWorkers
  <2> QED BY <1>1, <2>1 DEF SvTurn
<1>3. T \subseteq Nat /\ T # {}
  BY <1>2
<1>4. PICK x \in T : \A y \in T : ~(<<y, x>> \in OpToRel(<, Nat))
  <2> HIDE DEF T
  <2> QED BY <1>3, NatLessThanWellFounded, WFMin
<1>5. \A y \in T : ~(y < x)
  BY <1>3, <1>4 DEF OpToRel
<1>6. PICK v \in R : x = SvTurn(v)
  BY <1>4
<1>7. \A u \in R : SvTurn(v) <= SvTurn(u)
  BY <1>2, <1>5, <1>6
<1> QED BY <1>6, <1>7 DEF SvTargets

(* One connection changes its state: how many slots that takes or frees.   *)
LEMMA SvConnMoves ==
    ASSUME SvInv, NEW c \in SvConns, NEW s, svConn' = [svConn EXCEPT ![c] = s]
    PROVE  /\ s # "none" /\ svConn[c] # "none" => SvOpen' = SvOpen
           /\ s # "none" /\ svConn[c] = "none" =>
                IsFiniteSet(SvOpen') /\ Cardinality(SvOpen') = svActive + 1
           /\ s = "none" /\ svConn[c] # "none" =>
                IsFiniteSet(SvOpen') /\ Cardinality(SvOpen') = svActive - 1
<1>1. svConn \in [SvConns -> {"none", "reading", "waiting", "answered"}]
  BY DEF SvInv, SvKinds
<1>2. IsFiniteSet(SvOpen) /\ svActive = Cardinality(SvOpen)
  BY DEF SvInv, SvCount
<1>3. s # "none" => SvOpen' = SvOpen \cup {c}
  BY <1>1 DEF SvOpen
<1>4. s = "none" => SvOpen' = SvOpen \ {c}
  BY <1>1 DEF SvOpen
<1>5. c \in SvOpen <=> svConn[c] # "none"
  BY DEF SvOpen
<1>6. c \in SvOpen => SvOpen \cup {c} = SvOpen
  OBVIOUS
<1>7. CASE s # "none"
  BY <1>2, <1>3, <1>5, <1>6, <1>7, FS_AddElement
<1>8. CASE s = "none"
  BY <1>2, <1>4, <1>5, <1>8, FS_RemoveElement
<1> QED BY <1>7, <1>8

LEMMA SvActiveNat == SvInv => svActive \in Nat
BY FS_CardinalityType DEF SvInv, SvCount

(* An item is handed to a worker with room. *)
LEMMA SvPutKeeps ==
    ASSUME SvInv, NEW w \in SvTargets, NEW item \in SvConns \cup {SvUdp}, SvPut(w, item),
           UNCHANGED svWorker
    PROVE  svQueue' \in [SvWorkers -> Seq(SvConns \cup {SvUdp})] /\ SvShort'
<1>1. svQueue \in [SvWorkers -> Seq(SvConns \cup {SvUdp})] /\ svWorker \in [SvWorkers -> {"running", "ended"}]
  BY DEF SvInv, SvKinds
<1>2. w \in SvWorkers /\ svWorker[w] = "running" /\ Len(svQueue[w]) < SvQueueLimit
  BY DEF SvTargets, SvRoom
<1>3. svQueue' = [svQueue EXCEPT ![w] = Append(svQueue[w], item)]
  BY DEF SvPut
<1>4. /\ Append(svQueue[w], item) \in Seq(SvConns \cup {SvUdp})
      /\ Len(Append(svQueue[w], item)) = Len(svQueue[w]) + 1
      /\ Len(svQueue[w]) \in Nat
  BY <1>1, <1>2
<1>5. Len(svQueue'[w]) <= SvQueueLimit
  <2>1. SvQueueLimit \in Nat
    BY SvConstants DEF SvConstants
  <2> QED BY <1>1, <1>2, <1>3, <1>4, <2>1
<1>6. SvShort
  BY DEF SvInv
<1> QED BY <1>1, <1>2, <1>3, <1>4, <1>5, <1>6 DEF SvShort

(* A worker takes the head of its queue. *)
LEMMA SvTailKeeps ==
    ASSUME SvInv, NEW w \in SvWorkers, svQueue[w] # <<>>, svQueue' = [svQueue EXCEPT ![w] = Tail(@)],
           UNCHANGED svWorker
    PROVE  svQueue' \in [SvWorkers -> Seq(SvConns \cup {SvUdp})] /\ SvShort'
<1>1. svQueue \in [SvWorkers -> Seq(SvConns \cup {SvUdp})] /\ svWorker \in [SvWorkers -> {"running", "ended"}]
  BY DEF SvInv, SvKinds
<1>2. /\ Tail(svQueue[w]) \in Seq(SvConns \cup {SvUdp})
      /\ Len(Tail(svQueue[w])) = Len(svQueue[w]) - 1
      /\ Len(svQueue[w]) \in Nat
  BY <1>1
<1>3. SvShort
  BY DEF SvInv
<1>4. \A v \in SvWorkers : v # w => svQueue'[v] = svQueue[v]
  BY <1>1
<1>5. svQueue'[w] = Tail(svQueue[w])
  BY <1>1
<1>6. Len(svQueue'[w]) <= IF svWorker[w] = "running" THEN SvQueueLimit ELSE 0
  <2>1. CASE svWorker[w] = "running"
    <3>1. Len(svQueue[w]) <= SvQueueLimit
      BY <1>3, <2>1 DEF SvShort
    <3>2. SvQueueLimit \in Nat
      BY SvConstants DEF SvConstants
    <3> QED BY <1>2, <1>5, <2>1, <3>1, <3>2
  <2>2. CASE svWorker[w] # "running"
    <3>1. Len(svQueue[w]) <= 0
      BY <1>3, <2>2 DEF SvShort
    <3> QED BY <1>2, <1>5, <2>2, <3>1
  <2> QED BY <2>1, <2>2
<1>7. SvShort'
  BY <1>3, <1>4, <1>6 DEF SvShort
<1> QED BY <1>1, <1>2, <1>7

(* A worker ends and what waits in its queue is dropped. *)
LEMMA SvDropKeeps ==
    ASSUME SvInv, NEW w \in SvWorkers, svQueue' = [svQueue EXCEPT ![w] = <<>>],
           svWorker' = [svWorker EXCEPT ![w] = "ended"]
    PROVE  /\ svQueue' \in [SvWorkers -> Seq(SvConns \cup {SvUdp})]
           /\ svWorker' \in [SvWorkers -> {"running", "ended"}]
           /\ SvShort'
           /\ SvAllGone => SvAllGone'
<1>1. svQueue \in [SvWorkers -> Seq(SvConns \cup {SvUdp})] /\ svWorker \in [SvWorkers -> {"running", "ended"}]
  BY DEF SvInv, SvKinds
<1>2. SvShort
  BY DEF SvInv
<1>3. <<>> \in Seq(SvConns \cup {SvUdp}) /\ Len(<<>>) = 0
  OBVIOUS
<1>4. \A v \in SvWorkers : v # w => svQueue'[v] = svQueue[v] /\ svWorker'[v] = svWorker[v]
  BY <1>1
<1>5. svQueue'[w] = <<>> /\ svWorker'[w] = "ended"
  BY <1>1
<1>6. SvShort'
  BY <1>2, <1>3, <1>4, <1>5 DEF SvShort
<1>7. SvAllGone => SvAllGone'
  BY <1>4, <1>5 DEF SvAllGone
<1> QED BY <1>1, <1>3, <1>6, <1>7

(* The items of a connection that is given up stay in their queues. *)
LEMMA SvForgetKeeps ==
    ASSUME SvInv, NEW c,
           svQueue' = [w \in SvWorkers |-> [i \in DOMAIN svQueue[w] |->
                           IF svQueue[w][i] = c THEN SvUdp ELSE svQueue[w][i]]],
           UNCHANGED svWorker
    PROVE  svQueue' \in [SvWorkers -> Seq(SvConns \cup {SvUdp})] /\ SvShort'
<1>1. svQueue \in [SvWorkers -> Seq(SvConns \cup {SvUdp})]
  BY DEF SvInv, SvKinds
<1>2. SvShort
  BY DEF SvInv
<1>3. ASSUME NEW w \in SvWorkers
      PROVE  svQueue'[w] \in Seq(SvConns \cup {SvUdp}) /\ Len(svQueue'[w]) = Len(svQueue[w])
  <2>1. /\ svQueue[w] \in Seq(SvConns \cup {SvUdp})
        /\ DOMAIN svQueue[w] = 1..Len(svQueue[w]) /\ Len(svQueue[w]) \in Nat
        /\ \A i \in 1..Len(svQueue[w]) : svQueue[w][i] \in SvConns \cup {SvUdp}
    BY <1>1
  <2>2. svQueue'[w] = [i \in 1..Len(svQueue[w]) |-> IF svQueue[w][i] = c THEN SvUdp ELSE svQueue[w][i]]
    BY <2>1
  <2>3. svQueue'[w] \in [1..Len(svQueue[w]) -> SvConns \cup {SvUdp}]
    BY <2>1, <2>2
  <2> QED BY <2>1, <2>3
<1> QED BY <1>2, <1>3 DEF SvShort

(* A datagram, or the end of a thread of a listener. *)
LEMMA SvListenerSteps ==
    ASSUME SvInv, NEW l \in SvListeners, SvUdpQuery(l) \/ SvUdpEnds(l) \/ SvTcpEnds(l)
    PROVE  SvInv'
<1> USE DEF SvInv
<1>1. CASE SvUdpQuery(l)
  <2>1. ASSUME NEW w \in SvTargets, SvPut(w, SvUdp), svNextWorker' = (w % SvWorkerCount) + 1,
               UNCHANGED <<svRecv, svSkipped>>
        PROVE  SvInv'
    <3>1. svQueue' \in [SvWorkers -> Seq(SvConns \cup {SvUdp})] /\ SvShort'
      BY <1>1, <2>1, SvPutKeeps DEF SvUdpQuery
    <3>2. svNextWorker' \in SvWorkers
      <4>1. w \in SvWorkers /\ SvWorkerCount \in Nat \ {0}
        BY SvConstants DEF SvConstants, SvTargets
      <4>2. w % SvWorkerCount \in 0..(SvWorkerCount - 1)
        BY <4>1 DEF SvWorkers
      <4> QED BY <2>1, <4>1, <4>2 DEF SvWorkers
    <3> QED BY <1>1, <2>1, <3>1, <3>2 DEF SvUdpQuery, SvKinds, SvCount, SvOpen, SvWriterLast, SvAllGone, SvLastAccept, SvAtRest, SvDropsOnlyWhenFull
  <2>2. ASSUME SvTargets = {}, SvDropped, UNCHANGED <<svQueue, svNextWorker, svRecv>>
        PROVE  SvInv'
    <3>1. \A w \in SvWorkers : ~SvRoom(w)
      BY <2>2, SvFirstRoom DEF SvKinds
    <3>2. svSkipped' = svSkipped
      BY <2>2, <3>1 DEF SvDropped, SvKinds
    <3> QED BY <1>1, <2>2, <3>2 DEF SvUdpQuery, SvKinds, SvShort, SvCount, SvOpen, SvWriterLast, SvAllGone, SvLastAccept, SvAtRest, SvDropsOnlyWhenFull
  <2>3. ASSUME svRecv' = [svRecv EXCEPT ![l] = "ended"], UNCHANGED <<svQueue, svNextWorker, svSkipped>>
        PROVE  SvInv'
    BY <1>1, <2>3 DEF SvUdpQuery, SvKinds, SvShort, SvCount, SvOpen, SvWriterLast, SvAllGone, SvLastAccept, SvAtRest, SvDropsOnlyWhenFull
  <2> QED BY <1>1, <2>1, <2>2, <2>3 DEF SvUdpQuery
<1>2. CASE SvUdpEnds(l)
  BY <1>2 DEF SvUdpEnds, SvKinds, SvShort, SvCount, SvOpen, SvWriterLast, SvAllGone, SvLastAccept, SvAtRest, SvDropsOnlyWhenFull
<1>3. CASE SvTcpEnds(l)
  BY <1>3 DEF SvTcpEnds, SvKinds, SvShort, SvCount, SvOpen, SvWriterLast, SvAllGone, SvLastAccept, SvAtRest, SvDropsOnlyWhenFull
<1> QED BY <1>1, <1>2, <1>3

(* A connection is accepted, asks, is answered or ends. *)
LEMMA SvAcceptStep ==
    ASSUME SvInv, NEW l \in SvListeners, NEW c \in SvConns, SvTcpAccept(l, c)
    PROVE  SvInv'
<1> USE DEF SvInv
<1>1. SvMaxConns \in Nat
  BY SvConstants DEF SvConstants
<1>2. CASE svConn' = [svConn EXCEPT ![c] = "reading"] /\ svActive' = SvSlotAfterSpawn(TRUE)
  <2>1. IsFiniteSet(SvOpen') /\ Cardinality(SvOpen') = svActive + 1
    BY <1>2, SvConnMoves DEF SvTcpAccept
  <2>2. svActive' = svActive + 1 /\ svActive' <= SvMaxConns
    BY <1>1, <1>2, SvActiveNat DEF SvSlotAfterSpawn, SvTcpAccept
  <2>3. SvCount'
    BY <2>1, <2>2 DEF SvCount, SvTcpAccept
  <2> QED BY <1>2, <2>3 DEF SvTcpAccept, SvKinds, SvShort, SvWriterLast, SvAllGone, SvLastAccept, SvAtRest, SvDropsOnlyWhenFull
<1>3. CASE svActive' = SvSlotAfterSpawn(FALSE) /\ UNCHANGED svConn
  BY <1>3 DEF SvSlotAfterSpawn, SvTcpAccept, SvKinds, SvShort, SvCount, SvOpen, SvWriterLast, SvAllGone, SvLastAccept, SvAtRest, SvDropsOnlyWhenFull
<1> QED BY <1>2, <1>3 DEF SvTcpAccept

(* A connection that ends gives its slot back. *)
LEMMA SvSlotBack ==
    ASSUME SvInv, NEW c \in SvConns, svConn[c] # "none",
           svConn' = [svConn EXCEPT ![c] = "none"], svActive' = svActive - 1
    PROVE  SvCount' /\ svActive # 0
<1>1. IsFiniteSet(SvOpen') /\ Cardinality(SvOpen') = svActive - 1
  BY SvConnMoves
<1>2. svActive \in Nat /\ svActive' \in Nat
  BY <1>1, SvActiveNat, FS_CardinalityType
<1>3. SvMaxConns \in Nat
  BY SvConstants DEF SvConstants
<1>4. svActive <= SvMaxConns
  BY DEF SvInv, SvCount
<1> QED BY <1>1, <1>2, <1>3, <1>4 DEF SvCount

LEMMA SvQueryStep ==
    ASSUME SvInv, NEW c \in SvConns, SvConnQuery(c)
    PROVE  SvInv'
<1> USE DEF SvInv
<1>1. ASSUME NEW w \in SvTargets, SvPut(w, c), svConn' = [svConn EXCEPT ![c] = "waiting"],
             UNCHANGED <<svActive, svSkipped>>
      PROVE  SvInv'
  <2>1. svQueue' \in [SvWorkers -> Seq(SvConns \cup {SvUdp})] /\ SvShort'
    BY <1>1, SvPutKeeps DEF SvConnQuery
  <2>2. SvOpen' = SvOpen
    BY <1>1, SvConnMoves DEF SvConnQuery
  <2> QED BY <1>1, <2>1, <2>2 DEF SvConnQuery, SvKinds, SvCount, SvWriterLast, SvAllGone, SvLastAccept, SvAtRest, SvDropsOnlyWhenFull
<1>2. ASSUME SvTargets = {}, SvDropped, svConn' = [svConn EXCEPT ![c] = "none"],
             svActive' = svActive - 1, UNCHANGED svQueue
      PROVE  SvInv'
  <2>1. \A w \in SvWorkers : ~SvRoom(w)
    BY <1>2, SvFirstRoom DEF SvKinds
  <2>2. svSkipped' = svSkipped
    BY <1>2, <2>1 DEF SvDropped, SvKinds
  <2>3. SvCount' /\ svActive # 0
    BY <1>2, SvSlotBack DEF SvConnQuery
  <2> QED BY <1>2, <2>2, <2>3 DEF SvConnQuery, SvKinds, SvShort, SvWriterLast, SvAllGone, SvLastAccept, SvAtRest, SvDropsOnlyWhenFull
<1> QED BY <1>1, <1>2 DEF SvConnQuery

LEMMA SvConnectionSteps ==
    ASSUME SvInv, NEW c \in SvConns, SvConnCloses(c) \/ SvPeerLeaves(c) \/ SvConnWrote(c)
    PROVE  SvInv'
<1> USE DEF SvInv
<1>1. CASE SvConnCloses(c)
  <2>1. svQueue' \in [SvWorkers -> Seq(SvConns \cup {SvUdp})] /\ SvShort'
    BY <1>1, SvForgetKeeps DEF SvConnCloses
  <2>2. SvCount' /\ svActive # 0
    BY <1>1, SvSlotBack DEF SvConnCloses
  <2> QED BY <1>1, <2>1, <2>2 DEF SvConnCloses, SvKinds, SvWriterLast, SvAllGone, SvLastAccept, SvAtRest, SvDropsOnlyWhenFull
<1>2. CASE SvPeerLeaves(c)
  <2>1. SvCount' /\ svActive # 0
    BY <1>2, SvSlotBack DEF SvPeerLeaves
  <2> QED BY <1>2, <2>1 DEF SvPeerLeaves, SvKinds, SvShort, SvWriterLast, SvAllGone, SvLastAccept, SvAtRest, SvDropsOnlyWhenFull
<1>3. CASE SvConnWrote(c)
  <2>1. SvOpen' = SvOpen
    <3>1. svConn' = [svConn EXCEPT ![c] = "reading"] /\ svConn[c] = "answered"
      BY <1>3 DEF SvConnWrote
    <3> QED BY <3>1 DEF SvKinds, SvOpen
  <2> QED BY <1>3, <2>1 DEF SvConnWrote, SvKinds, SvShort, SvCount, SvWriterLast, SvAllGone, SvLastAccept, SvAtRest, SvDropsOnlyWhenFull
<1> QED BY <1>1, <1>2, <1>3

(* A worker answers, panics or ends. *)
LEMMA SvWorkerSteps ==
    ASSUME SvInv, NEW w \in SvWorkers, SvWorkerHandles(w) \/ SvWorkerPanics(w) \/ SvWorkerEnds(w)
    PROVE  SvInv'
<1> USE DEF SvInv
<1>1. CASE SvWorkerHandles(w)
  <2>1. svQueue' \in [SvWorkers -> Seq(SvConns \cup {SvUdp})] /\ SvShort'
    BY <1>1, SvTailKeeps DEF SvWorkerHandles
  <2>2. SvOpen' = SvOpen /\ svConn' \in [SvConns -> {"none", "reading", "waiting", "answered"}]
    BY <1>1 DEF SvWorkerHandles, SvOpen, SvKinds
  <2>3. svLog' \in 0..SvLogLimit /\ svTasks' \in 0..MaxSvTasks
    <3>1. SvLogLimit \in Nat /\ MaxSvTasks \in Nat
      BY SvConstants DEF SvConstants
    <3> QED BY <1>1, <3>1 DEF SvWorkerHandles, SvLogged, SvKinds
  <2>4. svWorker[w] = "running" /\ ~SvAllGone
    BY <1>1 DEF SvWorkerHandles, SvAllGone
  <2> QED BY <1>1, <2>1, <2>2, <2>3, <2>4 DEF SvWorkerHandles, SvKinds, SvCount, SvOpen, SvWriterLast, SvAllGone, SvLastAccept, SvAtRest, SvDropsOnlyWhenFull
<1>2. CASE SvWorkerPanics(w) \/ SvWorkerEnds(w)
  <2>1. svQueue' = [svQueue EXCEPT ![w] = <<>>] /\ svWorker' = [svWorker EXCEPT ![w] = "ended"]
    BY <1>2 DEF SvWorkerPanics, SvWorkerEnds
  <2>2. /\ svQueue' \in [SvWorkers -> Seq(SvConns \cup {SvUdp})]
        /\ svWorker' \in [SvWorkers -> {"running", "ended"}]
        /\ SvShort' /\ (SvAllGone => SvAllGone')
    BY <2>1, SvDropKeeps
  <2>3. UNCHANGED <<svPhase, svFlag, svAccept, svRecv, svConn, svActive, svTasks, svLog, svWriter, svNextWorker, svSkipped>>
    BY <1>2 DEF SvWorkerPanics, SvWorkerEnds
  <2> QED BY <2>2, <2>3 DEF SvKinds, SvCount, SvOpen, SvWriterLast, SvLastAccept, SvAtRest, SvDropsOnlyWhenFull
<1> QED BY <1>1, <1>2

(* A refresh in the background, the writer of the log, the monitor. *)
LEMMA SvWriterSteps ==
    ASSUME SvInv, SvTaskEnds \/ SvLogWrites \/ SvLogEnds \/ SvMonitorStep
    PROVE  SvInv'
<1> USE DEF SvInv
<1>1. SvLogLimit \in Nat /\ MaxSvTasks \in Nat
  BY SvConstants DEF SvConstants
<1>2. svLog \in 0..SvLogLimit /\ svTasks \in 0..MaxSvTasks
  BY DEF SvKinds
<1>3. CASE SvTaskEnds
  <2>1. svLog' \in 0..SvLogLimit /\ svTasks' \in 0..MaxSvTasks /\ svWriter # "ended"
    BY <1>1, <1>2, <1>3 DEF SvTaskEnds, SvLogged, SvWriterLast
  <2> QED BY <1>3, <2>1 DEF SvTaskEnds, SvKinds, SvShort, SvCount, SvOpen, SvWriterLast, SvAllGone, SvLastAccept, SvAtRest, SvDropsOnlyWhenFull
<1>4. CASE SvLogWrites
  <2>1. svLog' \in 0..SvLogLimit /\ svWriter # "ended"
    BY <1>1, <1>2, <1>4 DEF SvLogWrites
  <2> QED BY <1>4, <2>1 DEF SvLogWrites, SvKinds, SvShort, SvCount, SvOpen, SvWriterLast, SvAllGone, SvLastAccept, SvAtRest, SvDropsOnlyWhenFull
<1>5. CASE SvLogEnds
  BY <1>5 DEF SvLogEnds, SvChannelClosed, SvKinds, SvShort, SvCount, SvOpen, SvWriterLast, SvAllGone, SvLastAccept, SvAtRest, SvDropsOnlyWhenFull
<1>6. CASE SvMonitorStep
  BY <1>6 DEF SvMonitorStep, SvKinds, SvShort, SvCount, SvOpen, SvWriterLast, SvAllGone, SvLastAccept, SvAtRest, SvDropsOnlyWhenFull
<1> QED BY <1>3, <1>4, <1>5, <1>6

(* start and stop.  A start finds no connection left, since the accept loops *)
(* have waited for them.                                                     *)
LEMMA SvOwnerSteps ==
    ASSUME SvInv, SvStart \/ SvStartFails \/ SvStopCalled \/ SvWatchdog \/ SvStopped
    PROVE  SvInv'
<1> USE DEF SvInv
<1>1. CASE SvStart
  <2>1. svWriter = "ended" /\ svTasks = 0 /\ svActive = 0
    BY <1>1 DEF SvStart, SvAtRest, SvWriterLast, SvLastAccept
  <2>2. SvCount'
    BY <1>1, <2>1 DEF SvStart, SvCount, SvOpen
  <2>3. SvShort'
    <3>1. SvQueueLimit \in Nat /\ Len(<<>>) = 0
      BY SvConstants DEF SvConstants
    <3>2. \A w \in SvWorkers : svQueue'[w] = <<>> /\ svWorker'[w] = "running"
      BY <1>1 DEF SvStart
    <3> QED BY <3>1, <3>2 DEF SvShort
  <2>4. SvKinds'
    <3>1. SvLogLimit \in Nat /\ 1 \in SvWorkers
      BY SvConstants DEF SvConstants, SvWorkers
    <3>2. <<>> \in Seq(SvConns \cup {SvUdp})
      OBVIOUS
    <3>3. svQueue' \in [SvWorkers -> Seq(SvConns \cup {SvUdp})] /\ svWorker' \in [SvWorkers -> {"running", "ended"}]
      BY <1>1, <3>2 DEF SvStart
    <3>4. /\ svAccept' \in [SvListeners -> {"accepting", "draining", "ended"}]
          /\ svRecv' \in [SvListeners -> {"running", "ended"}]
      BY <1>1 DEF SvStart
    <3>5. svLog' \in 0..SvLogLimit /\ svNextWorker' \in SvWorkers
      BY <1>1, <3>1 DEF SvStart
    <3> QED BY <1>1, <3>3, <3>4, <3>5 DEF SvStart, SvKinds
  <2> QED BY <1>1, <2>2, <2>3, <2>4 DEF SvStart, SvWriterLast, SvLastAccept, SvAtRest, SvDropsOnlyWhenFull
<1>2. CASE SvStartFails
  BY <1>2 DEF SvStartFails, SvKinds, SvShort, SvCount, SvOpen, SvWriterLast, SvAllGone, SvLastAccept, SvAtRest, SvDropsOnlyWhenFull
<1>3. CASE SvStopCalled \/ SvWatchdog
  <2>1. SvStopCalled
    BY <1>3 DEF SvWatchdog
  <2> QED BY <2>1 DEF SvStopCalled, SvKinds, SvShort, SvCount, SvOpen, SvWriterLast, SvAllGone, SvLastAccept, SvAtRest, SvDropsOnlyWhenFull
<1>4. CASE SvStopped
  BY <1>4 DEF SvStopped, SvKinds, SvShort, SvCount, SvOpen, SvWriterLast, SvAllGone, SvLastAccept, SvAtRest, SvDropsOnlyWhenFull
<1> QED BY <1>1, <1>2, <1>3, <1>4

(* Every step keeps it. *)
LEMMA SvStep == SvInv /\ [SvNext]_svVars => SvInv'
<1> SUFFICES ASSUME SvInv, [SvNext]_svVars PROVE SvInv'
  OBVIOUS
<1>1. CASE UNCHANGED svVars
  BY <1>1 DEF svVars, SvInv, SvKinds, SvShort, SvCount, SvOpen, SvWriterLast, SvAllGone, SvLastAccept, SvAtRest, SvDropsOnlyWhenFull
<1>2. CASE SvNext
  BY <1>2, SvOwnerSteps, SvListenerSteps, SvAcceptStep, SvQueryStep, SvConnectionSteps, SvWorkerSteps, SvWriterSteps
     DEF SvNext
<1> QED BY <1>1, <1>2

LEMMA SvStarts0 == SvInit => SvInv
<1> SUFFICES ASSUME SvInit PROVE SvInv
  OBVIOUS
<1>1. SvKinds
  <2>1. 1 \in SvWorkers /\ SvLogLimit \in Nat /\ MaxSvTasks \in Nat
    BY SvConstants DEF SvConstants, SvWorkers
  <2>2. <<>> \in Seq(SvConns \cup {SvUdp})
    OBVIOUS
  <2>3. svQueue \in [SvWorkers -> Seq(SvConns \cup {SvUdp})] /\ svWorker \in [SvWorkers -> {"running", "ended"}]
    BY <2>2 DEF SvInit
  <2>4. /\ svAccept \in [SvListeners -> {"accepting", "draining", "ended"}]
        /\ svRecv \in [SvListeners -> {"running", "ended"}]
        /\ svConn \in [SvConns -> {"none", "reading", "waiting", "answered"}]
    BY DEF SvInit
  <2>5. svLog \in 0..SvLogLimit /\ svTasks \in 0..MaxSvTasks /\ svNextWorker \in SvWorkers
    BY <2>1 DEF SvInit
  <2> QED BY <2>3, <2>4, <2>5 DEF SvInit, SvKinds
<1>2. SvOpen = {} /\ svActive = 0
  BY DEF SvInit, SvOpen
<1>3. SvCount
  <2>1. SvMaxConns \in Nat
    BY SvConstants DEF SvConstants
  <2> QED BY <1>2, <2>1, FS_EmptySet DEF SvCount
<1>4. SvShort
  <2>1. \A w \in SvWorkers : svQueue[w] = <<>> /\ svWorker[w] = "ended"
    BY DEF SvInit
  <2> QED BY <2>1 DEF SvShort
<1> QED BY <1>1, <1>3, <1>4 DEF SvInit, SvInv, SvWriterLast, SvAllGone, SvLastAccept, SvAtRest, SvDropsOnlyWhenFull

(* The inductive invariant of the server's threads. *)
THEOREM SvInvariant == SvSpec => []SvInv
BY SvStarts0, SvStep, PTL DEF SvSpec

(* The invariant is what the run checks, and more. *)
LEMMA SvSoundOf == SvInv => SvThreadsSound
<1> SUFFICES ASSUME SvInv PROVE SvThreadsSound
  OBVIOUS
<1>1. SvTypeOK
  BY DEF SvInv, SvKinds, SvShort, SvTypeOK
<1>2. SvSlotsCounted
  BY DEF SvInv, SvCount, SvOpen, SvSlotsCounted
<1>3. SvLogIsDrained
  BY DEF SvInv, SvWriterLast, SvLogIsDrained
<1> QED BY <1>1, <1>2, <1>3 DEF SvInv, SvThreadsSound

(* DnsServer between start and stop, with any number of workers, listeners   *)
(* and peers: the slots of active_tcp_connections are the open connections,  *)
(* the log's writer ends after the last entry, and dispatch_dns_work drops a *)
(* query only when every live queue is full.                                 *)
THEOREM SvThreadsCorrect == SvSpec => []SvThreadsSound
  BY SvSoundOf, SvInvariant, PTL

-----------------------------------------------------------------------------
(* The calls of the app. *)

BrCallRecords ==
    [phase : {"idle", "hello", "wait"}, method : BrMethods, seen : BrVersions, outcome : {"none", "ok", "failed"}]
BrConnStates == {"none", "queued", "greeting", "greeted", "asked", "answering", "restarting"}
BrEntries == [who : BrClients \cup {BrWake}, open : BOOLEAN]

BrKinds ==
    /\ brPlatform \in {"unix", "windows"} /\ brProc \in {"down", "up", "leaving"} /\ brVersion \in BrVersions
    /\ brBound \in BOOLEAN /\ brForeign \in BOOLEAN
    /\ brQueue \in Seq(BrEntries)
    /\ brConn \in [BrClients -> BrConnStates] /\ brCall \in [BrClients -> BrCallRecords]
    /\ brRuns \in [BrClients -> {0, 1}]

(* How far the two ends of a call may be apart: the server's end conn, the   *)
(* client's end call, what was carried out, and the version of the service.  *)
BrPath(conn, call, runs, version) ==
    /\ call.phase = "hello" => conn \in {"queued", "greeting", "greeted"}
    /\ call.phase = "wait" => conn \in {"asked", "answering"}
    /\ conn \in {"queued", "greeted"} => call.phase = "hello"
    /\ conn \in {"queued", "greeting", "greeted", "asked"} => runs = 0
    /\ conn \in {"answering", "restarting"} => runs = 1
    /\ call.phase = "idle" /\ call.outcome = "ok" => runs = 1
    /\ conn = "greeted" => call.seen = version
    /\ conn = "asked" /\ call.method.versioned => version = BrCurrent
BrPaths == \A c \in BrClients : BrPath(brConn[c], brCall[c], brRuns[c], brVersion)

(* A connection that waits to be accepted does so once, and its client waits.*)
BrLine ==
    /\ BrWindows => Len(brQueue) <= 1
    /\ \A i \in DOMAIN brQueue : brQueue[i].open /\ brQueue[i].who # BrWake => brConn[brQueue[i].who] = "queued"
    /\ \A i, j \in DOMAIN brQueue : brQueue[i].open /\ brQueue[i] = brQueue[j] => i = j

(* A process that is gone takes every connection with it. *)
BrNobodyHome ==
    brProc = "down" => ~brBound /\ \A c \in BrClients : brConn[c] = "none" /\ brCall[c].phase = "idle"

(* The accept loop of Windows has a connection in hand. *)
BrAtDoor == brLoop = "took" => BrWindows /\ brQueue # <<>>

(* The inductive invariant. *)
BrInv == BrKinds /\ BrPaths /\ BrLine /\ BrNobodyHome /\ BrVersionsMatch

LEMMA BrNamedMethods ==
    \A name \in {"ping", "core", "restart", "move"} : BrNamed(name) \in BrMethods
<1> TAKE name \in {"ping", "core", "restart", "move"}
<1>1. \E m \in BrMethods : m.name = name
  BY DEF BrMethods
<1> QED BY <1>1 DEF BrNamed

(* What a client keeps of a call that has ended. *)
LEMMA BrEndedIs ==
    ASSUME NEW call \in BrCallRecords, NEW outcome \in {"ok", "failed"}
    PROVE  /\ BrEnded(call, outcome) \in BrCallRecords
           /\ BrEnded(call, outcome).phase = "idle" /\ BrEnded(call, outcome).outcome = outcome
<1>1. BrIdle \in BrCallRecords
  <2>1. BrNamed("ping") \in BrMethods
    BY BrNamedMethods
  <2> QED BY <2>1 DEF BrIdle, BrCallRecords, BrVersions
<1>2. (IF outcome = "ok" /\ call.method.name = "ping" THEN call.seen ELSE 0) \in BrVersions
  BY DEF BrCallRecords, BrVersions
<1>3. BrEnded(call, outcome) =
        [BrIdle EXCEPT !.outcome = outcome,
                       !.seen = IF outcome = "ok" /\ call.method.name = "ping" THEN call.seen ELSE 0]
  BY DEF BrEnded
<1>4. BrEnded(call, outcome) \in BrCallRecords
  <2> DEFINE seen == IF outcome = "ok" /\ call.method.name = "ping" THEN call.seen ELSE 0
  <2>1. seen \in BrVersions
    BY <1>2
  <2>2. BrEnded(call, outcome) = [BrIdle EXCEPT !.outcome = outcome, !.seen = seen]
    BY <1>3
  <2> HIDE DEF seen
  <2> QED BY <1>1, <2>1, <2>2 DEF BrCallRecords
<1>5. BrEnded(call, outcome).phase = "idle" /\ BrEnded(call, outcome).outcome = outcome
  BY <1>3 DEF BrIdle
<1> QED BY <1>4, <1>5

(* A step of one client's connection: nothing happens to the others. *)
BrOnly(c) ==
    /\ UNCHANGED <<brPlatform, brProc, brVersion, brBound>>
    /\ brConn' \in [BrClients -> BrConnStates] /\ brCall' \in [BrClients -> BrCallRecords]
    /\ brRuns' \in [BrClients -> {0, 1}]
    /\ \A d \in BrClients \ {c} : brConn'[d] = brConn[d] /\ brCall'[d] = brCall[d] /\ brRuns'[d] = brRuns[d]

LEMMA BrOnlyPaths ==
    ASSUME BrInv, NEW c \in BrClients, BrOnly(c), BrPath(brConn'[c], brCall'[c], brRuns'[c], brVersion)
    PROVE  BrPaths'
<1>1. \A d \in BrClients \ {c} : BrPath(brConn'[d], brCall'[d], brRuns'[d], brVersion')
  BY DEF BrOnly, BrInv, BrPaths
<1>2. brVersion' = brVersion
  BY DEF BrOnly
<1> QED BY <1>1, <1>2 DEF BrPaths

(* A connection that does not wait to be accepted has no place in the queue. *)
LEMMA BrOnlyLine ==
    ASSUME BrInv, NEW c \in BrClients, BrOnly(c), brConn[c] # "queued", brQueue' = brQueue
    PROVE  BrLine'
<1>1. BrLine /\ BrKinds
  BY DEF BrInv
<1>2. \A i \in DOMAIN brQueue : brQueue[i].who \in BrClients \cup {BrWake}
  <2>1. \A i \in DOMAIN brQueue : brQueue[i] \in BrEntries
    BY <1>1 DEF BrKinds
  <2> QED BY <2>1 DEF BrEntries
<1> QED BY <1>1, <1>2 DEF BrOnly, BrLine, BrWindows

LEMMA BrOnlyKeeps ==
    ASSUME BrInv, NEW c \in BrClients, BrOnly(c), brConn[c] \notin {"queued", "none"}, brQueue' = brQueue,
           BrPath(brConn'[c], brCall'[c], brRuns'[c], brVersion), brForeign' = brForeign
    PROVE  BrInv'
<1>1. BrPaths' /\ BrLine'
  BY BrOnlyPaths, BrOnlyLine
<1>2. BrKinds'
  <2>1. UNCHANGED <<brPlatform, brProc, brVersion, brBound, brQueue, brForeign>>
    BY DEF BrOnly
  <2> QED BY <2>1 DEF BrInv, BrKinds, BrOnly
<1>3. brProc' # "down"
  BY DEF BrInv, BrNobodyHome, BrOnly
<1> QED BY <1>1, <1>2, <1>3 DEF BrInv, BrNobodyHome, BrVersionsMatch

(* What the state of a client's call is made of. *)
LEMMA BrHas ==
    ASSUME BrInv, NEW c \in BrClients
    PROVE  /\ brConn[c] \in BrConnStates /\ brCall[c] \in BrCallRecords /\ brRuns[c] \in {0, 1}
           /\ BrPath(brConn[c], brCall[c], brRuns[c], brVersion)
BY DEF BrInv, BrKinds, BrPaths

(* The end of a call at the client, however its connection goes on. *)
LEMMA BrEndOnly ==
    ASSUME BrInv, NEW c \in BrClients, NEW conn \in BrConnStates, NEW outcome \in {"ok", "failed"},
           brConn' = [brConn EXCEPT ![c] = conn], brCall' = BrEnd(c, outcome), UNCHANGED brRuns,
           UNCHANGED <<brPlatform, brProc, brVersion, brBound>>
    PROVE  /\ BrOnly(c) /\ brConn'[c] = conn /\ brRuns'[c] = brRuns[c]
           /\ brCall'[c].phase = "idle" /\ brCall'[c].outcome = outcome
<1>1. brCall[c] \in BrCallRecords
  BY BrHas
<1>2. brCall' = [brCall EXCEPT ![c] = BrEnded(brCall[c], outcome)]
  BY DEF BrEnd
<1>3. /\ BrEnded(brCall[c], outcome) \in BrCallRecords
      /\ BrEnded(brCall[c], outcome).phase = "idle" /\ BrEnded(brCall[c], outcome).outcome = outcome
  BY <1>1, BrEndedIs
<1>4. BrKinds
  BY DEF BrInv
<1>5. brCall'[c] = BrEnded(brCall[c], outcome) /\ brCall' \in [BrClients -> BrCallRecords]
  BY <1>2, <1>3, <1>4 DEF BrKinds
<1>6. brConn' \in [BrClients -> BrConnStates] /\ brConn'[c] = conn
  BY <1>4 DEF BrKinds
<1>7. \A d \in BrClients \ {c} : brConn'[d] = brConn[d] /\ brCall'[d] = brCall[d] /\ brRuns'[d] = brRuns[d]
  BY <1>2, <1>4 DEF BrKinds
<1> QED BY <1>3, <1>4, <1>5, <1>6, <1>7 DEF BrOnly, BrKinds

(* Greeting, request, execution and answer of one call. *)
LEMMA BrGreetStep ==
    ASSUME BrInv, NEW c \in BrClients, BrGreet(c)
    PROVE  BrInv'
<1>1. /\ brConn[c] = "greeting" /\ brCall[c] \in BrCallRecords
      /\ BrPath("greeting", brCall[c], brRuns[c], brVersion) /\ BrKinds
  BY BrHas DEF BrGreet, BrInv
<1>2. UNCHANGED <<brPlatform, brProc, brVersion, brBound, brQueue, brRuns, brForeign>>
  BY DEF BrGreet, brProcess, brDoor, brGhosts
<1>3. ASSUME brConn' = [brConn EXCEPT ![c] = "none"], brCall' = BrEnd(c, "failed")
      PROVE  BrInv'
  <2>1. /\ BrOnly(c) /\ brConn'[c] = "none" /\ brRuns'[c] = brRuns[c]
        /\ brCall'[c].phase = "idle" /\ brCall'[c].outcome = "failed"
    BY <1>2, <1>3, BrEndOnly DEF BrConnStates
  <2>2. BrPath(brConn'[c], brCall'[c], brRuns'[c], brVersion)
    BY <2>1 DEF BrPath
  <2> QED BY <1>1, <1>2, <2>1, <2>2, BrOnlyKeeps
<1>4. ASSUME brConn' = [brConn EXCEPT ![c] = "greeted"], brCall' = [brCall EXCEPT ![c].seen = brVersion],
             brCall[c].phase # "idle"
      PROVE  BrInv'
  <2>1. brCall[c].phase = "hello"
    BY <1>1, <1>4 DEF BrPath, BrCallRecords
  <2>2. PICK call \in BrCallRecords : /\ call = [brCall[c] EXCEPT !.seen = brVersion]
                                      /\ call.phase = "hello" /\ call.seen = brVersion
    <3>1. brVersion \in BrVersions
      BY <1>1 DEF BrKinds
    <3>2. [brCall[c] EXCEPT !.seen = brVersion] \in BrCallRecords
      BY <1>1, <3>1 DEF BrCallRecords
    <3>3. /\ [brCall[c] EXCEPT !.seen = brVersion].phase = "hello"
          /\ [brCall[c] EXCEPT !.seen = brVersion].seen = brVersion
      BY <1>1, <2>1 DEF BrCallRecords
    <3> QED BY <3>2, <3>3
  <2>3. brCall' = [brCall EXCEPT ![c] = call]
    BY <1>4, <2>2
  <2>4. brConn'[c] = "greeted" /\ brCall'[c] = call
    BY <1>1, <1>4, <2>3 DEF BrKinds
  <2>5. BrOnly(c)
    BY <1>1, <1>2, <1>4, <2>3 DEF BrOnly, BrKinds, BrConnStates
  <2>6. BrPath(brConn'[c], brCall'[c], brRuns'[c], brVersion)
    BY <1>1, <1>2, <2>2, <2>4 DEF BrPath
  <2> QED BY <1>1, <1>2, <2>5, <2>6, BrOnlyKeeps
<1> QED BY <1>3, <1>4 DEF BrGreet

LEMMA BrAskStep ==
    ASSUME BrInv, NEW c \in BrClients, BrAsk(c)
    PROVE  BrInv'
<1>1. /\ brConn[c] = "greeted" /\ brCall[c] \in BrCallRecords
      /\ BrPath("greeted", brCall[c], brRuns[c], brVersion) /\ BrKinds
  BY BrHas DEF BrAsk, BrInv
<1>2. UNCHANGED <<brPlatform, brProc, brVersion, brBound, brQueue, brRuns, brForeign>>
  BY DEF BrAsk, brProcess, brDoor, brGhosts
<1>3. CASE BrAccepts(c)
  <2>1. brConn' = [brConn EXCEPT ![c] = "asked"] /\ brCall' = [brCall EXCEPT ![c].phase = "wait"]
    BY <1>3 DEF BrAsk
  <2>2. PICK call \in BrCallRecords : /\ call = [brCall[c] EXCEPT !.phase = "wait"]
                                      /\ call.phase = "wait" /\ call.method = brCall[c].method
    <3>1. [brCall[c] EXCEPT !.phase = "wait"] \in BrCallRecords
      BY <1>1 DEF BrCallRecords
    <3>2. /\ [brCall[c] EXCEPT !.phase = "wait"].phase = "wait"
          /\ [brCall[c] EXCEPT !.phase = "wait"].method = brCall[c].method
      BY <1>1 DEF BrCallRecords
    <3> QED BY <3>1, <3>2
  <2>3. brCall' = [brCall EXCEPT ![c] = call]
    BY <2>1, <2>2
  <2>4. brConn'[c] = "asked" /\ brCall'[c] = call
    BY <1>1, <2>1, <2>3 DEF BrKinds
  <2>5. BrOnly(c)
    BY <1>1, <1>2, <2>1, <2>3 DEF BrOnly, BrKinds, BrConnStates
  <2>6. BrPath(brConn'[c], brCall'[c], brRuns'[c], brVersion)
    BY <1>1, <1>2, <1>3, <2>2, <2>4 DEF BrPath, BrAccepts
  <2> QED BY <1>1, <1>2, <2>5, <2>6, BrOnlyKeeps
<1>4. CASE ~BrAccepts(c)
  <2>1. brConn' = [brConn EXCEPT ![c] = "none"] /\ brCall' = BrEnd(c, "failed")
    BY <1>4 DEF BrAsk
  <2>2. /\ BrOnly(c) /\ brConn'[c] = "none" /\ brRuns'[c] = brRuns[c]
        /\ brCall'[c].phase = "idle" /\ brCall'[c].outcome = "failed"
    BY <1>2, <2>1, BrEndOnly DEF BrConnStates
  <2>3. BrPath(brConn'[c], brCall'[c], brRuns'[c], brVersion)
    BY <2>2 DEF BrPath
  <2> QED BY <1>1, <1>2, <2>2, <2>3, BrOnlyKeeps
<1> QED BY <1>3, <1>4

LEMMA BrWorkStep ==
    ASSUME BrInv, NEW c \in BrClients, BrWork(c)
    PROVE  BrInv'
<1>1. /\ brConn[c] = "asked" /\ brCall[c] \in BrCallRecords /\ brRuns[c] \in {0, 1}
      /\ BrPath("asked", brCall[c], brRuns[c], brVersion) /\ BrKinds
  BY BrHas DEF BrWork, BrInv
<1>2. UNCHANGED <<brPlatform, brProc, brVersion, brBound, brQueue, brCall>>
  BY DEF BrWork, brProcess, brDoor
<1>3. brConn' = [brConn EXCEPT ![c] = "answering"] /\ brRuns' = [brRuns EXCEPT ![c] = 1]
  <2>1. brRuns[c] = 0 /\ 0 + 1 = 1
    BY <1>1 DEF BrPath
  <2>2. brConn' = [brConn EXCEPT ![c] = "answering"] /\ brRuns' = [brRuns EXCEPT ![c] = brRuns[c] + 1]
    BY DEF BrWork
  <2> QED BY <2>1, <2>2
<1>4. brConn'[c] = "answering" /\ brRuns'[c] = 1
  BY <1>1, <1>3 DEF BrKinds
<1>5. BrOnly(c)
  BY <1>1, <1>2, <1>3 DEF BrOnly, BrKinds, BrConnStates
<1>6. BrPath(brConn'[c], brCall'[c], brRuns'[c], brVersion)
  BY <1>1, <1>2, <1>4 DEF BrPath
<1>7. brForeign' = brForeign
  <2>1. brForeign = FALSE
    BY DEF BrInv, BrKinds, BrVersionsMatch
  <2>2. brForeign' = (brForeign \/ (brCall[c].method.versioned /\ brVersion # BrCurrent))
    BY DEF BrWork
  <2>3. ~(brCall[c].method.versioned /\ brVersion # BrCurrent)
    BY <1>1 DEF BrPath
  <2> QED BY <2>1, <2>2, <2>3
<1> QED BY <1>1, <1>2, <1>5, <1>6, <1>7, BrOnlyKeeps

LEMMA BrAnswerStep ==
    ASSUME BrInv, NEW c \in BrClients, BrAnswer(c)
    PROVE  BrInv'
<1>1. /\ brConn[c] = "answering" /\ brCall[c] \in BrCallRecords /\ brRuns[c] \in {0, 1}
      /\ BrPath("answering", brCall[c], brRuns[c], brVersion) /\ BrKinds
  BY BrHas DEF BrAnswer, BrInv
<1>2. UNCHANGED <<brPlatform, brProc, brVersion, brBound, brQueue, brRuns, brForeign>>
  BY DEF BrAnswer, brProcess, brDoor
<1>3. PICK conn \in {"none", "restarting"}, outcome \in {"ok", "failed"} :
          brConn' = [brConn EXCEPT ![c] = conn] /\ brCall' = BrEnd(c, outcome)
  BY DEF BrAnswer
<1>4. /\ BrOnly(c) /\ brConn'[c] = conn /\ brRuns'[c] = brRuns[c]
      /\ brCall'[c].phase = "idle" /\ brCall'[c].outcome = outcome
  BY <1>2, <1>3, BrEndOnly DEF BrConnStates
<1>5. BrPath(brConn'[c], brCall'[c], brRuns'[c], brVersion)
  BY <1>1, <1>4 DEF BrPath
<1> QED BY <1>1, <1>2, <1>4, <1>5, BrOnlyKeeps

LEMMA BrRaiseStep ==
    ASSUME BrInv, NEW c \in BrClients, BrRaise(c)
    PROVE  BrInv'
<1>1. /\ brConn[c] = "restarting" /\ brCall[c] \in BrCallRecords /\ brRuns[c] \in {0, 1}
      /\ BrPath("restarting", brCall[c], brRuns[c], brVersion) /\ BrKinds
  BY BrHas DEF BrRaise, BrInv
<1>2. /\ UNCHANGED <<brPlatform, brProc, brVersion, brBound, brQueue, brCall, brRuns, brForeign>>
      /\ brConn' = [brConn EXCEPT ![c] = "none"]
  BY DEF BrRaise, brGhosts
<1>3. brConn'[c] = "none"
  BY <1>1, <1>2 DEF BrKinds
<1>4. BrOnly(c)
  BY <1>1, <1>2 DEF BrOnly, BrKinds, BrConnStates
<1>5. BrPath(brConn'[c], brCall'[c], brRuns'[c], brVersion)
  BY <1>1, <1>2, <1>3 DEF BrPath, BrCallRecords
<1> QED BY <1>1, <1>2, <1>4, <1>5, BrOnlyKeeps

(* The client connects: BrEnsure and BrDial. *)
LEMMA BrConnectStep ==
    ASSUME BrInv, NEW c \in BrClients, NEW method \in BrMethods, BrConnect(c, method)
    PROVE  BrInv'
<1> DEFINE entry == [who |-> c, open |-> TRUE]
           call == [phase |-> "hello", method |-> method, seen |-> 0, outcome |-> "none"]
<1>1. BrKinds /\ BrPaths /\ BrLine /\ brConn[c] = "none" /\ BrConnectable
  BY DEF BrInv, BrConnect
<1>2. /\ UNCHANGED <<brPlatform, brProc, brVersion, brBound, brForeign>>
      /\ brQueue' = Append(brQueue, entry) /\ brConn' = [brConn EXCEPT ![c] = "queued"]
      /\ brCall' = [brCall EXCEPT ![c] = call] /\ brRuns' = [brRuns EXCEPT ![c] = 0]
  BY DEF BrConnect, brProcess
<1>3. call \in BrCallRecords /\ call.phase = "hello"
  BY DEF BrCallRecords, BrVersions
<1>4. entry \in BrEntries /\ entry.who = c /\ entry.open = TRUE
  BY DEF BrEntries
<1> HIDE DEF entry, call
<1>5. /\ Len(brQueue) \in Nat /\ DOMAIN brQueue = 1..Len(brQueue)
      /\ brQueue' \in Seq(BrEntries) /\ Len(brQueue') = Len(brQueue) + 1
      /\ DOMAIN brQueue' = 1..(Len(brQueue) + 1)
      /\ \A i \in 1..Len(brQueue) : brQueue'[i] = brQueue[i] /\ brQueue[i] \in BrEntries
      /\ brQueue'[Len(brQueue) + 1] = entry
  BY <1>1, <1>2, <1>4 DEF BrKinds
<1>6. brConn'[c] = "queued" /\ brCall'[c] = call /\ brRuns'[c] = 0
  BY <1>1, <1>2 DEF BrKinds
<1>7. BrOnly(c)
  BY <1>1, <1>2, <1>3 DEF BrOnly, BrKinds, BrConnStates
<1>8. BrKinds'
  BY <1>1, <1>2, <1>5, <1>7 DEF BrKinds, BrOnly
<1>9. BrPaths'
  <2>1. BrPath(brConn'[c], brCall'[c], brRuns'[c], brVersion)
    BY <1>3, <1>6 DEF BrPath
  <2> QED BY <1>7, <2>1, BrOnlyPaths
<1>10. BrLine'
  <2>1. BrWindows' => Len(brQueue') <= 1
    <3> SUFFICES ASSUME BrWindows PROVE Len(brQueue') <= 1
      BY <1>2 DEF BrWindows
    <3>1. brQueue = <<>>
      BY <1>1 DEF BrConnectable
    <3> QED BY <1>5, <3>1
  <2>2. \A i \in 1..Len(brQueue) : brQueue[i].open /\ brQueue[i].who # BrWake =>
            brConn[brQueue[i].who] = "queued" /\ brQueue[i].who # c /\ brQueue[i].who \in BrClients
    BY <1>1, <1>5 DEF BrLine, BrEntries
  <2>3. \A i \in DOMAIN brQueue' : brQueue'[i].open /\ brQueue'[i].who # BrWake => brConn'[brQueue'[i].who] = "queued"
    <3> TAKE i \in DOMAIN brQueue'
    <3>1. CASE i \in 1..Len(brQueue)
      BY <1>5, <1>7, <2>2, <3>1 DEF BrOnly
    <3>2. CASE i = Len(brQueue) + 1
      BY <1>4, <1>5, <1>6, <3>2
    <3> QED BY <1>5, <3>1, <3>2
  <2>4. c # BrWake
    BY BrConstants DEF BrConstants
  <2>5. ASSUME NEW i \in 1..Len(brQueue), brQueue'[i] = entry
        PROVE  FALSE
    <3>1. brQueue[i].open = TRUE /\ brQueue[i].who = c
      BY <1>4, <1>5, <2>5
    <3> QED BY <2>2, <2>4, <3>1
  <2>6. \A i, j \in DOMAIN brQueue' : brQueue'[i].open /\ brQueue'[i] = brQueue'[j] => i = j
    <3> TAKE i, j \in DOMAIN brQueue'
    <3>1. CASE i \in 1..Len(brQueue) /\ j \in 1..Len(brQueue)
      BY <1>1, <1>5, <3>1 DEF BrLine
    <3>2. CASE i = Len(brQueue) + 1 \/ j = Len(brQueue) + 1
      BY <1>5, <2>5, <3>2
    <3> QED BY <1>5, <3>1, <3>2
  <2> QED BY <2>1, <2>3, <2>6 DEF BrLine
<1>11. BrNobodyHome'
  BY <1>1, <1>2 DEF BrInv, BrNobodyHome, BrConnectable
<1> QED BY <1>2, <1>8, <1>9, <1>10, <1>11 DEF BrInv, BrVersionsMatch

(* Entries of one caller are closed: the line loses it and nothing else. *)
LEMMA BrCloses ==
    ASSUME BrInv, NEW who \in BrClients \cup {BrWake},
           brQueue' = [i \in DOMAIN brQueue |->
                          IF brQueue[i].who = who THEN [brQueue[i] EXCEPT !.open = FALSE] ELSE brQueue[i]],
           brPlatform' = brPlatform,
           \A d \in BrClients \ {who} : brConn[d] = "queued" => brConn'[d] = "queued"
    PROVE  brQueue' \in Seq(BrEntries) /\ BrLine'
<1>1. BrKinds /\ BrLine
  BY DEF BrInv
<1>2. /\ Len(brQueue) \in Nat /\ DOMAIN brQueue = 1..Len(brQueue)
      /\ \A i \in 1..Len(brQueue) : brQueue[i] \in BrEntries
  BY <1>1 DEF BrKinds
<1>3. ASSUME NEW i \in 1..Len(brQueue), brQueue[i].who = who
      PROVE  brQueue'[i] \in BrEntries /\ brQueue'[i].who = who /\ brQueue'[i].open = FALSE
  <2>1. brQueue'[i] = [brQueue[i] EXCEPT !.open = FALSE]
    BY <1>2, <1>3
  <2>2. brQueue[i] \in BrEntries
    BY <1>2
  <2>3. [brQueue[i] EXCEPT !.open = FALSE] \in BrEntries
    BY <2>2 DEF BrEntries
  <2>4. /\ [brQueue[i] EXCEPT !.open = FALSE].who = brQueue[i].who
        /\ [brQueue[i] EXCEPT !.open = FALSE].open = FALSE
    BY <2>2 DEF BrEntries
  <2> QED BY <1>3, <2>1, <2>3, <2>4
<1>4. \A i \in 1..Len(brQueue) : brQueue[i].who # who => brQueue'[i] = brQueue[i]
  BY <1>2
<1>5. \A i \in 1..Len(brQueue) : brQueue'[i] \in BrEntries
  BY <1>2, <1>3, <1>4
<1>6. brQueue' = [i \in 1..Len(brQueue) |-> brQueue'[i]]
  BY <1>2
<1>7. brQueue' \in Seq(BrEntries) /\ Len(brQueue') = Len(brQueue) /\ DOMAIN brQueue' = 1..Len(brQueue)
  <2>1. brQueue' \in [1..Len(brQueue) -> BrEntries]
    BY <1>5, <1>6
  <2> QED BY <1>2, <2>1
<1>8. BrWindows' => Len(brQueue') <= 1
  BY <1>1, <1>7 DEF BrWindows, BrLine
<1>9. \A i \in DOMAIN brQueue' : brQueue'[i].open /\ brQueue'[i].who # BrWake => brConn'[brQueue'[i].who] = "queued"
  <2> SUFFICES ASSUME NEW i \in 1..Len(brQueue), brQueue'[i].open, brQueue'[i].who # BrWake
               PROVE  brConn'[brQueue'[i].who] = "queued"
    BY <1>7
  <2>1. brQueue'[i] = brQueue[i] /\ brQueue[i].who # who
    BY <1>3, <1>4
  <2>2. brConn[brQueue[i].who] = "queued" /\ brQueue[i].who \in BrClients
    BY <1>1, <1>2, <2>1 DEF BrLine, BrEntries
  <2> QED BY <2>1, <2>2
<1>10. \A i, j \in DOMAIN brQueue' : brQueue'[i].open /\ brQueue'[i] = brQueue'[j] => i = j
  <2> SUFFICES ASSUME NEW i \in 1..Len(brQueue), NEW j \in 1..Len(brQueue), brQueue'[i].open, brQueue'[i] = brQueue'[j]
               PROVE  i = j
    BY <1>7
  <2>1. brQueue'[i] = brQueue[i] /\ brQueue'[j] = brQueue[j]
    BY <1>3, <1>4
  <2> QED BY <1>1, <1>2, <2>1 DEF BrLine
<1> QED BY <1>7, <1>8, <1>9, <1>10 DEF BrLine

(* RPC_TIMEOUT, or the app is closed. *)
LEMMA BrGiveUpStep ==
    ASSUME BrInv, NEW c \in BrClients, BrGiveUp(c)
    PROVE  BrInv'
<1>1. /\ BrKinds /\ brCall[c].phase # "idle"
      /\ brConn[c] \in BrConnStates /\ brCall[c] \in BrCallRecords /\ brRuns[c] \in {0, 1}
      /\ BrPath(brConn[c], brCall[c], brRuns[c], brVersion)
  BY BrHas DEF BrInv, BrGiveUp
<1>2. /\ UNCHANGED <<brPlatform, brProc, brVersion, brBound, brRuns, brForeign>>
      /\ brConn' = [brConn EXCEPT ![c] = IF @ \in {"queued", "greeted"} THEN "none" ELSE @]
      /\ brCall' = [brCall EXCEPT ![c].phase = "idle", ![c].outcome = "failed"]
  BY DEF BrGiveUp, brProcess, brGhosts
<1>3. PICK call \in BrCallRecords : /\ call = [brCall[c] EXCEPT !.phase = "idle", !.outcome = "failed"]
                                    /\ call.phase = "idle" /\ call.outcome = "failed"
                                    /\ call.method = brCall[c].method
  <2>1. [brCall[c] EXCEPT !.phase = "idle", !.outcome = "failed"] \in BrCallRecords
    BY <1>1 DEF BrCallRecords
  <2>2. /\ [brCall[c] EXCEPT !.phase = "idle", !.outcome = "failed"].phase = "idle"
        /\ [brCall[c] EXCEPT !.phase = "idle", !.outcome = "failed"].outcome = "failed"
        /\ [brCall[c] EXCEPT !.phase = "idle", !.outcome = "failed"].method = brCall[c].method
    BY <1>1 DEF BrCallRecords
  <2> QED BY <2>1, <2>2
<1>4. brCall' = [brCall EXCEPT ![c] = call]
  BY <1>1, <1>2, <1>3 DEF BrKinds
<1>5. brCall'[c] = call /\ brConn'[c] \in BrConnStates
      /\ brConn'[c] = IF brConn[c] \in {"queued", "greeted"} THEN "none" ELSE brConn[c]
  BY <1>1, <1>2, <1>4 DEF BrKinds, BrConnStates
<1>6. BrOnly(c)
  BY <1>1, <1>2, <1>4, <1>5 DEF BrOnly, BrKinds
<1>7. BrPaths'
  <2>1. brConn[c] \in {"queued", "greeting", "greeted", "asked", "answering"}
    BY <1>1 DEF BrPath, BrCallRecords
  <2>2. brConn'[c] = "none" \/ (brConn'[c] = brConn[c] /\ brConn[c] \in {"greeting", "asked", "answering"})
    BY <1>5, <2>1
  <2>3. brCall'[c] = call /\ brRuns'[c] = brRuns[c]
    BY <1>2, <1>5
  <2>4. CASE brConn'[c] = "none"
    BY <1>3, <2>3, <2>4, BrOnlyPaths, <1>6 DEF BrPath
  <2>5. CASE brConn'[c] = brConn[c] /\ brConn[c] \in {"greeting", "asked", "answering"}
    <3>1. BrPath(brConn[c], call, brRuns[c], brVersion)
      BY <1>1, <1>3, <2>5 DEF BrPath
    <3> QED BY <1>6, <2>3, <2>5, <3>1, BrOnlyPaths
  <2> QED BY <2>2, <2>4, <2>5
<1>8. brQueue' \in Seq(BrEntries) /\ BrLine'
  BY <1>2, <1>6, BrCloses DEF BrGiveUp, BrOnly
<1>9. BrKinds'
  BY <1>1, <1>2, <1>6, <1>8 DEF BrKinds, BrOnly
<1>10. BrNobodyHome'
  BY <1>1, <1>2 DEF BrInv, BrNobodyHome
<1> QED BY <1>2, <1>7, <1>8, <1>9, <1>10 DEF BrInv, BrVersionsMatch

(* The accept loop takes the connection that has waited longest. *)
LEMMA BrTakes ==
    ASSUME BrInv, brQueue # <<>>, brProc # "down",
           brConn' = [c \in BrClients |-> IF Head(brQueue) = [who |-> c, open |-> TRUE] THEN "greeting" ELSE brConn[c]],
           UNCHANGED <<brPlatform, brProc, brVersion, brCall, brRuns, brForeign>>,
           brBound' \in BOOLEAN, brQueue' = Tail(brQueue)
    PROVE  BrInv'
<1>1. BrKinds /\ BrLine /\ BrPaths
  BY DEF BrInv
<1>2. /\ Len(brQueue) \in Nat \ {0} /\ DOMAIN brQueue = 1..Len(brQueue)
      /\ \A i \in 1..Len(brQueue) : brQueue[i] \in BrEntries
      /\ brQueue' \in Seq(BrEntries) /\ Len(brQueue') = Len(brQueue) - 1
      /\ DOMAIN brQueue' = 1..(Len(brQueue) - 1)
      /\ \A i \in 1..(Len(brQueue) - 1) : brQueue'[i] = brQueue[i + 1]
      /\ Head(brQueue) = brQueue[1]
  BY <1>1 DEF BrKinds
<1>3. ASSUME NEW c \in BrClients, brQueue[1] = [who |-> c, open |-> TRUE]
      PROVE  brConn[c] = "queued" /\ brConn'[c] = "greeting"
  <2>1. brQueue[1].who = c /\ brQueue[1].open = TRUE /\ c # BrWake
    BY <1>3, BrConstants DEF BrConstants
  <2>2. brConn[c] = "queued"
    BY <1>1, <1>2, <2>1 DEF BrLine
  <2> QED BY <1>2, <1>3, <2>2
<1>4. \A c \in BrClients : brQueue[1] # [who |-> c, open |-> TRUE] => brConn'[c] = brConn[c]
  BY <1>2
<1>5. BrPaths'
  <2> SUFFICES ASSUME NEW c \in BrClients PROVE BrPath(brConn'[c], brCall[c], brRuns[c], brVersion)
    BY DEF BrPaths
  <2>1. BrPath(brConn[c], brCall[c], brRuns[c], brVersion)
    BY <1>1 DEF BrPaths
  <2>2. CASE brQueue[1] = [who |-> c, open |-> TRUE]
    BY <1>3, <2>1, <2>2 DEF BrPath
  <2>3. CASE brQueue[1] # [who |-> c, open |-> TRUE]
    BY <1>4, <2>1, <2>3
  <2> QED BY <2>2, <2>3
<1>6. BrKinds'
  <2>1. \A c \in BrClients : brConn'[c] \in BrConnStates
    BY <1>1, <1>3, <1>4 DEF BrKinds, BrConnStates
  <2>2. brConn' \in [BrClients -> BrConnStates]
    BY <2>1
  <2> QED BY <1>1, <1>2, <2>2 DEF BrKinds
<1>7. BrLine'
  <2>1. BrWindows' => Len(brQueue') <= 1
    <3>1. brPlatform' = brPlatform
      OBVIOUS
    <3>2. BrWindows => Len(brQueue) <= 1
      BY <1>1 DEF BrLine
    <3> QED BY <1>2, <3>1, <3>2 DEF BrWindows
  <2>2. ASSUME NEW i \in 1..(Len(brQueue) - 1), brQueue'[i].open, brQueue'[i].who # BrWake
        PROVE  brConn'[brQueue'[i].who] = "queued"
    <3>1. i + 1 \in 1..Len(brQueue) /\ i + 1 # 1 /\ brQueue'[i] = brQueue[i + 1]
      BY <1>2
    <3>2. PICK d \in BrClients : d = brQueue[i + 1].who
      BY <1>2, <2>2, <3>1 DEF BrEntries
    <3>3. brConn[d] = "queued"
      BY <1>1, <1>2, <2>2, <3>1, <3>2 DEF BrLine
    <3>4. brQueue[i + 1] = [who |-> d, open |-> TRUE]
      BY <1>2, <2>2, <3>1, <3>2 DEF BrEntries
    <3>5. brQueue[1] # brQueue[i + 1]
      <4>1. 1 \in DOMAIN brQueue /\ i + 1 \in DOMAIN brQueue /\ brQueue[i + 1].open
        BY <1>2, <2>2, <3>1
      <4> QED BY <1>1, <3>1, <4>1 DEF BrLine
    <3> QED BY <1>4, <3>1, <3>2, <3>3, <3>4, <3>5
  <2>3. ASSUME NEW i \in 1..(Len(brQueue) - 1), NEW j \in 1..(Len(brQueue) - 1),
               brQueue'[i].open, brQueue'[i] = brQueue'[j]
        PROVE  i = j
    <3>1. i + 1 \in DOMAIN brQueue /\ j + 1 \in DOMAIN brQueue /\ brQueue'[i] = brQueue[i + 1] /\ brQueue'[j] = brQueue[j + 1]
      BY <1>2
    <3>2. i + 1 = j + 1
      BY <1>1, <2>3, <3>1 DEF BrLine
    <3> QED BY <1>2, <3>2
  <2> QED BY <1>2, <2>1, <2>2, <2>3 DEF BrLine
<1> QED BY <1>5, <1>6, <1>7 DEF BrInv, BrNobodyHome, BrVersionsMatch

(* A thread of the service that touches no call and no entry. *)
LEMMA BrKeeps ==
    ASSUME BrInv, UNCHANGED <<brPlatform, brVersion, brQueue, brConn, brCall, brRuns, brForeign>>,
           brProc' \in {"up", "leaving"} \/ (brProc' = brProc /\ (brBound' => brBound)), brBound' \in BOOLEAN
    PROVE  BrInv'
<1>1. BrKinds'
  BY DEF BrInv, BrKinds
<1>2. BrPaths' /\ BrLine'
  BY DEF BrInv, BrPaths, BrLine, BrWindows
<1> QED BY <1>1, <1>2 DEF BrInv, BrNobodyHome, BrVersionsMatch

(* The process is gone. *)
LEMMA BrGoneStep ==
    ASSUME BrInv, BrGone
    PROVE  BrInv'
<1>1. BrKinds /\ BrPaths
  BY DEF BrInv
<1>2. /\ UNCHANGED <<brPlatform, brVersion, brRuns, brForeign>>
      /\ brProc' = "down" /\ brBound' = FALSE /\ brQueue' = <<>>
      /\ \A c \in BrClients : brConn'[c] = "none"
      /\ brConn' \in [BrClients -> BrConnStates]
  BY DEF BrGone, BrConnStates
<1>3. ASSUME NEW c \in BrClients
      PROVE  /\ brCall'[c] \in BrCallRecords /\ brCall'[c].phase = "idle"
             /\ BrPath("none", brCall'[c], brRuns[c], brVersion)
  <2>1. brCall[c] \in BrCallRecords /\ BrPath(brConn[c], brCall[c], brRuns[c], brVersion)
    BY BrHas
  <2>2. brCall'[c] = IF brCall[c].phase = "idle" THEN brCall[c] ELSE BrEnded(brCall[c], "failed")
    BY DEF BrGone, BrBroken
  <2>3. CASE brCall[c].phase = "idle"
    BY <2>1, <2>2, <2>3 DEF BrPath
  <2>4. CASE brCall[c].phase # "idle"
    <3>1. /\ brCall'[c] \in BrCallRecords
          /\ brCall'[c].phase = "idle" /\ brCall'[c].outcome = "failed"
      BY <2>1, <2>2, <2>4, BrEndedIs
    <3> QED BY <3>1 DEF BrPath
  <2> QED BY <2>3, <2>4
<1>4. brCall' \in [BrClients -> BrCallRecords]
  BY <1>3 DEF BrGone
<1>5. BrKinds'
  <2>1. <<>> \in Seq(BrEntries) /\ brProc' \in {"down", "up", "leaving"}
    BY <1>2
  <2>2. brQueue' \in Seq(BrEntries) /\ brBound' \in BOOLEAN
    BY <1>2, <2>1
  <2> QED BY <1>1, <1>2, <1>4, <2>1, <2>2 DEF BrKinds
<1>6. BrPaths'
  BY <1>2, <1>3 DEF BrPaths
<1>7. BrLine'
  BY <1>2 DEF BrLine
<1> QED BY <1>2, <1>3, <1>5, <1>6, <1>7 DEF BrInv, BrNobodyHome, BrVersionsMatch

(* Whoever stands at the door stays there until the loop has looked. *)
LEMMA BrDoorStep ==
    ASSUME BrInv, BrAtDoor, BrNext
    PROVE  BrAtDoor'
<1>1. brQueue \in Seq(BrEntries)
  BY DEF BrInv, BrKinds
<1>2. \A entry \in BrEntries : Append(brQueue, entry) # <<>>
  <2> TAKE entry \in BrEntries
  <2>1. Len(Append(brQueue, entry)) = Len(brQueue) + 1 /\ Len(brQueue) \in Nat
    BY <1>1
  <2>2. Len(<<>>) = 0
    OBVIOUS
  <2> QED BY <2>1, <2>2
<1>3. ASSUME NEW who, brQueue # <<>>
      PROVE  [i \in DOMAIN brQueue |->
                 IF brQueue[i].who = who THEN [brQueue[i] EXCEPT !.open = FALSE] ELSE brQueue[i]] # <<>>
  <2>1. 1 \in DOMAIN brQueue
    BY <1>1, <1>3
  <2> QED BY <2>1
<1>4. brPlatform' = brPlatform
  BY DEF BrNext, BrEnsure, BrDial, BrConnect, BrServed, BrGreet, BrAsk, BrWork, BrAnswer, BrRaise, BrGiveUp,
         BrProcessStep, BrAccept, BrTop, BrTake, BrServe, BrLeave, BrExit, BrGone, BrAcceptFails, BrStart,
         BrWakerStep, BrWakeUp, BrWakeFails, BrHangUp, BrDies, BrStopService, brProcess
<1>5. ASSUME NEW c \in BrClients, NEW method, BrConnect(c, method)
      PROVE  BrAtDoor'
  <2>1. [who |-> c, open |-> TRUE] \in BrEntries
    BY DEF BrEntries
  <2> QED BY <1>2, <1>4, <1>5, <2>1 DEF BrConnect, BrAtDoor, BrWindows
<1>6. ASSUME NEW c \in BrClients, BrServed(c)
      PROVE  BrAtDoor'
  BY <1>4, <1>6 DEF BrServed, BrGreet, BrAsk, BrWork, BrAnswer, BrRaise, BrAtDoor, BrWindows, brDoor
<1>7. ASSUME NEW c \in BrClients, BrGiveUp(c)
      PROVE  BrAtDoor'
  BY <1>3, <1>4, <1>7 DEF BrGiveUp, BrAtDoor, BrWindows
<1>8. CASE BrAccept \/ BrTop \/ BrTake \/ BrServe \/ BrLeave \/ BrStart
  BY <1>4, <1>8 DEF BrAccept, BrTop, BrTake, BrServe, BrLeave, BrStart, BrAtDoor, BrWindows, brDoor
<1>9. CASE BrExit \/ BrAcceptFails \/ BrDies
  BY <1>9 DEF BrExit, BrAcceptFails, BrDies, BrGone, BrAtDoor
<1>10. CASE BrWakeUp \/ BrWakeFails \/ BrStopService
  BY <1>4, <1>10 DEF BrWakeUp, BrWakeFails, BrStopService, BrAtDoor, BrWindows
<1>11. CASE BrHangUp
  BY <1>3, <1>4, <1>11 DEF BrHangUp, BrAtDoor, BrWindows
<1> QED BY <1>5, <1>6, <1>7, <1>8, <1>9, <1>10, <1>11 DEF BrNext, BrEnsure, BrDial, BrProcessStep, BrWakerStep

(* The threads of the service. *)
LEMMA BrProcessSteps ==
    ASSUME BrInv, BrAtDoor, BrProcessStep
    PROVE  BrInv'
<1>1. CASE BrAccept
  BY <1>1, BrTakes DEF BrAccept, brProcess, brGhosts, BrInv, BrKinds
<1>2. CASE BrTop \/ BrLeave
  BY <1>2, BrKeeps DEF BrTop, BrLeave, brProcess, brDoor, brGhosts, BrInv, BrKinds
<1>3. CASE BrTake
  BY <1>3, BrKeeps DEF BrTake, brProcess, brGhosts
<1>4. CASE BrServe
  <2>1. brQueue # <<>> /\ brQueue \in Seq(BrEntries) /\ Len(brQueue) <= 1
    BY <1>4 DEF BrServe, BrAtDoor, BrInv, BrKinds, BrLine
  <2>2. Tail(brQueue) = <<>>
    BY <2>1
  <2> QED BY <1>4, <2>1, <2>2, BrTakes DEF BrServe, brProcess, brGhosts
<1>5. CASE BrExit \/ BrAcceptFails
  BY <1>5, BrGoneStep DEF BrExit, BrAcceptFails
<1>6. CASE BrStart
  <2>1. BrKinds /\ \A c \in BrClients : brConn[c] = "none" /\ brCall[c].phase = "idle"
    BY <1>6 DEF BrStart, BrInv, BrNobodyHome
  <2>2. BrPaths'
    BY <1>6, <2>1 DEF BrStart, BrInv, BrPaths, BrPath, brGhosts
  <2>3. BrKinds' /\ BrLine'
    BY <1>6 DEF BrStart, BrInv, BrKinds, BrLine, BrWindows, BrVersions, BrCurrent, brGhosts
  <2> QED BY <1>6, <2>2, <2>3 DEF BrStart, BrInv, BrNobodyHome, BrVersionsMatch, brGhosts
<1> QED BY <1>1, <1>2, <1>3, <1>4, <1>5, <1>6 DEF BrProcessStep

(* wake_server, and a stop. *)
LEMMA BrWakerSteps ==
    ASSUME BrInv, BrWakerStep \/ BrStopService
    PROVE  BrInv'
<1>1. CASE BrWakeFails \/ BrStopService
  BY <1>1, BrKeeps DEF BrWakeFails, BrStopService, brProcess, brGhosts, BrInv, BrKinds
<1>2. CASE BrWakeUp
  <2> DEFINE entry == [who |-> BrWake, open |-> TRUE]
  <2>1. entry \in BrEntries /\ entry.who = BrWake
    BY DEF BrEntries
  <2>2. /\ brQueue' = <<entry>> /\ brBound /\ brBound' = brBound
        /\ UNCHANGED <<brPlatform, brProc, brVersion, brConn, brCall, brRuns, brForeign>>
    BY <1>2 DEF BrWakeUp, BrConnectable, brProcess, brGhosts
  <2> HIDE DEF entry
  <2>3. brQueue' \in Seq(BrEntries) /\ Len(brQueue') = 1 /\ DOMAIN brQueue' = {1} /\ brQueue'[1] = entry
    BY <2>1, <2>2
  <2>4. BrLine'
    BY <2>1, <2>3 DEF BrLine
  <2>5. BrKinds' /\ BrPaths'
    BY <2>2, <2>3 DEF BrInv, BrKinds, BrPaths
  <2> QED BY <2>2, <2>4, <2>5 DEF BrInv, BrNobodyHome, BrVersionsMatch
<1>3. CASE BrHangUp
  <2>1. UNCHANGED <<brPlatform, brProc, brVersion, brBound, brConn, brCall, brRuns, brForeign>>
    BY <1>3 DEF BrHangUp, brProcess, brGhosts
  <2>2. brQueue' \in Seq(BrEntries) /\ BrLine'
    BY <1>3, <2>1, BrCloses DEF BrHangUp
  <2>3. BrKinds' /\ BrPaths'
    BY <2>1, <2>2 DEF BrInv, BrKinds, BrPaths
  <2> QED BY <2>1, <2>2, <2>3 DEF BrInv, BrNobodyHome, BrVersionsMatch
<1> QED BY <1>1, <1>2, <1>3 DEF BrWakerStep

LEMMA BrStep ==
    ASSUME BrInv, BrAtDoor, [BrNext]_brVars
    PROVE  BrInv' /\ BrAtDoor'
<1>1. CASE UNCHANGED brVars
  <2>1. UNCHANGED <<brPlatform, brProc, brVersion, brLoop, brBound, brQueue, brConn, brCall, brRuns, brForeign>>
    BY <1>1 DEF brVars, brProcess, brDoor, brGhosts
  <2>2. BrInv'
    BY <2>1, BrKeeps DEF BrInv, BrKinds
  <2> QED BY <2>1, <2>2 DEF BrAtDoor, BrWindows
<1>2. CASE BrNext
  <2>1. ASSUME NEW c \in BrClients, BrEnsure(c)
        PROVE  BrInv'
    BY <2>1, BrNamedMethods, BrConnectStep DEF BrEnsure
  <2>2. ASSUME NEW c \in BrClients, NEW name \in {"ping", "core", "move"}, BrDial(c, name)
        PROVE  BrInv'
    BY <2>2, BrNamedMethods, BrConnectStep DEF BrDial
  <2>3. ASSUME NEW c \in BrClients, BrServed(c) \/ BrGiveUp(c)
        PROVE  BrInv'
    BY <2>3, BrGreetStep, BrAskStep, BrWorkStep, BrAnswerStep, BrRaiseStep, BrGiveUpStep DEF BrServed
  <2>4. ASSUME BrProcessStep PROVE BrInv'
    BY <2>4, BrProcessSteps
  <2>5. ASSUME BrWakerStep \/ BrStopService PROVE BrInv'
    BY <2>5, BrWakerSteps
  <2>6. ASSUME BrDies PROVE BrInv'
    BY <2>6, BrGoneStep DEF BrDies
  <2>7. BrInv'
    BY <1>2, <2>1, <2>2, <2>3, <2>4, <2>5, <2>6 DEF BrNext
  <2> QED BY <1>2, <2>7, BrDoorStep
<1> QED BY <1>1, <1>2

LEMMA BrFirst == BrInit => BrInv /\ BrAtDoor
<1> SUFFICES ASSUME BrInit PROVE BrInv /\ BrAtDoor
  OBVIOUS
<1>1. BrIdle \in BrCallRecords /\ BrIdle.phase = "idle" /\ BrIdle.outcome = "none"
  <2>1. BrNamed("ping") \in BrMethods
    BY BrNamedMethods
  <2> QED BY <2>1 DEF BrIdle, BrCallRecords, BrVersions
<1>2. <<>> \in Seq(BrEntries) /\ Len(<<>>) = 0 /\ DOMAIN <<>> = {}
  OBVIOUS
<1>3. \A c \in BrClients : brConn[c] = "none" /\ brCall[c] = BrIdle /\ brRuns[c] = 0
  BY DEF BrInit
<1>4. BrPaths
  BY <1>1, <1>3 DEF BrPaths, BrPath
<1>5. BrKinds
  <2>1. brConn \in [BrClients -> BrConnStates] /\ brCall \in [BrClients -> BrCallRecords] /\ brRuns \in [BrClients -> {0, 1}]
    BY <1>1 DEF BrInit, BrConnStates
  <2> QED BY <1>2, <2>1 DEF BrInit, BrKinds
<1>6. BrLine
  BY <1>2 DEF BrInit, BrLine
<1> QED BY <1>4, <1>5, <1>6 DEF BrInit, BrInv, BrNobodyHome, BrVersionsMatch, BrAtDoor

(* The inductive invariant of the calls. *)
THEOREM BrInvariant == BrSpec => [](BrInv /\ BrAtDoor)
BY BrFirst, BrStep, PTL DEF BrSpec

(* The invariant is what the run checks, and more. *)
LEMMA BrTrueOf == BrInv => BrCallsTrue
<1> SUFFICES ASSUME BrInv PROVE BrCallsTrue
  OBVIOUS
<1>1. BrKinds /\ BrLine
  BY DEF BrInv
<1>2. \A i \in DOMAIN brQueue : brQueue[i].who \in BrClients \cup {BrWake}
  <2>1. \A i \in DOMAIN brQueue : brQueue[i] \in BrEntries
    BY <1>1 DEF BrKinds
  <2> QED BY <2>1 DEF BrEntries
<1>3. \A c \in BrClients : brConn[c] \in BrConnStates /\ brCall[c] \in BrCallRecords /\ brRuns[c] \in {0, 1}
  BY <1>1 DEF BrKinds
<1>4. BrTypeOK
  BY <1>1, <1>2, <1>3 DEF BrInv, BrKinds, BrLine, BrNobodyHome, BrTypeOK, BrConnStates, BrCallRecords
<1>5. BrOutcomeTrue
  BY <1>3 DEF BrInv, BrPaths, BrPath, BrOutcomeTrue
<1> QED BY <1>4, <1>5 DEF BrInv, BrCallsTrue

(* For any number of callers, of calls given up and of processes that die:   *)
(* client.rs reports success only for a call that was carried out, once, and *)
(* a versioned call only ever runs in a service of the app's own version.    *)
THEOREM BrCallsCorrect == BrSpec => []BrCallsTrue
  BY BrTrueOf, BrInvariant, PTL

-----------------------------------------------------------------------------
(* The update of the lists. *)

FuStates == {"check", "take", "fetch", "arrived", "refused", "done"}
FuThreads == [FuWorkers -> [at : FuStates, job : FuLists \cup {FuNoList}]]
FuFiles == [FuLists -> Nat \cup {FuNoList}]
FuAges == [FuLists -> 0..FuInterval \cup {FuNever}]
FuOutcomes == [list : FuLists \cup {FuNoList}, ok : BOOLEAN]

FuKinds ==
    /\ fuPc \in {"idle", "begin", "show", "prepare", "download", "publish", "failed"}
    /\ fuCancel \in BOOLEAN /\ fuTorn \in BOOLEAN
    /\ fuEnabled \subseteq FuLists /\ fuChosen \subseteq FuLists /\ fuSnap \subseteq FuLists
    /\ fuRemote \in [FuLists -> Nat] /\ fuDisk \in FuFiles /\ fuStaged \in FuFiles /\ fuAge \in FuAges
    /\ fuThread \in FuThreads /\ fuLate \in [FuWorkers -> {0, 1}]
    /\ fuJobs \in Seq(FuLists) /\ fuNext \in Nat \ {0}
    /\ fuChan \in Seq(FuOutcomes)
    /\ fuCount \in [updated : Nat, failed : Nat]
    /\ fuShown \in [running : BOOLEAN, cancel : BOOLEAN, total : Nat, completed : Nat]

(* The threads in one of some states; the outcomes under way that count as   *)
(* updated; the jobs handed out so far.                                      *)
FuIn(threads, states) == {w \in FuWorkers : threads[w].at \in states}
FuSent(chan) == {i \in DOMAIN chan : chan[i].ok = TRUE}
FuTaken(jobs, next) == {jobs[k] : k \in {i \in 1..Len(jobs) : i < next}}
FuDone == {"done"}
FuArrived == {"arrived"}
FuBusy == {"fetch", "arrived", "refused"}

(* Threads exist while lists are downloaded. *)
FuThreadsRest == fuPc # "download" => \A w \in FuWorkers : fuThread[w].at = "done"

(* Past the last job the counter moves once for each thread. *)
FuNextSmall == fuNext <= Len(fuJobs) + 1 + Cardinality(FuIn(fuThread, FuDone))

(* A thread that has begun a download after the cancel begins no other. *)
FuLateOnce ==
    \A w \in FuWorkers :
        /\ fuThread[w].at = "take" => fuLate[w] = 0
        /\ fuLate[w] = 1 => fuCancel

(* No list is downloaded twice, nor by two threads. *)
FuJobsOnce ==
    /\ \A i, j \in DOMAIN fuJobs : fuJobs[i] = fuJobs[j] => i = j
    /\ \A l \in FuLists : fuStaged[l] # FuNoList => l \in FuTaken(fuJobs, fuNext)
    /\ \A w \in FuWorkers : fuThread[w].at = "fetch" =>
         /\ fuThread[w].job \in FuTaken(fuJobs, fuNext) /\ fuStaged[fuThread[w].job] = FuNoList
         /\ \A v \in FuWorkers : fuThread[v].at = "fetch" /\ fuThread[v].job = fuThread[w].job => v = w

(* Every job handed out is with one thread, in the channel or counted. *)
FuStagedCounted ==
    Cardinality({l \in FuLists : fuStaged[l] # FuNoList})
      = fuCount.updated + Cardinality(FuSent(fuChan)) + Cardinality(FuIn(fuThread, FuArrived))
FuOpenJobs == fuCount.updated + fuCount.failed + Len(fuChan) + Cardinality(FuIn(fuThread, FuBusy))
FuJobsCounted == FuOpenJobs <= Len(fuJobs) /\ FuOpenJobs < fuNext

(* What the progress shows. *)
FuShownRight ==
    /\ fuShown.completed <= fuShown.total
    /\ fuPc = "prepare" => fuShown.completed = 0
    /\ fuPc = "download" => fuShown.completed = fuCount.updated + fuCount.failed /\ fuShown.total = Len(fuJobs)

(* Dates and lists, outside the publication and inside of it. *)
FuDated(disk, age) == \A l \in FuLists : age[l] # FuNever => disk[l] # FuNoList
FuDatesRight ==
    /\ fuPc # "publish" /\ ~fuTorn => FuDated(fuDisk, fuAge)
    /\ fuPc = "publish" =>
         /\ fuBefore \in [disk : FuFiles, age : FuAges, left : SUBSET FuLists]
         /\ \A l \in fuBefore.left : fuStaged[l] # FuNoList
         /\ ~fuTorn => /\ FuDated(fuBefore.disk, fuBefore.age)
                       /\ \A l \in FuLists \ fuBefore.left : fuAge[l] # FuNever => fuDisk[l] # FuNoList

(* The inductive invariant. *)
FuInv ==
    /\ FuKinds /\ FuThreadsRest /\ FuNextSmall /\ FuLateOnce /\ FuJobsOnce
    /\ FuStagedCounted /\ FuJobsCounted /\ FuShownRight /\ FuDatesRight

(* Sets of threads and of lists are finite. *)
LEMMA FuFinite ==
    ASSUME NEW threads, NEW states
    PROVE  IsFiniteSet(FuIn(threads, states)) /\ Cardinality(FuIn(threads, states)) \in Nat
<1>1. IsFiniteSet(FuWorkers) /\ FuIn(threads, states) \subseteq FuWorkers
  BY FuConstants DEF FuConstants, FuIn
<1> QED BY <1>1, FS_Subset, FS_CardinalityType

LEMMA FuListsFinite ==
    ASSUME NEW files
    PROVE  /\ IsFiniteSet({l \in FuLists : files[l] # FuNoList})
           /\ Cardinality({l \in FuLists : files[l] # FuNoList}) \in Nat
<1>1. IsFiniteSet(FuLists) /\ {l \in FuLists : files[l] # FuNoList} \subseteq FuLists
  BY FuConstants DEF FuConstants
<1> QED BY <1>1, FS_Subset, FS_CardinalityType

(* A thread that goes on enters the sets of its new state and leaves those of*)
(* the old.                                                                  *)
LEMMA FuMove ==
    ASSUME fuThread \in FuThreads, NEW w \in FuWorkers, NEW where, NEW job, FuThread(w, where, job), NEW states
    PROVE  /\ where \in states /\ fuThread[w].at \in states =>
                Cardinality(FuIn(fuThread', states)) = Cardinality(FuIn(fuThread, states))
           /\ where \notin states /\ fuThread[w].at \notin states =>
                Cardinality(FuIn(fuThread', states)) = Cardinality(FuIn(fuThread, states))
           /\ where \in states /\ fuThread[w].at \notin states =>
                Cardinality(FuIn(fuThread', states)) = Cardinality(FuIn(fuThread, states)) + 1
           /\ where \notin states /\ fuThread[w].at \in states =>
                Cardinality(FuIn(fuThread', states)) = Cardinality(FuIn(fuThread, states)) - 1
<1>1. /\ fuThread'[w].at = where
      /\ \A v \in FuWorkers \ {w} : fuThread'[v] = fuThread[v]
  BY DEF FuThread, FuThreads
<1>2. where \in states => FuIn(fuThread', states) = FuIn(fuThread, states) \cup {w}
  BY <1>1 DEF FuIn
<1>3. where \notin states => FuIn(fuThread', states) = FuIn(fuThread, states) \ {w}
  BY <1>1 DEF FuIn
<1>4. w \in FuIn(fuThread, states) <=> fuThread[w].at \in states
  BY DEF FuIn
<1>5. IsFiniteSet(FuIn(fuThread, states))
  BY FuFinite
<1> QED BY <1>2, <1>3, <1>4, <1>5, FS_AddElement, FS_RemoveElement

(* The same for the three sets that are counted, when a thread that was at  *)
(* one state is now at another.                                             *)
FuMoved(was, now) ==
    /\ Cardinality(FuIn(fuThread', FuDone)) = Cardinality(FuIn(fuThread, FuDone))
         + (IF now = "done" THEN 1 ELSE 0) - (IF was = "done" THEN 1 ELSE 0)
    /\ Cardinality(FuIn(fuThread', FuArrived)) = Cardinality(FuIn(fuThread, FuArrived))
         + (IF now = "arrived" THEN 1 ELSE 0) - (IF was = "arrived" THEN 1 ELSE 0)
    /\ Cardinality(FuIn(fuThread', FuBusy)) = Cardinality(FuIn(fuThread, FuBusy))
         + (IF now \in FuBusy THEN 1 ELSE 0) - (IF was \in FuBusy THEN 1 ELSE 0)
    /\ \A states \in {FuDone, FuArrived, FuBusy} :
         /\ Cardinality(FuIn(fuThread, states)) \in Nat
         /\ Cardinality(FuIn(fuThread', states)) \in Nat

LEMMA FuMoves ==
    ASSUME fuThread \in FuThreads, NEW w \in FuWorkers, NEW where, NEW job, FuThread(w, where, job)
    PROVE  FuMoved(fuThread[w].at, where)
<1>1. Cardinality(FuIn(fuThread', FuDone)) = Cardinality(FuIn(fuThread, FuDone))
        + (IF where = "done" THEN 1 ELSE 0) - (IF fuThread[w].at = "done" THEN 1 ELSE 0)
  <2>1. Cardinality(FuIn(fuThread, FuDone)) \in Nat
    BY FuFinite
  <2>2. (where \in FuDone <=> where = "done") /\ (fuThread[w].at \in FuDone <=> fuThread[w].at = "done")
    BY DEF FuDone
  <2> QED BY <2>1, <2>2, FuMove
<1>2. Cardinality(FuIn(fuThread', FuArrived)) = Cardinality(FuIn(fuThread, FuArrived))
        + (IF where = "arrived" THEN 1 ELSE 0) - (IF fuThread[w].at = "arrived" THEN 1 ELSE 0)
  <2>1. Cardinality(FuIn(fuThread, FuArrived)) \in Nat
    BY FuFinite
  <2>2. (where \in FuArrived <=> where = "arrived") /\ (fuThread[w].at \in FuArrived <=> fuThread[w].at = "arrived")
    BY DEF FuArrived
  <2> QED BY <2>1, <2>2, FuMove
<1>3. Cardinality(FuIn(fuThread', FuBusy)) = Cardinality(FuIn(fuThread, FuBusy))
        + (IF where \in FuBusy THEN 1 ELSE 0) - (IF fuThread[w].at \in FuBusy THEN 1 ELSE 0)
  <2>1. Cardinality(FuIn(fuThread, FuBusy)) \in Nat
    BY FuFinite
  <2> QED BY <2>1, FuMove
<1> QED BY <1>1, <1>2, <1>3, FuFinite DEF FuMoved

(* Outcomes that are sent and received. *)
LEMMA FuSentFinite ==
    ASSUME NEW chan \in Seq(FuOutcomes)
    PROVE  IsFiniteSet(FuSent(chan)) /\ Cardinality(FuSent(chan)) \in Nat
<1>1. FuSent(chan) \subseteq 1..Len(chan) /\ Len(chan) \in Nat
  BY DEF FuSent
<1>2. IsFiniteSet(1..Len(chan))
  BY <1>1, FS_Interval
<1> QED BY <1>1, <1>2, FS_Subset, FS_CardinalityType

LEMMA FuSentAppend ==
    ASSUME NEW chan \in Seq(FuOutcomes), NEW e \in FuOutcomes
    PROVE  /\ e.ok => Cardinality(FuSent(Append(chan, e))) = Cardinality(FuSent(chan)) + 1
           /\ ~e.ok => Cardinality(FuSent(Append(chan, e))) = Cardinality(FuSent(chan))
<1> DEFINE n == Len(chan) + 1
           c == Append(chan, e)
<1>1. /\ Len(chan) \in Nat /\ DOMAIN chan = 1..Len(chan) /\ DOMAIN c = 1..n /\ c[n] = e
      /\ \A i \in 1..Len(chan) : c[i] = chan[i]
  OBVIOUS
<1>2. e.ok \in BOOLEAN
  BY DEF FuOutcomes
<1>3. 1..n = 1..Len(chan) \cup {n} /\ n \notin 1..Len(chan)
  BY <1>1
<1> HIDE DEF n, c
<1>4. e.ok => FuSent(c) = FuSent(chan) \cup {n}
  BY <1>1, <1>2, <1>3 DEF FuSent
<1>5. ~e.ok => FuSent(c) = FuSent(chan)
  BY <1>1, <1>2, <1>3 DEF FuSent
<1>6. n \notin FuSent(chan)
  BY <1>1, <1>3 DEF FuSent
<1> QED BY <1>4, <1>5, <1>6, FuSentFinite, FS_AddElement DEF c

LEMMA FuSentTail ==
    ASSUME NEW chan \in Seq(FuOutcomes), chan # <<>>
    PROVE  /\ Head(chan).ok => Cardinality(FuSent(Tail(chan))) = Cardinality(FuSent(chan)) - 1
           /\ ~Head(chan).ok => Cardinality(FuSent(Tail(chan))) = Cardinality(FuSent(chan))
<1> DEFINE t == Tail(chan)
           A == FuSent(t)
           B == FuSent(chan) \ {1}
           f == [i \in A |-> i + 1]
<1>1. /\ Len(chan) \in Nat \ {0} /\ DOMAIN chan = 1..Len(chan) /\ DOMAIN t = 1..(Len(chan) - 1)
      /\ \A i \in 1..(Len(chan) - 1) : t[i] = chan[i + 1]
      /\ Head(chan) = chan[1] /\ chan[1] \in FuOutcomes /\ t \in Seq(FuOutcomes)
  OBVIOUS
<1>2. chan[1].ok \in BOOLEAN
  BY <1>1 DEF FuOutcomes
<1> HIDE DEF t
<1>3. IsFiniteSet(A) /\ IsFiniteSet(FuSent(chan))
  BY <1>1, FuSentFinite
<1>4. IsFiniteSet(B)
  BY <1>3, FS_RemoveElement
<1>5. Cardinality(A) = Cardinality(B)
  <2>1. \A i \in A : i \in 1..(Len(chan) - 1) /\ i + 1 \in B
    BY <1>1 DEF FuSent
  <2>2. \A j \in B : j \in 2..Len(chan) /\ j - 1 \in A
    BY <1>1 DEF FuSent
  <2>3. f \in [A -> B] /\ \A i \in A : f[i] = i + 1
    BY <2>1
  <2>4. \A i, j \in A : f[i] = f[j] => i = j
    BY <1>1, <2>1, <2>3
  <2>5. \A j \in B : \E i \in A : f[i] = j
    <3> TAKE j \in B
    <3>1. j - 1 \in A /\ f[j - 1] = j
      BY <1>1, <2>2, <2>3
    <3> QED BY <3>1
  <2> HIDE DEF f
  <2>6. f \in Bijection(A, B)
    BY <2>3, <2>4, <2>5 DEF Bijection, Injection, Surjection, IsInjective
  <2>7. ExistsBijection(A, B)
    BY <2>6 DEF ExistsBijection
  <2> QED BY <1>3, <2>7, FS_Bijection
<1>6. 1 \in FuSent(chan) <=> Head(chan).ok
  BY <1>1, <1>2 DEF FuSent
<1>7. 1 \notin FuSent(chan) => B = FuSent(chan)
  OBVIOUS
<1>8. 1 \in FuSent(chan) => Cardinality(B) = Cardinality(FuSent(chan)) - 1
  BY <1>3, FS_RemoveElement
<1> QED BY <1>5, <1>6, <1>7, <1>8 DEF t

(* Jobs are handed out one after the other. *)
LEMMA FuTakenNext ==
    ASSUME NEW jobs \in Seq(FuLists), NEW next \in Nat \ {0}
    PROVE  /\ FuTaken(jobs, next) \subseteq FuLists
           /\ next <= Len(jobs) =>
                /\ jobs[next] \in FuLists
                /\ FuTaken(jobs, next + 1) = FuTaken(jobs, next) \cup {jobs[next]}
           /\ next > Len(jobs) => FuTaken(jobs, next + 1) = FuTaken(jobs, next)
           /\ next <= Len(jobs) /\ (\A i, j \in DOMAIN jobs : jobs[i] = jobs[j] => i = j) =>
                jobs[next] \notin FuTaken(jobs, next)
<1>1. Len(jobs) \in Nat /\ DOMAIN jobs = 1..Len(jobs) /\ \A k \in 1..Len(jobs) : jobs[k] \in FuLists
  OBVIOUS
<1>2. FuTaken(jobs, next) \subseteq FuLists
  BY <1>1 DEF FuTaken
<1>3. ASSUME next <= Len(jobs)
      PROVE  /\ {i \in 1..Len(jobs) : i < next + 1} = {i \in 1..Len(jobs) : i < next} \cup {next}
             /\ next \in 1..Len(jobs)
  BY <1>1, <1>3
<1>4. ASSUME next > Len(jobs)
      PROVE  {i \in 1..Len(jobs) : i < next + 1} = {i \in 1..Len(jobs) : i < next}
  BY <1>1, <1>4
<1>5. next <= Len(jobs) => FuTaken(jobs, next + 1) = FuTaken(jobs, next) \cup {jobs[next]}
  BY <1>3 DEF FuTaken
<1>6. next > Len(jobs) => FuTaken(jobs, next + 1) = FuTaken(jobs, next)
  BY <1>4 DEF FuTaken
<1>7. ASSUME next <= Len(jobs), \A i, j \in DOMAIN jobs : jobs[i] = jobs[j] => i = j,
             jobs[next] \in FuTaken(jobs, next)
      PROVE  FALSE
  <2>1. PICK k \in 1..Len(jobs) : k < next /\ jobs[next] = jobs[k]
    BY <1>7 DEF FuTaken
  <2> QED BY <1>1, <1>3, <1>7, <2>1
<1> QED BY <1>1, <1>2, <1>3, <1>5, <1>6, <1>7

(* What the steps of one thread have in common. *)
FuThreadFrame ==
    UNCHANGED <<fuPc, fuRemote, fuEnabled, fuDisk, fuAge, fuCancel, fuShown, fuChosen, fuSnap, fuJobs, fuCount,
                fuBefore, fuTorn>>

LEMMA FuThreadKeeps ==
    ASSUME FuInv, NEW w \in FuWorkers, NEW where \in FuStates, NEW job \in FuLists \cup {FuNoList},
           FuThread(w, where, job), FuThreadFrame
    PROVE  /\ fuThread' \in FuThreads
           /\ fuThread'[w].at = where /\ fuThread'[w].job = job
           /\ \A v \in FuWorkers \ {w} : fuThread'[v] = fuThread[v]
           /\ fuThread[w].at # "done" => fuPc = "download" /\ FuThreadsRest' /\ FuShownRight'
           /\ (fuPc = "download" \/ fuStaged' = fuStaged) => FuDatesRight'
<1>1. /\ fuThread \in FuThreads
      /\ fuThread' = [fuThread EXCEPT ![w] = [at |-> where, job |-> job]]
  BY DEF FuInv, FuKinds, FuThread
<1>2. [at |-> where, job |-> job] \in [at : FuStates, job : FuLists \cup {FuNoList}]
  OBVIOUS
<1>3. fuThread' \in FuThreads
  BY <1>1, <1>2 DEF FuThreads
<1>4. fuThread'[w] = [at |-> where, job |-> job] /\ \A v \in FuWorkers \ {w} : fuThread'[v] = fuThread[v]
  BY <1>1 DEF FuThreads
<1>5. fuThread[w].at # "done" => fuPc = "download"
  BY DEF FuInv, FuThreadsRest
<1>6. fuPc = "download" => FuThreadsRest' /\ FuShownRight'
  BY DEF FuInv, FuThreadsRest, FuShownRight, FuThreadFrame
<1>7. (fuPc = "download" \/ fuStaged' = fuStaged) => FuDatesRight'
  BY DEF FuInv, FuDatesRight, FuDated, FuThreadFrame
<1> QED BY <1>3, <1>4, <1>5, <1>6, <1>7

(* The thread looks at the flag. *)
LEMMA FuCheckStep ==
    ASSUME FuInv, NEW w \in FuWorkers, FuCheck(w), UNCHANGED fuTorn
    PROVE  FuInv'
<1> DEFINE where == IF FuGoesOn(w) THEN "take" ELSE "done"
<1>1. /\ fuThread[w].at = "check" /\ FuThread(w, where, FuNoList) /\ FuThreadFrame
      /\ UNCHANGED <<fuNext, fuStaged, fuChan, fuLate>>
  BY DEF FuCheck, FuThreadFrame, fuUser, fuStore, fuFlag
<1>2. where \in {"take", "done"} /\ (where = "take" => ~fuCancel) /\ where \in FuStates
  BY DEF FuGoesOn, FuStates
<1>3. FuKinds
  BY DEF FuInv
<1> HIDE DEF where
<1>4. /\ fuThread' \in FuThreads /\ fuThread'[w].at = where
      /\ \A v \in FuWorkers \ {w} : fuThread'[v] = fuThread[v]
      /\ FuThreadsRest' /\ FuShownRight' /\ FuDatesRight'
  BY <1>1, <1>2, FuThreadKeeps
<1>5. FuKinds'
  BY <1>1, <1>3, <1>4 DEF FuKinds, FuThreadFrame
<1>6. FuMoved("check", where)
  BY <1>1, <1>3, FuMoves DEF FuKinds
<1>7. /\ Cardinality(FuIn(fuThread', FuDone)) >= Cardinality(FuIn(fuThread, FuDone))
      /\ Cardinality(FuIn(fuThread', FuDone)) \in Nat /\ Cardinality(FuIn(fuThread, FuDone)) \in Nat
      /\ Cardinality(FuIn(fuThread', FuArrived)) = Cardinality(FuIn(fuThread, FuArrived))
      /\ Cardinality(FuIn(fuThread', FuBusy)) = Cardinality(FuIn(fuThread, FuBusy))
  BY <1>2, <1>6 DEF FuMoved, FuBusy
<1>8. FuNextSmall'
  <2>1. fuNext \in Nat /\ Len(fuJobs) \in Nat
    BY <1>3 DEF FuKinds
  <2> QED BY <1>1, <1>7, <2>1 DEF FuInv, FuNextSmall, FuThreadFrame
<1>9. FuLateOnce'
  <2>1. fuLate[w] \in {0, 1}
    BY <1>3 DEF FuKinds
  <2> QED BY <1>1, <1>2, <1>4, <2>1 DEF FuInv, FuLateOnce, FuThreadFrame
<1>10. FuJobsOnce'
  BY <1>1, <1>2, <1>4 DEF FuInv, FuJobsOnce, FuThreadFrame
<1>11. FuStagedCounted' /\ FuJobsCounted'
  BY <1>1, <1>7 DEF FuInv, FuStagedCounted, FuJobsCounted, FuOpenJobs, FuThreadFrame
<1> QED BY <1>4, <1>5, <1>8, <1>9, <1>10, <1>11 DEF FuInv

(* next_job.fetch_add: the next job, or none is left. *)
LEMMA FuTakeStep ==
    ASSUME FuInv, NEW w \in FuWorkers, FuTake(w), UNCHANGED fuTorn
    PROVE  FuInv'
<1>1. /\ fuThread[w].at = "take" /\ FuThreadFrame /\ fuNext' = fuNext + 1
      /\ UNCHANGED <<fuStaged, fuChan>>
  BY DEF FuTake, FuAfterTake, FuThreadFrame, fuUser, fuStore, fuFlag
<1>2. FuKinds /\ fuNext \in Nat \ {0} /\ fuJobs \in Seq(FuLists) /\ Len(fuJobs) \in Nat
  BY DEF FuInv, FuKinds
<1>3. \A i, j \in DOMAIN fuJobs : fuJobs[i] = fuJobs[j] => i = j
  BY DEF FuInv, FuJobsOnce
<1>4. Cardinality(FuIn(fuThread, FuDone)) \in Nat /\ Cardinality(FuIn(fuThread, FuBusy)) \in Nat
  BY FuFinite
<1>5. CASE fuNext <= Len(fuJobs)
  <2>1. /\ FuThread(w, "fetch", fuJobs[fuNext]) /\ fuJobs[fuNext] \in FuLists
        /\ fuLate' = [fuLate EXCEPT ![w] = @ + IF fuCancel THEN 1 ELSE 0]
    BY <1>2, <1>5, FuTakenNext DEF FuTake
  <2>2. /\ fuThread' \in FuThreads /\ fuThread'[w].at = "fetch" /\ fuThread'[w].job = fuJobs[fuNext]
        /\ \A v \in FuWorkers \ {w} : fuThread'[v] = fuThread[v]
        /\ FuThreadsRest' /\ FuShownRight' /\ FuDatesRight'
    BY <1>1, <2>1, FuThreadKeeps DEF FuStates
  <2>3. fuLate[w] = 0 /\ fuLate' \in [FuWorkers -> {0, 1}] /\ (fuLate'[w] = 1 => fuCancel)
        /\ \A v \in FuWorkers \ {w} : fuLate'[v] = fuLate[v]
    <3>1. fuLate[w] = 0
      BY <1>1 DEF FuInv, FuLateOnce
    <3>2. fuLate' = [fuLate EXCEPT ![w] = IF fuCancel THEN 1 ELSE 0]
      BY <2>1, <3>1
    <3> QED BY <1>2, <3>1, <3>2 DEF FuKinds
  <2>4. FuKinds'
    BY <1>1, <1>2, <2>2, <2>3 DEF FuKinds, FuThreadFrame
  <2>5. /\ Cardinality(FuIn(fuThread', FuDone)) = Cardinality(FuIn(fuThread, FuDone))
        /\ Cardinality(FuIn(fuThread', FuArrived)) = Cardinality(FuIn(fuThread, FuArrived))
        /\ Cardinality(FuIn(fuThread', FuBusy)) = Cardinality(FuIn(fuThread, FuBusy)) + 1
    <3>1. FuMoved("take", "fetch")
      BY <1>1, <1>2, <2>1, FuMoves DEF FuKinds
    <3> QED BY <3>1 DEF FuMoved, FuBusy
  <2>6. FuNextSmall'
    BY <1>1, <1>2, <1>4, <1>5, <2>5 DEF FuNextSmall, FuThreadFrame
  <2>7. FuLateOnce'
    BY <1>1, <2>2, <2>3 DEF FuInv, FuLateOnce, FuThreadFrame
  <2>8. FuJobsOnce'
    <3>1. /\ FuTaken(fuJobs, fuNext') = FuTaken(fuJobs, fuNext) \cup {fuJobs[fuNext]}
          /\ fuJobs[fuNext] \notin FuTaken(fuJobs, fuNext)
      BY <1>1, <1>2, <1>3, <1>5, FuTakenNext
    <3>2. fuStaged[fuJobs[fuNext]] = FuNoList
      BY <2>1, <3>1 DEF FuInv, FuJobsOnce
    <3>3. \A v \in FuWorkers \ {w} : fuThread'[v].at = "fetch" =>
              fuThread'[v].job \in FuTaken(fuJobs, fuNext) /\ fuThread'[v].job # fuJobs[fuNext]
      BY <2>2, <3>1 DEF FuInv, FuJobsOnce
    <3>4. \A v \in FuWorkers : fuThread'[v].at = "fetch" =>
              fuThread'[v].job \in FuTaken(fuJobs, fuNext') /\ fuStaged'[fuThread'[v].job] = FuNoList
      BY <1>1, <2>2, <3>1, <3>2 DEF FuInv, FuJobsOnce
    <3>5. \A u, v \in FuWorkers :
              fuThread'[u].at = "fetch" /\ fuThread'[v].at = "fetch" /\ fuThread'[v].job = fuThread'[u].job => v = u
      BY <2>2, <3>3 DEF FuInv, FuJobsOnce
    <3>6. \A l \in FuLists : fuStaged'[l] # FuNoList => l \in FuTaken(fuJobs, fuNext')
      BY <1>1, <3>1 DEF FuInv, FuJobsOnce
    <3> QED BY <1>1, <1>3, <3>4, <3>5, <3>6 DEF FuJobsOnce, FuThreadFrame
  <2>9. FuStagedCounted'
    BY <1>1, <2>5 DEF FuInv, FuStagedCounted, FuThreadFrame
  <2>10. FuJobsCounted'
    <3>1. FuOpenJobs \in Nat /\ FuOpenJobs' = FuOpenJobs + 1
      <4>1. fuCount.updated \in Nat /\ fuCount.failed \in Nat /\ Len(fuChan) \in Nat
        BY <1>2 DEF FuKinds
      <4>2. FuOpenJobs' = fuCount.updated + fuCount.failed + Len(fuChan) + Cardinality(FuIn(fuThread', FuBusy))
        BY <1>1 DEF FuOpenJobs, FuThreadFrame
      <4>3. FuOpenJobs = fuCount.updated + fuCount.failed + Len(fuChan) + Cardinality(FuIn(fuThread, FuBusy))
        BY DEF FuOpenJobs
      <4> QED BY <1>4, <2>5, <4>1, <4>2, <4>3, SMTT(30)
    <3>2. FuOpenJobs < fuNext
      BY DEF FuInv, FuJobsCounted
    <3> QED BY <1>1, <1>2, <1>5, <3>1, <3>2 DEF FuJobsCounted, FuThreadFrame
  <2> QED BY <2>2, <2>4, <2>6, <2>7, <2>8, <2>9, <2>10 DEF FuInv
<1>6. CASE fuNext > Len(fuJobs)
  <2>1. FuThread(w, "done", FuNoList) /\ UNCHANGED fuLate
    BY <1>2, <1>6 DEF FuTake
  <2>2. /\ fuThread' \in FuThreads /\ fuThread'[w].at = "done"
        /\ \A v \in FuWorkers \ {w} : fuThread'[v] = fuThread[v]
        /\ FuThreadsRest' /\ FuShownRight' /\ FuDatesRight'
    BY <1>1, <2>1, FuThreadKeeps DEF FuStates
  <2>3. FuKinds'
    BY <1>1, <1>2, <2>1, <2>2 DEF FuKinds, FuThreadFrame
  <2>4. /\ Cardinality(FuIn(fuThread', FuDone)) = Cardinality(FuIn(fuThread, FuDone)) + 1
        /\ Cardinality(FuIn(fuThread', FuArrived)) = Cardinality(FuIn(fuThread, FuArrived))
        /\ Cardinality(FuIn(fuThread', FuBusy)) = Cardinality(FuIn(fuThread, FuBusy))
    <3>1. FuMoved("take", "done")
      BY <1>1, <1>2, <2>1, FuMoves DEF FuKinds
    <3> QED BY <3>1 DEF FuMoved, FuBusy
  <2>5. FuNextSmall'
    BY <1>1, <1>2, <1>4, <2>4 DEF FuInv, FuNextSmall, FuThreadFrame
  <2>6. FuLateOnce'
    BY <1>1, <2>1, <2>2 DEF FuInv, FuLateOnce, FuThreadFrame
  <2>7. FuJobsOnce'
    <3>1. FuTaken(fuJobs, fuNext') = FuTaken(fuJobs, fuNext)
      BY <1>1, <1>2, <1>6, FuTakenNext
    <3> QED BY <1>1, <2>2, <3>1 DEF FuInv, FuJobsOnce, FuThreadFrame
  <2>8. FuStagedCounted'
    BY <1>1, <2>4 DEF FuInv, FuStagedCounted, FuThreadFrame
  <2>9. FuJobsCounted'
    <3>1. UNCHANGED <<fuCount, fuChan, fuJobs>> /\ fuNext' = fuNext + 1
      BY <1>1, <1>2 DEF FuThreadFrame
    <3>2. FuOpenJobs' = FuOpenJobs
      BY <2>4, <3>1 DEF FuOpenJobs
    <3>3. FuOpenJobs \in Nat /\ Len(fuJobs) \in Nat /\ fuNext \in Nat
      BY <1>1, <1>2, <1>4 DEF FuOpenJobs, FuKinds, FuThreadFrame
    <3> QED BY <3>1, <3>2, <3>3 DEF FuInv, FuJobsCounted
  <2> QED BY <2>2, <2>3, <2>5, <2>6, <2>7, <2>8, <2>9 DEF FuInv
<1> QED BY <1>2, <1>5, <1>6

(* process_filter_download: the list arrives in the staging directory. *)
LEMMA FuFetchStep ==
    ASSUME FuInv, NEW w \in FuWorkers, FuFetch(w), UNCHANGED fuTorn
    PROVE  FuInv'
<1> DEFINE j == fuThread[w].job
<1>1. /\ fuThread[w].at = "fetch" /\ FuThread(w, "arrived", j) /\ FuThreadFrame /\ fuPc = "download"
      /\ fuStaged' = [fuStaged EXCEPT ![j] = fuRemote[j]]
      /\ UNCHANGED <<fuNext, fuChan, fuLate>>
  BY DEF FuFetch, FuThreadFrame, fuUser, fuStore, fuFlag
<1>2. FuKinds /\ fuNext \in Nat \ {0} /\ fuJobs \in Seq(FuLists)
  BY DEF FuInv, FuKinds
<1>3. /\ j \in FuTaken(fuJobs, fuNext) /\ j \in FuLists /\ fuStaged[j] = FuNoList
      /\ \A v \in FuWorkers : fuThread[v].at = "fetch" /\ fuThread[v].job = j => v = w
  BY <1>1, <1>2, FuTakenNext DEF FuInv, FuJobsOnce
<1> HIDE DEF j
<1>4. fuRemote[j] \in Nat /\ fuRemote[j] # FuNoList
  BY <1>2, <1>3, FuConstants DEF FuKinds, FuConstants
<1>5. /\ fuThread' \in FuThreads /\ fuThread'[w].at = "arrived"
      /\ \A v \in FuWorkers \ {w} : fuThread'[v] = fuThread[v]
      /\ FuThreadsRest' /\ FuShownRight' /\ FuDatesRight'
  BY <1>1, <1>3, FuThreadKeeps DEF FuStates
<1>6. fuStaged' \in FuFiles /\ fuStaged'[j] = fuRemote[j] /\ \A l \in FuLists \ {j} : fuStaged'[l] = fuStaged[l]
  BY <1>1, <1>2, <1>3, <1>4 DEF FuKinds, FuFiles
<1>7. FuKinds'
  BY <1>1, <1>2, <1>5, <1>6 DEF FuKinds, FuThreadFrame
<1>8. /\ Cardinality(FuIn(fuThread', FuDone)) = Cardinality(FuIn(fuThread, FuDone))
      /\ Cardinality(FuIn(fuThread', FuArrived)) = Cardinality(FuIn(fuThread, FuArrived)) + 1
      /\ Cardinality(FuIn(fuThread', FuBusy)) = Cardinality(FuIn(fuThread, FuBusy))
      /\ Cardinality(FuIn(fuThread, FuArrived)) \in Nat
  <2>1. FuMoved("fetch", "arrived")
    BY <1>1, <1>2, FuMoves DEF FuKinds
  <2> QED BY <2>1 DEF FuMoved, FuBusy
<1>9. FuNextSmall' /\ FuJobsCounted'
  BY <1>1, <1>8 DEF FuInv, FuNextSmall, FuJobsCounted, FuOpenJobs, FuThreadFrame
<1>10. FuLateOnce'
  BY <1>1, <1>5 DEF FuInv, FuLateOnce, FuThreadFrame
<1>11. FuJobsOnce'
  <2>1. \A l \in FuLists : fuStaged'[l] # FuNoList => l \in FuTaken(fuJobs, fuNext)
    BY <1>3, <1>6 DEF FuInv, FuJobsOnce
  <2>2. ASSUME NEW u \in FuWorkers, fuThread'[u].at = "fetch"
        PROVE  /\ fuThread'[u].job \in FuTaken(fuJobs, fuNext) /\ fuStaged'[fuThread'[u].job] = FuNoList
               /\ \A v \in FuWorkers : fuThread'[v].at = "fetch" /\ fuThread'[v].job = fuThread'[u].job => v = u
    <3>1. u # w /\ fuThread'[u] = fuThread[u] /\ fuThread[u].at = "fetch"
      BY <1>5, <2>2
    <3>2. fuThread[u].job # j /\ fuThread[u].job \in FuTaken(fuJobs, fuNext) /\ fuStaged[fuThread[u].job] = FuNoList
      BY <1>3, <3>1 DEF FuInv, FuJobsOnce
    <3>3. fuThread[u].job \in FuLists
      BY <1>2, <3>2, FuTakenNext
    <3>4. fuStaged'[fuThread[u].job] = FuNoList
      BY <1>6, <3>2, <3>3
    <3>5. \A v \in FuWorkers : fuThread'[v].at = "fetch" /\ fuThread'[v].job = fuThread[u].job => v = u
      BY <1>5, <3>1 DEF FuInv, FuJobsOnce
    <3> QED BY <3>1, <3>2, <3>4, <3>5
  <2> QED BY <1>1, <2>1, <2>2 DEF FuInv, FuJobsOnce, FuThreadFrame
<1>12. FuStagedCounted'
  <2>1. {l \in FuLists : fuStaged'[l] # FuNoList} = {l \in FuLists : fuStaged[l] # FuNoList} \cup {j}
    BY <1>3, <1>4, <1>6
  <2>2. j \notin {l \in FuLists : fuStaged[l] # FuNoList}
    BY <1>3
  <2>3. Cardinality({l \in FuLists : fuStaged'[l] # FuNoList}) = Cardinality({l \in FuLists : fuStaged[l] # FuNoList}) + 1
    <3> DEFINE S == {l \in FuLists : fuStaged[l] # FuNoList}
               T == {l \in FuLists : fuStaged'[l] # FuNoList}
    <3>1. IsFiniteSet(S) /\ T = S \cup {j} /\ j \notin S
      BY <2>1, <2>2, FuListsFinite
    <3> HIDE DEF S, T
    <3>2. Cardinality(T) = Cardinality(S) + 1
      BY <3>1, FS_AddElement
    <3> QED BY <3>2 DEF S, T
  <2>4. fuCount.updated \in Nat /\ Cardinality(FuSent(fuChan)) \in Nat
    BY <1>2, FuSentFinite DEF FuKinds
  <2>5. FuStagedCounted
    BY DEF FuInv
  <2>6. fuChan' = fuChan /\ fuCount' = fuCount
    BY <1>1 DEF FuThreadFrame
  <2> QED BY <1>8, <2>3, <2>4, <2>5, <2>6 DEF FuStagedCounted
<1> QED BY <1>5, <1>7, <1>9, <1>10, <1>11, <1>12 DEF FuInv

(* The download fails. *)
LEMMA FuRefuseStep ==
    ASSUME FuInv, NEW w \in FuWorkers, FuFetchFails(w), UNCHANGED fuTorn
    PROVE  FuInv'
<1>1. /\ fuThread[w].at = "fetch" /\ FuThread(w, "refused", fuThread[w].job) /\ FuThreadFrame
      /\ UNCHANGED <<fuNext, fuStaged, fuChan, fuLate>>
  BY DEF FuFetchFails, FuThreadFrame, fuUser, fuStore, fuFlag
<1>2. FuKinds /\ fuThread[w].job \in FuLists \cup {FuNoList}
  BY DEF FuInv, FuKinds, FuThreads
<1>3. /\ fuThread' \in FuThreads /\ fuThread'[w].at = "refused"
      /\ \A v \in FuWorkers \ {w} : fuThread'[v] = fuThread[v]
      /\ FuThreadsRest' /\ FuShownRight' /\ FuDatesRight'
  BY <1>1, <1>2, FuThreadKeeps DEF FuStates
<1>4. FuKinds'
  BY <1>1, <1>2, <1>3 DEF FuKinds, FuThreadFrame
<1>5. /\ Cardinality(FuIn(fuThread', FuDone)) = Cardinality(FuIn(fuThread, FuDone))
      /\ Cardinality(FuIn(fuThread', FuArrived)) = Cardinality(FuIn(fuThread, FuArrived))
      /\ Cardinality(FuIn(fuThread', FuBusy)) = Cardinality(FuIn(fuThread, FuBusy))
  <2>1. FuMoved("fetch", "refused")
    BY <1>1, <1>2, FuMoves DEF FuKinds
  <2> QED BY <2>1 DEF FuMoved, FuBusy
<1>6. FuNextSmall' /\ FuJobsCounted' /\ FuStagedCounted'
  BY <1>1, <1>5 DEF FuInv, FuNextSmall, FuJobsCounted, FuOpenJobs, FuStagedCounted, FuThreadFrame
<1>7. FuLateOnce' /\ FuJobsOnce'
  BY <1>1, <1>3 DEF FuInv, FuLateOnce, FuJobsOnce, FuThreadFrame
<1> QED BY <1>3, <1>4, <1>6, <1>7 DEF FuInv

(* The thread reports. *)
LEMMA FuSendStep ==
    ASSUME FuInv, NEW w \in FuWorkers, FuSend(w), UNCHANGED fuTorn
    PROVE  FuInv'
<1> DEFINE e == [list |-> fuThread[w].job, ok |-> fuThread[w].at = "arrived"]
<1>1. /\ fuThread[w].at \in {"arrived", "refused"} /\ FuThread(w, "check", FuNoList) /\ FuThreadFrame
      /\ fuChan' = Append(fuChan, e)
      /\ UNCHANGED <<fuNext, fuStaged, fuLate>>
  BY DEF FuSend, FuThreadFrame, fuUser, fuStore, fuFlag
<1>2. FuKinds /\ fuThread \in FuThreads /\ fuChan \in Seq(FuOutcomes)
  BY DEF FuInv, FuKinds
<1>3. e \in FuOutcomes /\ (e.ok <=> fuThread[w].at = "arrived")
  <2>1. fuThread[w].job \in FuLists \cup {FuNoList}
    BY <1>2 DEF FuThreads
  <2> QED BY <2>1 DEF FuOutcomes
<1> HIDE DEF e
<1>4. /\ fuThread' \in FuThreads /\ fuThread'[w].at = "check"
      /\ \A v \in FuWorkers \ {w} : fuThread'[v] = fuThread[v]
      /\ FuThreadsRest' /\ FuShownRight' /\ FuDatesRight'
  BY <1>1, FuThreadKeeps DEF FuStates
<1>5. fuChan' \in Seq(FuOutcomes) /\ Len(fuChan') = Len(fuChan) + 1 /\ Len(fuChan) \in Nat
  BY <1>1, <1>2, <1>3
<1>6. FuKinds'
  BY <1>1, <1>2, <1>4, <1>5 DEF FuKinds, FuThreadFrame
<1>7. /\ FuMoved(fuThread[w].at, "check")
      /\ fuThread[w].at = "arrived" => Cardinality(FuSent(fuChan')) = Cardinality(FuSent(fuChan)) + 1
      /\ fuThread[w].at # "arrived" => Cardinality(FuSent(fuChan')) = Cardinality(FuSent(fuChan))
      /\ Cardinality(FuSent(fuChan)) \in Nat
  BY <1>1, <1>2, <1>3, FuMoves, FuSentAppend, FuSentFinite
<1>8. /\ Cardinality(FuIn(fuThread', FuDone)) = Cardinality(FuIn(fuThread, FuDone))
      /\ Cardinality(FuIn(fuThread', FuBusy)) = Cardinality(FuIn(fuThread, FuBusy)) - 1
      /\ Cardinality(FuIn(fuThread, FuBusy)) \in Nat
  <2>1. fuThread[w].at # "done" /\ fuThread[w].at \in FuBusy /\ "check" \notin FuBusy
    BY <1>1 DEF FuBusy
  <2> QED BY <1>7, <2>1 DEF FuMoved
<1>9. Cardinality(FuSent(fuChan')) + Cardinality(FuIn(fuThread', FuArrived))
        = Cardinality(FuSent(fuChan)) + Cardinality(FuIn(fuThread, FuArrived))
  <2>1. /\ Cardinality(FuIn(fuThread, FuArrived)) \in Nat
        /\ Cardinality(FuIn(fuThread', FuArrived)) = Cardinality(FuIn(fuThread, FuArrived))
             - (IF fuThread[w].at = "arrived" THEN 1 ELSE 0)
    BY <1>7 DEF FuMoved
  <2> QED BY <1>7, <2>1
<1>10. FuNextSmall'
  BY <1>1, <1>8 DEF FuInv, FuNextSmall, FuThreadFrame
<1>11. fuCount.updated \in Nat /\ fuCount.failed \in Nat /\ fuCount' = fuCount
  BY <1>1, <1>2 DEF FuKinds, FuThreadFrame
<1>12. FuJobsCounted'
  <2>1. FuOpenJobs' = FuOpenJobs
    <3>1. FuOpenJobs' = fuCount.updated + fuCount.failed + Len(fuChan') + Cardinality(FuIn(fuThread', FuBusy))
      BY <1>11 DEF FuOpenJobs
    <3>2. FuOpenJobs = fuCount.updated + fuCount.failed + Len(fuChan) + Cardinality(FuIn(fuThread, FuBusy))
      BY DEF FuOpenJobs
    <3> QED BY <1>5, <1>8, <1>11, <3>1, <3>2, SMTT(30)
  <2> QED BY <1>1, <2>1 DEF FuInv, FuJobsCounted, FuThreadFrame
<1>13. FuStagedCounted'
  <2>1. FuStagedCounted /\ fuStaged' = fuStaged
    BY <1>1 DEF FuInv
  <2>2. /\ Cardinality(FuIn(fuThread, FuArrived)) \in Nat /\ Cardinality(FuIn(fuThread', FuArrived)) \in Nat
        /\ Cardinality(FuSent(fuChan')) \in Nat
    BY <1>5, FuFinite, FuSentFinite
  <2> QED BY <1>7, <1>9, <1>11, <2>1, <2>2 DEF FuStagedCounted
<1>14. FuLateOnce' /\ FuJobsOnce'
  BY <1>1, <1>4 DEF FuInv, FuLateOnce, FuJobsOnce, FuThreadFrame
<1> QED BY <1>4, <1>6, <1>10, <1>12, <1>13, <1>14 DEF FuInv

(* The caller counts an outcome. *)
LEMMA FuReceiveStep ==
    ASSUME FuInv, FuReceive, UNCHANGED fuTorn
    PROVE  FuInv'
<1>1. /\ fuPc = "download" /\ fuChan # <<>> /\ fuChan' = Tail(fuChan)
      /\ UNCHANGED <<fuPc, fuRemote, fuEnabled, fuDisk, fuAge, fuCancel, fuChosen, fuSnap, fuJobs, fuNext, fuThread,
                     fuStaged, fuBefore, fuLate, fuTorn>>
  BY DEF FuReceive, fuUser, fuStore
<1>2. FuKinds /\ fuChan \in Seq(FuOutcomes) /\ fuCount \in [updated : Nat, failed : Nat]
  BY DEF FuInv, FuKinds
<1>3. /\ fuChan' \in Seq(FuOutcomes) /\ Len(fuChan') = Len(fuChan) - 1 /\ Len(fuChan) \in Nat \ {0}
      /\ Head(fuChan) \in FuOutcomes
  BY <1>1, <1>2
<1>4. Head(fuChan).ok \in BOOLEAN
  BY <1>3 DEF FuOutcomes
<1>5. /\ fuCount' \in [updated : Nat, failed : Nat]
      /\ Head(fuChan).ok => fuCount'.updated = fuCount.updated + 1 /\ fuCount'.failed = fuCount.failed
      /\ ~Head(fuChan).ok => fuCount'.updated = fuCount.updated /\ fuCount'.failed = fuCount.failed + 1
  BY <1>2, <1>4 DEF FuReceive
<1>6. /\ fuShown' \in [running : BOOLEAN, cancel : BOOLEAN, total : Nat, completed : Nat]
      /\ fuShown'.completed = fuShown.completed + 1 /\ fuShown'.total = fuShown.total
      /\ fuShown.completed \in Nat /\ fuShown.total \in Nat
  <2>1. /\ fuShown \in [running : BOOLEAN, cancel : BOOLEAN, total : Nat, completed : Nat]
        /\ fuCancel \in BOOLEAN
    BY <1>2 DEF FuKinds
  <2>2. fuShown' = [fuShown EXCEPT !.completed = fuShown.completed + 1, !.cancel = fuCancel]
    BY DEF FuReceive
  <2>3. fuShown.completed \in Nat /\ fuShown.total \in Nat /\ fuShown.completed + 1 \in Nat
    BY <2>1
  <2>4. fuShown' \in [running : BOOLEAN, cancel : BOOLEAN, total : Nat, completed : Nat]
    BY <2>1, <2>2, <2>3
  <2>5. fuShown'.completed = fuShown.completed + 1 /\ fuShown'.total = fuShown.total
    BY <2>1, <2>2
  <2> QED BY <2>3, <2>4, <2>5
<1>7. FuKinds'
  BY <1>1, <1>2, <1>3, <1>5, <1>6 DEF FuKinds
<1>8. FuThreadsRest' /\ FuNextSmall' /\ FuLateOnce' /\ FuJobsOnce' /\ FuDatesRight'
  BY <1>1 DEF FuInv, FuThreadsRest, FuNextSmall, FuLateOnce, FuJobsOnce, FuDatesRight
<1>9. /\ fuCount.updated \in Nat /\ fuCount.failed \in Nat
      /\ Cardinality(FuIn(fuThread, FuBusy)) \in Nat /\ Cardinality(FuIn(fuThread, FuArrived)) \in Nat
      /\ Cardinality(FuSent(fuChan)) \in Nat
  BY <1>2, FuFinite, FuSentFinite
<1>10. fuCount'.updated + fuCount'.failed = fuCount.updated + fuCount.failed + 1
  BY <1>4, <1>5, <1>9
<1>11. FuStagedCounted'
  <2>1. fuCount'.updated + Cardinality(FuSent(fuChan')) = fuCount.updated + Cardinality(FuSent(fuChan))
    BY <1>1, <1>2, <1>4, <1>5, <1>9, FuSentTail
  <2>2. FuStagedCounted
    BY DEF FuInv
  <2> QED BY <1>1, <1>9, <2>1, <2>2 DEF FuStagedCounted
<1>12. FuOpenJobs' = FuOpenJobs
  BY <1>1, <1>3, <1>9, <1>10 DEF FuOpenJobs
<1>13. FuJobsCounted'
  BY <1>1, <1>12 DEF FuInv, FuJobsCounted
<1>14. FuShownRight'
  <2>1. fuShown.completed = fuCount.updated + fuCount.failed /\ fuShown.total = Len(fuJobs)
    BY <1>1 DEF FuInv, FuShownRight
  <2>2. FuOpenJobs <= Len(fuJobs) /\ Len(fuJobs) \in Nat
    BY <1>2 DEF FuInv, FuJobsCounted, FuKinds
  <2>3. fuCount.updated + fuCount.failed + 1 <= Len(fuJobs)
    <3>1. FuOpenJobs = fuCount.updated + fuCount.failed + Len(fuChan) + Cardinality(FuIn(fuThread, FuBusy))
      BY DEF FuOpenJobs
    <3> QED BY <1>3, <1>9, <2>2, <3>1, SMTT(30)
  <2> QED BY <1>1, <1>6, <1>9, <1>10, <2>1, <2>3 DEF FuShownRight
<1> QED BY <1>7, <1>8, <1>11, <1>13, <1>14 DEF FuInv

(* What an update has in hand is left alone. *)
FuJobsFrame == UNCHANGED <<fuJobs, fuNext, fuThread, fuStaged, fuChan, fuCount>>
LEMMA FuJobsKeep ==
    ASSUME FuInv, FuJobsFrame
    PROVE  FuNextSmall' /\ FuJobsOnce' /\ FuStagedCounted' /\ FuJobsCounted'
BY DEF FuInv, FuJobsFrame, FuNextSmall, FuJobsOnce, FuStagedCounted, FuJobsCounted, FuOpenJobs

(* The configuration is saved, then the lists are published one by one. *)
LEMMA FuSaveStep ==
    ASSUME FuInv, FuSave, UNCHANGED fuTorn
    PROVE  FuInv'
<1>1. /\ fuPc = "download" /\ fuPc' = "publish" /\ \A w \in FuWorkers : fuThread[w].at = "done"
      /\ fuBefore' = [disk |-> fuDisk, age |-> fuAge, left |-> FuWanted]
      /\ fuAge' = [l \in FuLists |-> IF l \in FuWanted THEN 0 ELSE fuAge[l]]
      /\ UNCHANGED <<fuRemote, fuEnabled, fuDisk, fuCancel, fuShown, fuChosen, fuSnap, fuLate, fuTorn>>
      /\ FuJobsFrame
  BY DEF FuSave, FuJobsFrame, fuUser, fuFlag
<1>2. FuKinds
  BY DEF FuInv
<1>3. /\ FuWanted \subseteq FuLists /\ \A l \in FuWanted : fuStaged[l] # FuNoList
  BY <1>2 DEF FuWanted, FuKinds
<1>4. fuAge' \in FuAges
  <2>1. FuInterval \in Nat
    BY FuConstants DEF FuConstants
  <2> QED BY <1>1, <1>2, <2>1 DEF FuKinds, FuAges
<1>5. FuKinds'
  BY <1>1, <1>2, <1>4 DEF FuKinds, FuJobsFrame
<1>6. FuDatesRight'
  <2>1. ~fuTorn => FuDated(fuDisk, fuAge)
    BY <1>1 DEF FuInv, FuDatesRight
  <2>2. fuBefore' \in [disk : FuFiles, age : FuAges, left : SUBSET FuLists]
    BY <1>1, <1>2, <1>3 DEF FuKinds
  <2>3. fuBefore'.disk = fuDisk /\ fuBefore'.age = fuAge /\ fuBefore'.left = FuWanted
    BY <1>1
  <2>4. \A l \in FuLists \ FuWanted : fuAge'[l] = fuAge[l]
    BY <1>1
  <2>5. \A l \in fuBefore'.left : fuStaged'[l] # FuNoList
    BY <1>1, <1>3, <2>3 DEF FuJobsFrame
  <2> QED BY <1>1, <2>1, <2>2, <2>3, <2>4, <2>5 DEF FuDatesRight, FuDated
<1>7. FuThreadsRest' /\ FuLateOnce' /\ FuShownRight'
  BY <1>1 DEF FuInv, FuThreadsRest, FuLateOnce, FuShownRight, FuJobsFrame
<1> QED BY <1>1, <1>5, <1>6, <1>7, FuJobsKeep DEF FuInv

LEMMA FuPublishStep ==
    ASSUME FuInv, FuPublish, UNCHANGED fuTorn
    PROVE  FuInv'
<1>1. /\ fuPc = "publish"
      /\ UNCHANGED <<fuPc, fuRemote, fuEnabled, fuAge, fuCancel, fuShown, fuChosen, fuSnap, fuLate, fuTorn>>
      /\ FuJobsFrame
  BY DEF FuPublish, FuJobsFrame, fuUser, fuFlag
<1>2. PICK l \in fuBefore.left : /\ fuDisk' = [fuDisk EXCEPT ![l] = fuStaged[l]]
                                 /\ fuBefore' = [fuBefore EXCEPT !.left = @ \ {l}]
  BY DEF FuPublish
<1>3. /\ FuKinds /\ fuBefore \in [disk : FuFiles, age : FuAges, left : SUBSET FuLists]
      /\ \A k \in fuBefore.left : fuStaged[k] # FuNoList
      /\ ~fuTorn => /\ FuDated(fuBefore.disk, fuBefore.age)
                    /\ \A k \in FuLists \ fuBefore.left : fuAge[k] # FuNever => fuDisk[k] # FuNoList
  BY <1>1 DEF FuInv, FuDatesRight
<1>4. /\ fuDisk' \in FuFiles /\ fuDisk'[l] = fuStaged[l] /\ \A k \in FuLists \ {l} : fuDisk'[k] = fuDisk[k]
  BY <1>2, <1>3 DEF FuKinds, FuFiles
<1>5. /\ fuBefore' \in [disk : FuFiles, age : FuAges, left : SUBSET FuLists]
      /\ fuBefore'.disk = fuBefore.disk /\ fuBefore'.age = fuBefore.age /\ fuBefore'.left = fuBefore.left \ {l}
  BY <1>2, <1>3
<1>6. FuKinds'
  BY <1>1, <1>3, <1>4 DEF FuKinds, FuJobsFrame
<1>7. FuDatesRight'
  <2>1. \A k \in fuBefore'.left : fuStaged'[k] # FuNoList
    BY <1>1, <1>3, <1>5 DEF FuJobsFrame
  <2>2. ~fuTorn => \A k \in FuLists \ fuBefore'.left : fuAge[k] # FuNever => fuDisk'[k] # FuNoList
    BY <1>3, <1>4, <1>5, <1>2
  <2> QED BY <1>1, <1>3, <1>5, <2>1, <2>2 DEF FuDatesRight
<1>8. FuThreadsRest' /\ FuLateOnce' /\ FuShownRight'
  BY <1>1 DEF FuInv, FuThreadsRest, FuLateOnce, FuShownRight, FuJobsFrame
<1> QED BY <1>1, <1>6, <1>7, <1>8, FuJobsKeep DEF FuInv

(* What was there before is restored. *)
LEMMA FuPublishFailsStep ==
    ASSUME FuInv, FuPublishFails, UNCHANGED fuTorn
    PROVE  FuInv'
<1>1. /\ fuPc = "publish" /\ fuPc' = "failed" /\ fuDisk' = fuBefore.disk /\ fuAge' = fuBefore.age
      /\ UNCHANGED <<fuRemote, fuEnabled, fuCancel, fuShown, fuChosen, fuSnap, fuBefore, fuLate, fuTorn>>
      /\ FuJobsFrame
  BY DEF FuPublishFails, FuRestored, FuJobsFrame, fuUser, fuFlag
<1>2. /\ FuKinds /\ fuBefore \in [disk : FuFiles, age : FuAges, left : SUBSET FuLists]
      /\ ~fuTorn => FuDated(fuBefore.disk, fuBefore.age)
  BY <1>1 DEF FuInv, FuDatesRight
<1>3. FuKinds'
  BY <1>1, <1>2 DEF FuKinds, FuJobsFrame
<1>4. FuDatesRight'
  BY <1>1, <1>2 DEF FuDatesRight, FuDated
<1>5. FuThreadsRest' /\ FuLateOnce' /\ FuShownRight'
  BY <1>1 DEF FuInv, FuThreadsRest, FuLateOnce, FuShownRight, FuJobsFrame
<1> QED BY <1>1, <1>3, <1>4, <1>5, FuJobsKeep DEF FuInv

(* An update is over, whatever became of it, or the process ended. *)
LEMMA FuCleared ==
    ASSUME FuInv, fuJobs' = <<>>, fuNext' = 1, fuThread' = FuIdle, fuStaged' = [l \in FuLists |-> FuNoList],
           fuChan' = <<>>, fuCount' = FuZero
    PROVE  /\ fuJobs' \in Seq(FuLists) /\ fuNext' \in Nat \ {0} /\ fuThread' \in FuThreads /\ fuStaged' \in FuFiles
           /\ fuChan' \in Seq(FuOutcomes) /\ fuCount' \in [updated : Nat, failed : Nat]
           /\ \A w \in FuWorkers : fuThread'[w].at = "done"
           /\ FuThreadsRest' /\ FuNextSmall' /\ FuJobsOnce' /\ FuStagedCounted' /\ FuJobsCounted'
<1>1. /\ fuThread' \in FuThreads /\ \A w \in FuWorkers : fuThread'[w].at = "done"
  BY DEF FuIdle, FuThreads, FuStates
<1>2. fuStaged' \in FuFiles /\ \A l \in FuLists : fuStaged'[l] = FuNoList
  BY DEF FuFiles
<1>3. /\ fuJobs' \in Seq(FuLists) /\ Len(fuJobs') = 0 /\ DOMAIN fuJobs' = {}
      /\ fuChan' \in Seq(FuOutcomes) /\ Len(fuChan') = 0 /\ DOMAIN fuChan' = {}
  OBVIOUS
<1>4. fuCount' \in [updated : Nat, failed : Nat] /\ fuCount'.updated = 0 /\ fuCount'.failed = 0
  BY DEF FuZero
<1>5. /\ FuIn(fuThread', FuBusy) = {} /\ FuIn(fuThread', FuArrived) = {}
      /\ FuSent(fuChan') = {} /\ {l \in FuLists : fuStaged'[l] # FuNoList} = {}
  BY <1>1, <1>2, <1>3 DEF FuIn, FuBusy, FuArrived, FuSent
<1>6. /\ Cardinality(FuIn(fuThread', FuBusy)) = 0 /\ Cardinality(FuIn(fuThread', FuArrived)) = 0
      /\ Cardinality(FuSent(fuChan')) = 0 /\ Cardinality({l \in FuLists : fuStaged'[l] # FuNoList}) = 0
  BY <1>5, FS_EmptySet
<1>7. FuNextSmall'
  <2>1. Cardinality(FuIn(fuThread', FuDone)) \in Nat
    BY FuFinite
  <2> QED BY <1>3, <2>1 DEF FuNextSmall
<1>8. FuJobsOnce' /\ FuThreadsRest'
  BY <1>1, <1>2, <1>3 DEF FuJobsOnce, FuThreadsRest
<1>9. FuStagedCounted'
  BY <1>4, <1>6 DEF FuStagedCounted
<1>10. FuJobsCounted'
  BY <1>3, <1>4, <1>6 DEF FuJobsCounted, FuOpenJobs
<1> QED BY <1>1, <1>2, <1>3, <1>4, <1>7, <1>8, <1>9, <1>10

LEMMA FuFinishStep ==
    ASSUME FuInv, FuFinish, UNCHANGED fuTorn
    PROVE  FuInv'
<1>1. /\ fuPc = "failed" \/ (fuPc = "publish" /\ fuBefore.left = {})
      /\ fuPc' = "idle" /\ fuShown' = [fuShown EXCEPT !.running = FALSE, !.cancel = fuCancel]
      /\ fuChosen' = {} /\ fuSnap' = {}
      /\ fuJobs' = <<>> /\ fuNext' = 1 /\ fuThread' = FuIdle /\ fuStaged' = [l \in FuLists |-> FuNoList]
      /\ fuChan' = <<>> /\ fuCount' = FuZero
      /\ UNCHANGED <<fuRemote, fuEnabled, fuDisk, fuAge, fuCancel, fuLate, fuTorn>>
  BY DEF FuFinish, fuUser, fuStore
<1>2. FuKinds
  BY DEF FuInv
<1>3. /\ fuShown' \in [running : BOOLEAN, cancel : BOOLEAN, total : Nat, completed : Nat]
      /\ fuShown'.completed = fuShown.completed /\ fuShown'.total = fuShown.total
  BY <1>1, <1>2 DEF FuKinds
<1>4. /\ fuJobs' \in Seq(FuLists) /\ fuNext' \in Nat \ {0} /\ fuThread' \in FuThreads /\ fuStaged' \in FuFiles
      /\ fuChan' \in Seq(FuOutcomes) /\ fuCount' \in [updated : Nat, failed : Nat]
      /\ \A w \in FuWorkers : fuThread'[w].at = "done"
      /\ FuThreadsRest' /\ FuNextSmall' /\ FuJobsOnce' /\ FuStagedCounted' /\ FuJobsCounted'
  BY <1>1, FuCleared
<1>5. FuKinds'
  BY <1>1, <1>2, <1>3, <1>4 DEF FuKinds
<1>6. FuLateOnce' /\ FuShownRight'
  BY <1>1, <1>3, <1>4 DEF FuInv, FuLateOnce, FuShownRight
<1>7. FuDatesRight'
  BY <1>1 DEF FuInv, FuDatesRight, FuDated
<1> QED BY <1>4, <1>5, <1>6, <1>7 DEF FuInv

LEMMA FuCrashStep ==
    ASSUME FuInv, FuCrash
    PROVE  FuInv'
<1>1. /\ fuPc' = "idle" /\ fuShown' = FuQuiet /\ fuCancel' = FALSE /\ fuChosen' = {} /\ fuSnap' = {}
      /\ fuLate' = [w \in FuWorkers |-> 0] /\ fuTorn' = (fuTorn \/ fuPc = "publish")
      /\ fuJobs' = <<>> /\ fuNext' = 1 /\ fuThread' = FuIdle /\ fuStaged' = [l \in FuLists |-> FuNoList]
      /\ fuChan' = <<>> /\ fuCount' = FuZero
      /\ UNCHANGED <<fuRemote, fuEnabled, fuDisk, fuAge>>
  BY DEF FuCrash, fuUser, fuStore
<1>2. FuKinds
  BY DEF FuInv
<1>3. /\ fuShown' \in [running : BOOLEAN, cancel : BOOLEAN, total : Nat, completed : Nat]
      /\ fuShown'.completed = 0 /\ fuShown'.total = 0
  BY <1>1 DEF FuQuiet
<1>4. /\ fuJobs' \in Seq(FuLists) /\ fuNext' \in Nat \ {0} /\ fuThread' \in FuThreads /\ fuStaged' \in FuFiles
      /\ fuChan' \in Seq(FuOutcomes) /\ fuCount' \in [updated : Nat, failed : Nat]
      /\ \A w \in FuWorkers : fuThread'[w].at = "done"
      /\ FuThreadsRest' /\ FuNextSmall' /\ FuJobsOnce' /\ FuStagedCounted' /\ FuJobsCounted'
  BY <1>1, FuCleared
<1>5. FuKinds'
  <2>1. fuLate' \in [FuWorkers -> {0, 1}] /\ fuTorn' \in BOOLEAN
    BY <1>1, <1>2 DEF FuKinds
  <2> QED BY <1>1, <1>2, <1>3, <1>4, <2>1 DEF FuKinds
<1>6. FuLateOnce' /\ FuShownRight'
  BY <1>1, <1>3, <1>4 DEF FuLateOnce, FuShownRight
<1>7. FuDatesRight'
  <2>1. ~fuTorn' => ~fuTorn /\ fuPc # "publish"
    BY <1>1
  <2> QED BY <1>1, <2>1 DEF FuInv, FuDatesRight, FuDated
<1> QED BY <1>4, <1>5, <1>6, <1>7 DEF FuInv

(* An update begins. *)
LEMMA FuBeginSteps ==
    ASSUME FuInv, UNCHANGED fuTorn, FuStartManual \/ FuStartAuto \/ FuBeginFlag \/ FuBeginShow \/ FuPrepareFails
    PROVE  FuInv'
<1>1. /\ FuJobsFrame /\ UNCHANGED <<fuRemote, fuEnabled, fuDisk, fuAge>>
      /\ fuPc # "download" /\ fuPc # "publish" /\ fuPc' \in {"begin", "show", "prepare", "failed"}
  BY DEF FuStartManual, FuStartAuto, FuBeginFlag, FuBeginShow, FuPrepareFails, FuJobsFrame, fuUser, fuStore
<1>2. FuKinds
  BY DEF FuInv
<1>3. FuThreadsRest' /\ \A w \in FuWorkers : fuThread[w].at = "done"
  BY <1>1 DEF FuInv, FuThreadsRest, FuJobsFrame
<1>4. fuChosen' \subseteq FuLists /\ fuSnap' \subseteq FuLists
  BY <1>2 DEF FuKinds, FuStartManual, FuStartAuto, FuBeginFlag, FuBeginShow, FuPrepareFails
<1>5. /\ fuCancel' \in BOOLEAN /\ fuLate' \in [FuWorkers -> {0, 1}] /\ FuLateOnce'
  <2>1. CASE FuBeginFlag
    <3>1. fuCancel' = FALSE /\ fuLate' = [w \in FuWorkers |-> 0]
      BY <2>1 DEF FuBeginFlag
    <3>2. fuLate' \in [FuWorkers -> {0, 1}] /\ \A w \in FuWorkers : fuLate'[w] = 0
      BY <3>1
    <3>3. FuLateOnce'
      <4>1. \A w \in FuWorkers : fuLate'[w] # 1
        BY <3>2
      <4> QED BY <3>2, <4>1 DEF FuLateOnce
    <3>4. fuCancel' \in BOOLEAN
      BY <3>1
    <3> QED BY <3>2, <3>3, <3>4
  <2>2. CASE UNCHANGED <<fuCancel, fuLate>>
    BY <1>1, <1>2, <2>2 DEF FuInv, FuKinds, FuLateOnce, FuJobsFrame
  <2> QED BY <2>1, <2>2 DEF FuStartManual, FuStartAuto, FuBeginShow, FuPrepareFails, fuFlag
<1>6. /\ fuShown' \in [running : BOOLEAN, cancel : BOOLEAN, total : Nat, completed : Nat] /\ FuShownRight'
  <2>1. CASE FuBeginShow
    <3>1. fuShown' = [running |-> TRUE, cancel |-> FALSE, total |-> 0, completed |-> 0] /\ fuPc' = "prepare"
      BY <2>1 DEF FuBeginShow, FuQuiet
    <3> QED BY <3>1 DEF FuShownRight
  <2>2. CASE fuShown' = fuShown /\ fuPc' # "prepare"
    BY <1>1, <1>2, <2>2 DEF FuInv, FuKinds, FuShownRight
  <2> QED BY <2>1, <2>2 DEF FuStartManual, FuStartAuto, FuBeginFlag, FuPrepareFails, fuFlag
<1>7. FuKinds'
  BY <1>1, <1>2, <1>4, <1>5, <1>6 DEF FuKinds, FuJobsFrame
<1>8. FuDatesRight'
  BY <1>1 DEF FuInv, FuDatesRight, FuDated
<1> QED BY <1>1, <1>3, <1>5, <1>6, <1>7, <1>8, FuJobsKeep DEF FuInv

(* The jobs are collected and the threads started. *)
LEMMA FuCollectStep ==
    ASSUME FuInv, FuCollect, UNCHANGED fuTorn
    PROVE  FuInv'
<1>1. PICK jobs \in [1..Cardinality(fuSnap \cap fuChosen) -> fuSnap \cap fuChosen] :
          /\ \A i, j \in DOMAIN jobs : i # j => jobs[i] # jobs[j]
          /\ fuJobs' = jobs
          /\ fuShown' = [fuShown EXCEPT !.total = Len(jobs), !.cancel = fuCancel]
  BY Zenon DEF FuCollect
<1>2. /\ fuPc = "prepare" /\ fuPc' = "download" /\ fuNext' = 1 /\ fuCount' = FuZero /\ fuChan' = <<>>
      /\ fuStaged' = [l \in FuLists |-> FuNoList]
      /\ fuThread' = [w \in FuWorkers |-> [at |-> "check", job |-> FuNoList]]
      /\ UNCHANGED <<fuRemote, fuEnabled, fuDisk, fuAge, fuCancel, fuChosen, fuSnap, fuLate, fuTorn>>
  BY DEF FuCollect, fuUser, fuStore
<1>3. FuKinds
  BY DEF FuInv
<1>4. jobs \in Seq(FuLists) /\ Len(jobs) \in Nat /\ DOMAIN jobs = 1..Len(jobs)
  <2>1. fuSnap \cap fuChosen \subseteq FuLists /\ IsFiniteSet(FuLists)
    BY <1>3, FuConstants DEF FuKinds, FuConstants
  <2>2. Cardinality(fuSnap \cap fuChosen) \in Nat
    BY <2>1, FS_Subset, FS_CardinalityType
  <2>3. jobs \in [1..Cardinality(fuSnap \cap fuChosen) -> FuLists]
    BY <2>1
  <2>4. PICK n \in Nat : jobs \in [1..n -> FuLists]
    BY <2>2, <2>3
  <2>5. jobs \in Seq(FuLists)
    BY <2>4
  <2> QED BY <2>5
<1>5. /\ fuThread' \in FuThreads /\ \A w \in FuWorkers : fuThread'[w].at = "check"
  BY <1>2 DEF FuThreads, FuStates
<1>6. fuStaged' \in FuFiles /\ \A l \in FuLists : fuStaged'[l] = FuNoList
  BY <1>2 DEF FuFiles
<1>7. fuChan' \in Seq(FuOutcomes) /\ Len(fuChan') = 0 /\ DOMAIN fuChan' = {}
  BY <1>2
<1>8. fuCount' \in [updated : Nat, failed : Nat] /\ fuCount'.updated = 0 /\ fuCount'.failed = 0
  BY <1>2 DEF FuZero
<1>9. /\ fuShown' \in [running : BOOLEAN, cancel : BOOLEAN, total : Nat, completed : Nat]
      /\ fuShown'.completed = 0 /\ fuShown'.total = Len(jobs)
  <2>1. /\ fuShown \in [running : BOOLEAN, cancel : BOOLEAN, total : Nat, completed : Nat]
        /\ fuCancel \in BOOLEAN
    BY <1>3 DEF FuKinds
  <2>2. fuShown.completed = 0
    BY <1>2 DEF FuInv, FuShownRight
  <2>3. fuShown'.completed = fuShown.completed /\ fuShown'.total = Len(jobs)
    BY <1>1, <2>1
  <2>4. fuShown' \in [running : BOOLEAN, cancel : BOOLEAN, total : Nat, completed : Nat]
    BY <1>1, <1>4, <2>1
  <2> QED BY <2>2, <2>3, <2>4
<1>10. /\ FuIn(fuThread', FuBusy) = {} /\ FuIn(fuThread', FuArrived) = {}
       /\ FuSent(fuChan') = {} /\ {l \in FuLists : fuStaged'[l] # FuNoList} = {}
  BY <1>5, <1>6, <1>7 DEF FuIn, FuBusy, FuArrived, FuSent
<1>11. /\ Cardinality(FuIn(fuThread', FuBusy)) = 0 /\ Cardinality(FuIn(fuThread', FuArrived)) = 0
       /\ Cardinality(FuSent(fuChan')) = 0 /\ Cardinality({l \in FuLists : fuStaged'[l] # FuNoList}) = 0
  BY <1>10, FS_EmptySet
<1>12. FuKinds'
  BY <1>1, <1>2, <1>3, <1>4, <1>5, <1>6, <1>7, <1>8, <1>9 DEF FuKinds
<1>13. FuNextSmall'
  <2>1. Cardinality(FuIn(fuThread', FuDone)) \in Nat
    BY FuFinite
  <2> QED BY <1>1, <1>2, <1>4, <2>1 DEF FuNextSmall
<1>14. FuLateOnce' /\ FuThreadsRest'
  BY <1>2, <1>5 DEF FuInv, FuLateOnce, FuThreadsRest
<1>15. FuJobsOnce'
  <2>1. \A i, j \in DOMAIN fuJobs' : fuJobs'[i] = fuJobs'[j] => i = j
    BY <1>1
  <2> QED BY <1>5, <1>6, <2>1 DEF FuJobsOnce
<1>16. FuStagedCounted'
  BY <1>8, <1>11 DEF FuStagedCounted
<1>17. FuJobsCounted'
  BY <1>1, <1>2, <1>4, <1>7, <1>8, <1>11 DEF FuJobsCounted, FuOpenJobs
<1>18. FuShownRight'
  BY <1>1, <1>2, <1>4, <1>8, <1>9 DEF FuShownRight
<1>19. FuDatesRight'
  BY <1>2 DEF FuInv, FuDatesRight, FuDated
<1> QED BY <1>12, <1>13, <1>14, <1>15, <1>16, <1>17, <1>18, <1>19 DEF FuInv

(* Cancelling, editing, the servers and the time. *)
LEMMA FuAroundSteps ==
    ASSUME FuInv, UNCHANGED fuTorn,
           \/ FuCancelFlag \/ FuCancelShow \/ FuTick
           \/ \E l \in FuLists : FuToggle(l) \/ FuRemoteChanges(l)
    PROVE  FuInv'
<1>1. FuJobsFrame /\ UNCHANGED <<fuPc, fuDisk, fuChosen, fuSnap, fuBefore, fuLate>>
  BY DEF FuCancelFlag, FuCancelShow, FuTick, FuToggle, FuRemoteChanges, FuJobsFrame, fuUpdate, fuStore
<1>2. FuKinds
  BY DEF FuInv
<1>3. fuCancel' \in BOOLEAN /\ (fuCancel => fuCancel')
  BY <1>2 DEF FuKinds, FuCancelFlag, FuCancelShow, FuTick, FuToggle, FuRemoteChanges, fuFlag
<1>4. /\ fuShown' \in [running : BOOLEAN, cancel : BOOLEAN, total : Nat, completed : Nat]
      /\ fuShown'.completed = fuShown.completed /\ fuShown'.total = fuShown.total
  <2>1. fuShown' = fuShown \/ fuShown' = [fuShown EXCEPT !.cancel = TRUE]
    BY DEF FuCancelFlag, FuCancelShow, FuTick, FuToggle, FuRemoteChanges, fuFlag
  <2> QED BY <1>2, <2>1 DEF FuKinds
<1>5. fuEnabled' \subseteq FuLists /\ fuRemote' \in [FuLists -> Nat]
  <2>1. CASE FuCancelFlag \/ FuCancelShow \/ FuTick
    BY <1>2, <2>1 DEF FuKinds, FuCancelFlag, FuCancelShow, FuTick, fuUser
  <2>2. ASSUME NEW l \in FuLists, FuToggle(l)
        PROVE  fuEnabled' \subseteq FuLists /\ fuRemote' \in [FuLists -> Nat]
    BY <1>2, <2>2 DEF FuKinds, FuToggle
  <2>3. ASSUME NEW l \in FuLists, FuRemoteChanges(l)
        PROVE  fuEnabled' \subseteq FuLists /\ fuRemote' \in [FuLists -> Nat]
    BY <1>2, <2>3 DEF FuKinds, FuRemoteChanges
  <2> QED BY <2>1, <2>2, <2>3
<1>6. fuAge' \in FuAges /\ \A l \in FuLists : fuAge'[l] # FuNever => fuAge[l] # FuNever
  <2>1. CASE FuTick
    <3>1. FuInterval \in Nat /\ FuNever \notin Nat /\ fuAge \in FuAges
      BY <1>2, FuConstants DEF FuConstants, FuKinds
    <3>2. ASSUME NEW l \in FuLists
          PROVE  /\ fuAge'[l] \in 0..FuInterval \cup {FuNever}
                 /\ fuAge'[l] # FuNever => fuAge[l] # FuNever
      <4>1. fuAge[l] \in 0..FuInterval \cup {FuNever}
        BY <3>1 DEF FuAges
      <4>2. fuAge'[l] = IF fuAge[l] # FuNever /\ fuAge[l] < FuInterval THEN fuAge[l] + 1 ELSE fuAge[l]
        BY <2>1 DEF FuTick
      <4>3. CASE fuAge[l] = FuNever
        BY <4>2, <4>3
      <4>4. CASE fuAge[l] # FuNever
        <5>1. fuAge[l] \in 0..FuInterval
          BY <4>1, <4>4
        <5> QED BY <3>1, <4>2, <4>4, <5>1
      <4> QED BY <4>3, <4>4
    <3>3. fuAge' = [l \in FuLists |-> fuAge'[l]]
      BY <2>1 DEF FuTick
    <3> QED BY <3>2, <3>3 DEF FuAges
  <2>2. CASE fuAge' = fuAge
    BY <1>2, <2>2 DEF FuKinds
  <2> QED BY <2>1, <2>2 DEF FuCancelFlag, FuCancelShow, FuToggle, FuRemoteChanges, fuStore
<1>7. FuKinds'
  BY <1>1, <1>2, <1>3, <1>4, <1>5, <1>6 DEF FuKinds, FuJobsFrame
<1>8. FuThreadsRest' /\ FuLateOnce' /\ FuShownRight'
  BY <1>1, <1>3, <1>4 DEF FuInv, FuThreadsRest, FuLateOnce, FuShownRight, FuJobsFrame
<1>9. FuDatesRight'
  BY <1>1, <1>6 DEF FuInv, FuDatesRight, FuDated, FuJobsFrame
<1> QED BY <1>1, <1>7, <1>8, <1>9, FuJobsKeep DEF FuInv

LEMMA FuStep == FuInv /\ [FuNextStep]_fuVars => FuInv'
<1> SUFFICES ASSUME FuInv, [FuNextStep]_fuVars PROVE FuInv'
  OBVIOUS
<1>1. CASE UNCHANGED fuVars
  <2>1. /\ FuJobsFrame
        /\ UNCHANGED <<fuPc, fuRemote, fuEnabled, fuDisk, fuAge, fuCancel, fuShown, fuChosen, fuSnap, fuBefore, fuLate, fuTorn>>
    BY <1>1 DEF fuVars, fuUpdate, fuStore, fuUser, fuFlag, FuJobsFrame
  <2> QED BY <2>1, FuJobsKeep
          DEF FuInv, FuJobsFrame, FuKinds, FuThreadsRest, FuLateOnce, FuShownRight, FuDatesRight, FuDated
<1>2. ASSUME FuUpdateStep PROVE FuInv'
  BY <1>2, FuBeginSteps, FuCollectStep, FuReceiveStep, FuSaveStep, FuPublishStep, FuFinishStep, FuCheckStep, FuTakeStep,
     FuFetchStep, FuSendStep
     DEF FuUpdateStep, FuSteps
<1>3. ASSUME FuWakes PROVE FuInv'
  BY <1>3, FuBeginSteps DEF FuWakes
<1>4. ASSUME FuTime PROVE FuInv'
  BY <1>4, FuAroundSteps DEF FuTime
<1>5. ASSUME FuCrash PROVE FuInv'
  BY <1>5, FuCrashStep
<1>6. ASSUME FuOther, UNCHANGED fuTorn PROVE FuInv'
  BY <1>6, FuBeginSteps, FuPublishFailsStep, FuAroundSteps, FuRefuseStep DEF FuOther
<1> QED BY <1>1, <1>2, <1>3, <1>4, <1>5, <1>6 DEF FuNextStep

LEMMA FuFirst == FuInit => FuInv
<1> SUFFICES ASSUME FuInit PROVE FuInv
  OBVIOUS
<1>1. /\ fuThread \in FuThreads /\ \A w \in FuWorkers : fuThread[w].at = "done"
  BY DEF FuInit, FuIdle, FuThreads, FuStates
<1>2. /\ fuStaged \in FuFiles /\ \A l \in FuLists : fuStaged[l] = FuNoList
      /\ fuDisk \in FuFiles /\ fuAge \in FuAges /\ \A l \in FuLists : fuAge[l] = FuNever
  BY DEF FuInit, FuFiles, FuAges
<1>3. /\ fuJobs \in Seq(FuLists) /\ Len(fuJobs) = 0 /\ DOMAIN fuJobs = {}
      /\ fuChan \in Seq(FuOutcomes) /\ Len(fuChan) = 0 /\ DOMAIN fuChan = {}
  BY DEF FuInit
<1>4. /\ fuCount \in [updated : Nat, failed : Nat] /\ fuCount.updated = 0 /\ fuCount.failed = 0
      /\ fuShown \in [running : BOOLEAN, cancel : BOOLEAN, total : Nat, completed : Nat]
      /\ fuShown.completed = 0 /\ fuShown.total = 0
  BY DEF FuInit, FuZero, FuQuiet
<1>5. fuLate \in [FuWorkers -> {0, 1}] /\ \A w \in FuWorkers : fuLate[w] = 0
  BY DEF FuInit
<1>6. fuRemote \in [FuLists -> Nat] /\ fuEnabled \subseteq FuLists /\ fuNext = 1
  BY DEF FuInit
<1>7. FuKinds
  <2>1. fuPc = "idle" /\ fuCancel = FALSE /\ fuTorn = FALSE /\ fuChosen = {} /\ fuSnap = {}
    BY DEF FuInit
  <2>2. fuCancel \in BOOLEAN /\ fuTorn \in BOOLEAN
    BY <2>1
  <2>3. fuPc \in {"idle", "begin", "show", "prepare", "download", "publish", "failed"}
    BY <2>1
  <2>4. fuChosen \subseteq FuLists /\ fuSnap \subseteq FuLists /\ fuNext \in Nat \ {0}
    BY <1>6, <2>1
  <2> QED BY <1>1, <1>2, <1>3, <1>4, <1>5, <1>6, <2>2, <2>3, <2>4 DEF FuKinds
<1>8. /\ FuIn(fuThread, FuBusy) = {} /\ FuIn(fuThread, FuArrived) = {}
      /\ FuSent(fuChan) = {} /\ {l \in FuLists : fuStaged[l] # FuNoList} = {}
  BY <1>1, <1>2, <1>3 DEF FuIn, FuBusy, FuArrived, FuSent
<1>9. /\ Cardinality(FuIn(fuThread, FuBusy)) = 0 /\ Cardinality(FuIn(fuThread, FuArrived)) = 0
      /\ Cardinality(FuSent(fuChan)) = 0 /\ Cardinality({l \in FuLists : fuStaged[l] # FuNoList}) = 0
  BY <1>8, FS_EmptySet
<1>10. FuNextSmall
  <2>1. Cardinality(FuIn(fuThread, FuDone)) \in Nat
    BY FuFinite
  <2> QED BY <1>3, <1>6, <2>1 DEF FuNextSmall
<1>11. FuThreadsRest /\ FuLateOnce /\ FuJobsOnce
  BY <1>1, <1>2, <1>3, <1>5 DEF FuThreadsRest, FuLateOnce, FuJobsOnce
<1>12. FuStagedCounted
  BY <1>4, <1>9 DEF FuStagedCounted
<1>13. FuJobsCounted
  BY <1>3, <1>4, <1>6, <1>9 DEF FuJobsCounted, FuOpenJobs
<1>14. FuShownRight /\ FuDatesRight
  BY <1>2, <1>4 DEF FuInit, FuShownRight, FuDatesRight, FuDated
<1> QED BY <1>7, <1>10, <1>11, <1>12, <1>13, <1>14 DEF FuInv

(* The inductive invariant of an update. *)
THEOREM FuInvariant == FuSpec => []FuInv
BY FuFirst, FuStep, PTL DEF FuSpec

(* The invariant is what the run checks, and more. *)
LEMMA FuSoundOf == FuInv => FuUpdateSound
<1> SUFFICES ASSUME FuInv PROVE FuUpdateSound
  OBVIOUS
<1>1. FuKinds
  BY DEF FuInv
<1>2. FuTypeOK
  <2>1. fuNext \in 1..(Len(fuJobs) + Cardinality(FuWorkers) + 1)
    <3>1. FuIn(fuThread, FuDone) \subseteq FuWorkers /\ IsFiniteSet(FuWorkers)
      BY FuConstants DEF FuConstants, FuIn
    <3>2. /\ Cardinality(FuIn(fuThread, FuDone)) <= Cardinality(FuWorkers)
          /\ Cardinality(FuWorkers) \in Nat /\ Cardinality(FuIn(fuThread, FuDone)) \in Nat
      BY <3>1, FS_Subset, FS_CardinalityType
    <3>3. fuNext \in Nat \ {0} /\ Len(fuJobs) \in Nat
      BY <1>1 DEF FuKinds
    <3>4. fuNext <= Len(fuJobs) + 1 + Cardinality(FuIn(fuThread, FuDone))
      BY DEF FuInv, FuNextSmall
    <3> QED BY <3>2, <3>3, <3>4
  <2>2. fuShown.completed \in 0..fuShown.total
    <3>1. fuShown.completed \in Nat /\ fuShown.total \in Nat
      BY <1>1 DEF FuKinds
    <3> QED BY <3>1 DEF FuInv, FuShownRight
  <2> QED BY <1>1, <2>1, <2>2 DEF FuKinds, FuAges, FuTypeOK
<1>3. FuCancelHeeded
  <2>1. \A w \in FuWorkers : fuLate[w] \in {0, 1}
    BY <1>1 DEF FuKinds
  <2>2. \A w \in FuWorkers : fuLate[w] <= 1
    BY <2>1
  <2> QED BY <2>2 DEF FuCancelHeeded
<1>4. FuCountsAdd
  <2>1. /\ {i \in DOMAIN fuChan : fuChan[i].ok = TRUE} = FuSent(fuChan)
        /\ {w \in FuWorkers : fuThread[w].at = "arrived"} = FuIn(fuThread, FuArrived)
        /\ {w \in FuWorkers : fuThread[w].at = "fetch"} \cup {w \in FuWorkers : fuThread[w].at = "arrived"}
             \cup {w \in FuWorkers : fuThread[w].at = "refused"} = FuIn(fuThread, FuBusy)
    BY DEF FuSent, FuIn, FuArrived, FuBusy
  <2> QED BY <2>1 DEF FuInv, FuStagedCounted, FuJobsCounted, FuOpenJobs, FuCountsAdd
<1>5. FuDatesHaveLists
  BY DEF FuInv, FuDatesRight, FuDated, FuDatesHaveLists
<1> QED BY <1>2, <1>3, <1>4, <1>5 DEF FuUpdateSound

(* An update with any number of lists and threads, cancelled, failing or     *)
(* ended by a crash: no thread begins a second download after the cancel,    *)
(* each job is counted once, and a date says that its list has arrived.      *)
THEOREM FuUpdateCorrect == FuSpec => []FuUpdateSound
  BY FuSoundOf, FuInvariant, PTL

------------------------------------------------------------------------------
(* A fingerprint of lists is the text of each, rules are what they were     *)
(* compiled from.                                                           *)
RcText == RcTexts \cup {RcNone}
RcPrints == UNION {[on -> RcText] : on \in SUBSET RcLists}
RcRules == [lists : RcPrints, custom : RcText]
RcStages == {"idle", "write", "sync", "check", "remove", "rename"}

RcKinds ==
    /\ rcFile \in [RcLists -> RcText] /\ rcStamp \in [RcLists -> 0..rcSteps]
    /\ rcOn \in SUBSET RcLists /\ rcCustom \in RcText /\ rcSteps \in Nat
    /\ rcThread \in [RcThreads -> [at : RcStages, print : RcPrints \cup {RcNone}, rules : RcRules \cup {RcNone}]]
    /\ DOMAIN rcTemp = RcThreads

(* A list that is there was published at some step. *)
RcStamped == \A l \in RcLists : rcFile[l] # RcNone => rcStamp[l] # 0

(* What the remembered manifest says of a list that has not been published  *)
(* since is what its fingerprint says.                                      *)
RcPrintTrue ==
    rcPrint # RcNone =>
        /\ rcPrint.print \in RcPrints /\ DOMAIN rcPrint.manifest = DOMAIN rcPrint.print
        /\ \A l \in DOMAIN rcPrint.print :
             /\ rcPrint.manifest[l] \in 0..rcSteps
             /\ rcPrint.manifest[l] = 0 => rcPrint.print[l] = RcNone
             /\ rcPrint.manifest[l] # 0 /\ rcPrint.manifest[l] = rcStamp[l] => rcPrint.print[l] = rcFile[l]

RcSlotsTrue ==
    /\ rcActive # RcNone => rcActive.rules = rcActive.print
    /\ rcRemote # RcNone => rcRemote.rules = RcCompiled(rcRemote.print, RcNone)

(* What a thread is about to write, and the file it has written whole. *)
RcWritten ==
    \A t \in RcThreads :
        /\ rcThread[t].at # "idle" => rcThread[t].rules = RcCompiled(rcThread[t].print, RcNone)
        /\ rcThread[t].at \in {"check", "remove", "rename"} /\ rcTemp[t] # RcNone =>
             rcTemp[t].whole /\ rcTemp[t].rules = RcCompiled(rcTemp[t].print, RcNone)

(* The inductive invariant. *)
RcInv == RcKinds /\ RcStamped /\ RcPrintTrue /\ RcSlotsTrue /\ RcWritten /\ RcFileIsTrue

(* A remembered fingerprint whose manifest still holds is that of the lists. *)
LEMMA RcPrintHolds ==
    ASSUME RcKinds, RcStamped, RcPrintTrue, rcPrint # RcNone, rcPrint.manifest = RcManifest
    PROVE  rcPrint.print = RcLinesOf
<1>1. DOMAIN rcPrint.print = rcOn
  BY DEF RcPrintTrue, RcManifest
<1>2. ASSUME NEW l \in rcOn PROVE rcPrint.print[l] = rcFile[l]
  <2>1. l \in RcLists /\ rcPrint.manifest[l] = IF rcFile[l] = RcNone THEN 0 ELSE rcStamp[l]
    BY DEF RcKinds, RcManifest
  <2>2. CASE rcFile[l] = RcNone
    BY <1>1, <2>1, <2>2 DEF RcPrintTrue
  <2>3. CASE rcFile[l] # RcNone
    BY <1>1, <2>1, <2>3 DEF RcPrintTrue, RcStamped
  <2> QED BY <2>2, <2>3
<1>3. PICK on \in SUBSET RcLists : rcPrint.print \in [on -> RcText]
  BY DEF RcPrintTrue, RcPrints
<1>4. rcPrint.print = [l \in rcOn |-> rcPrint.print[l]]
  BY <1>1, <1>3
<1>5. [l \in rcOn |-> rcPrint.print[l]] = [l \in rcOn |-> rcFile[l]]
  BY <1>2
<1> QED BY <1>4, <1>5 DEF RcLinesOf

(* The fingerprint of the lists is up to date, however it was found. *)
LEMMA RcRemoteTrue == RcInv => RcRemotePrint = RcLinesOf /\ RcLinesOf \in RcPrints
<1> SUFFICES ASSUME RcInv PROVE RcRemotePrint = RcLinesOf /\ RcLinesOf \in RcPrints
  OBVIOUS
<1>1. RcRemotePrint = RcLinesOf
  BY RcPrintHolds DEF RcInv, RcRemotePrint
<1>2. RcLinesOf \in [rcOn -> RcText] /\ rcOn \in SUBSET RcLists
  BY DEF RcInv, RcKinds, RcLinesOf
<1> QED BY <1>1, <1>2 DEF RcPrints

(* The fingerprint that a load remembers. *)
LEMMA RcRemembers ==
    ASSUME RcInv, UNCHANGED rcWorld, rcPrint' = [manifest |-> RcManifest, print |-> RcLinesOf]
    PROVE  RcPrintTrue'
<1>1. rcPrint'.print = RcLinesOf /\ rcPrint'.manifest = RcManifest
  OBVIOUS
<1>2. RcLinesOf \in RcPrints /\ DOMAIN RcLinesOf = rcOn /\ DOMAIN RcManifest = rcOn
  BY RcRemoteTrue DEF RcLinesOf, RcManifest
<1>3. ASSUME NEW l \in rcOn
      PROVE  /\ RcManifest[l] \in 0..rcSteps
             /\ RcManifest[l] = 0 => RcLinesOf[l] = RcNone
             /\ RcManifest[l] # 0 /\ RcManifest[l] = rcStamp[l] => RcLinesOf[l] = rcFile[l]
  <2>1. l \in RcLists /\ RcLinesOf[l] = rcFile[l]
        /\ RcManifest[l] = IF rcFile[l] = RcNone THEN 0 ELSE rcStamp[l]
    BY DEF RcInv, RcKinds, RcManifest, RcLinesOf
  <2>2. rcStamp[l] \in 0..rcSteps /\ rcSteps \in Nat /\ (rcFile[l] # RcNone => rcStamp[l] # 0)
    BY <2>1 DEF RcInv, RcKinds, RcStamped
  <2> QED BY <2>1, <2>2
<1>4. rcFile' = rcFile /\ rcStamp' = rcStamp /\ rcSteps' = rcSteps
  BY DEF rcWorld
<1> QED BY <1>1, <1>2, <1>3, <1>4 DEF RcPrintTrue

(* Every load takes into use what the lists and the custom rules say, and   *)
(* remembers it under its own name.                                         *)
LEMMA RcLoads ==
    ASSUME RcInv, RcLoad
    PROVE  /\ rcServed' = RcCompiled(RcLinesOf, rcCustom)
           /\ rcPrint' = [manifest |-> RcManifest, print |-> RcLinesOf]
           /\ RcSlotsTrue'
           /\ UNCHANGED <<rcWorld, rcFiles>>
<1> DEFINE Done ==
      /\ rcServed' = RcCompiled(RcLinesOf, rcCustom)
      /\ rcPrint' = [manifest |-> RcManifest, print |-> RcLinesOf]
      /\ RcSlotsTrue'
      /\ UNCHANGED <<rcWorld, rcFiles>>
<1>1. RcRemotePrint = RcLinesOf /\ RcSlotsTrue /\ RcFileIsTrue
  BY RcRemoteTrue DEF RcInv
<1>2. RcEffectivePrint(RcLinesOf) = RcCompiled(RcLinesOf, rcCustom)
  BY DEF RcEffectivePrint
<1>3. CASE RcFromMemory
  <2>1. /\ RcReuse(rcActive, RcEffectivePrint(RcLinesOf)) /\ rcServed' = rcActive.rules
        /\ rcPrint' = [manifest |-> RcManifest, print |-> RcLinesOf]
        /\ UNCHANGED <<rcWorld, rcActive, rcRemote, rcFiles>>
    BY <1>1, <1>3 DEF RcFromMemory
  <2>2. rcActive # RcNone /\ rcActive.print = RcCompiled(RcLinesOf, rcCustom)
    BY <1>2, <2>1 DEF RcReuse
  <2>3. rcServed' = RcCompiled(RcLinesOf, rcCustom)
    BY <1>1, <2>1, <2>2 DEF RcSlotsTrue
  <2> QED BY <1>1, <2>1, <2>3 DEF RcSlotsTrue
<1>4. ASSUME NEW rules, rules = RcCompiled(RcLinesOf, rcCustom), RcServe(RcLinesOf, rules)
      PROVE  /\ rcServed' = RcCompiled(RcLinesOf, rcCustom)
             /\ rcPrint' = [manifest |-> RcManifest, print |-> RcLinesOf]
             /\ rcActive' # RcNone => rcActive'.rules = rcActive'.print
  BY <1>2, <1>4 DEF RcServe, RcRemembered
<1>5. CASE RcBadfilter
  <2>1. RcServe(RcLinesOf, RcCompiled(RcLinesOf, rcCustom)) /\ UNCHANGED <<rcWorld, rcRemote, rcFiles>>
    BY <1>1, <1>5 DEF RcBadfilter
  <2> QED BY <1>1, <1>4, <2>1 DEF RcSlotsTrue
<1>6. CASE RcFromRemote
  <2>1. /\ RcReuse(rcRemote, RcLinesOf) /\ RcServe(RcLinesOf, RcLayered(rcRemote.rules))
        /\ UNCHANGED <<rcWorld, rcRemote, rcFiles>>
    BY <1>1, <1>6 DEF RcFromRemote
  <2>2. RcLayered(rcRemote.rules) = RcCompiled(RcLinesOf, rcCustom)
    BY <1>1, <2>1 DEF RcReuse, RcSlotsTrue, RcLayered, RcCompiled
  <2> QED BY <1>1, <1>4, <2>1, <2>2 DEF RcSlotsTrue
<1>7. CASE RcFromDisk
  <2>1. /\ RcOnDisk(RcLinesOf) /\ RcServe(RcLinesOf, RcLayered(rcDisk.rules))
        /\ rcRemote' = RcRemembered(RcLinesOf, rcDisk.rules)
        /\ UNCHANGED <<rcWorld, rcFiles>>
    BY <1>1, <1>7 DEF RcFromDisk
  <2>2. rcDisk.rules = RcCompiled(RcLinesOf, RcNone)
    BY <1>1, <2>1 DEF RcOnDisk, RcFileIsTrue
  <2>3. RcLayered(rcDisk.rules) = RcCompiled(RcLinesOf, rcCustom)
    BY <2>2 DEF RcLayered, RcCompiled
  <2>4. rcRemote'.rules = RcCompiled(rcRemote'.print, RcNone)
    BY <2>1, <2>2 DEF RcRemembered
  <2> QED BY <1>4, <2>1, <2>3, <2>4 DEF RcSlotsTrue
<1>8. CASE RcCompile
  <2>1. PICK rules : rules = RcCompiled(RcLinesOf, RcNone)
    OBVIOUS
  <2>2. /\ RcServe(RcLinesOf, RcLayered(rules)) /\ rcRemote' = RcRemembered(RcLinesOf, rules)
        /\ UNCHANGED <<rcWorld, rcFiles>>
    BY <1>1, <1>8, <2>1 DEF RcCompile
  <2>3. RcLayered(rules) = RcCompiled(RcLinesOf, rcCustom)
    BY <2>1 DEF RcLayered, RcCompiled
  <2>4. rcRemote'.rules = RcCompiled(rcRemote'.print, RcNone)
    BY <2>1, <2>2 DEF RcRemembered
  <2> QED BY <1>4, <2>2, <2>3, <2>4 DEF RcSlotsTrue
<1> QED BY <1>3, <1>5, <1>6, <1>7, <1>8 DEF RcLoad

(* The threads that write are left alone by a load, but for the one that it *)
(* starts.                                                                  *)
LEMMA RcLoadStep ==
    ASSUME RcInv, RcLoad
    PROVE  RcInv'
<1>1. RcSlotsTrue' /\ UNCHANGED <<rcWorld, rcFiles>> /\ RcPrintTrue'
  BY RcLoads, RcRemembers
<1>2. RcStamped' /\ RcFileIsTrue'
  BY <1>1 DEF RcInv, RcStamped, RcFileIsTrue, rcWorld, rcFiles
<1>3. CASE UNCHANGED rcThread
  <2>1. RcKinds' /\ RcWritten'
    BY <1>1, <1>3 DEF RcInv, RcKinds, RcWritten, rcWorld, rcFiles
  <2> QED BY <1>1, <1>2, <2>1 DEF RcInv
<1>4. CASE RcCompile
  <2>1. PICK rules : rules = RcCompiled(RcLinesOf, RcNone)
    OBVIOUS
  <2>2. PICK t \in RcThreads :
          rcThread' = [rcThread EXCEPT ![t] = [at |-> "write", print |-> RcLinesOf, rules |-> rules]]
    BY <1>4, <2>1, RcRemoteTrue DEF RcCompile
  <2>3. rules \in RcRules /\ RcLinesOf \in RcPrints
    BY <2>1, RcRemoteTrue DEF RcRules, RcCompiled, RcText
  <2>4. [at |-> "write", print |-> RcLinesOf, rules |-> rules]
          \in [at : RcStages, print : RcPrints \cup {RcNone}, rules : RcRules \cup {RcNone}]
    BY <2>3 DEF RcStages
  <2>5. RcKinds'
    BY <1>1, <2>2, <2>4 DEF RcInv, RcKinds, rcWorld, rcFiles
  <2>6. \A s \in RcThreads : rcThread'[s] = IF s = t THEN [at |-> "write", print |-> RcLinesOf, rules |-> rules]
                                            ELSE rcThread[s]
    BY <2>2 DEF RcInv, RcKinds
  <2>7. RcWritten'
    BY <1>1, <2>1, <2>6 DEF RcInv, RcWritten, rcFiles
  <2> QED BY <1>1, <1>2, <2>5, <2>7 DEF RcInv
<1> QED BY <1>3, <1>4 DEF RcLoad, RcFromMemory, RcBadfilter, RcFromRemote, RcFromDisk

(* A thread goes on to its next stage, or is done. *)
LEMMA RcThreadMoves ==
    ASSUME RcInv, NEW t \in RcThreads, UNCHANGED <<rcWorld, rcStatics>>, DOMAIN rcTemp' = RcThreads,
           \/ rcThread' = [rcThread EXCEPT ![t] = RcIdle]
           \/ /\ rcThread[t].at # "idle"
              /\ \E where \in RcStages : rcThread' = [rcThread EXCEPT ![t].at = where],
           \A s \in RcThreads \ {t} : rcTemp'[s] = rcTemp[s],
           rcThread'[t].at \in {"check", "remove", "rename"} /\ rcTemp'[t] # RcNone =>
              rcTemp'[t].whole /\ rcTemp'[t].rules = RcCompiled(rcTemp'[t].print, RcNone),
           RcFileIsTrue'
    PROVE  RcInv'
<1>1. rcThread[t] \in [at : RcStages, print : RcPrints \cup {RcNone}, rules : RcRules \cup {RcNone}]
  BY DEF RcInv, RcKinds
<1>2. PICK new \in [at : RcStages, print : RcPrints \cup {RcNone}, rules : RcRules \cup {RcNone}] :
         /\ rcThread' = [rcThread EXCEPT ![t] = new]
         /\ \/ new.at = "idle"
            \/ rcThread[t].at # "idle" /\ new.print = rcThread[t].print /\ new.rules = rcThread[t].rules
  <2>1. CASE rcThread' = [rcThread EXCEPT ![t] = RcIdle]
    <3>1. RcIdle \in [at : RcStages, print : RcPrints \cup {RcNone}, rules : RcRules \cup {RcNone}]
      BY DEF RcIdle, RcStages
    <3>2. RcIdle.at = "idle"
      BY DEF RcIdle
    <3> QED BY <2>1, <3>1, <3>2
  <2>2. CASE rcThread[t].at # "idle" /\ \E where \in RcStages : rcThread' = [rcThread EXCEPT ![t].at = where]
    <3>1. PICK where \in RcStages : rcThread' = [rcThread EXCEPT ![t].at = where]
      BY <2>2
    <3>2. [rcThread[t] EXCEPT !.at = where]
            \in [at : RcStages, print : RcPrints \cup {RcNone}, rules : RcRules \cup {RcNone}]
      BY <1>1
    <3>3. /\ [rcThread[t] EXCEPT !.at = where].print = rcThread[t].print
          /\ [rcThread[t] EXCEPT !.at = where].rules = rcThread[t].rules
      BY <1>1
    <3> QED BY <2>2, <3>1, <3>2, <3>3
  <2> QED BY <2>1, <2>2
<1>3. RcKinds'
  BY <1>2 DEF RcInv, RcKinds, rcWorld
<1>4. \A s \in RcThreads : rcThread'[s] = IF s = t THEN new ELSE rcThread[s]
  BY <1>2 DEF RcInv, RcKinds
<1>5. RcWritten'
  BY <1>2, <1>4 DEF RcInv, RcWritten
<1>6. RcStamped' /\ RcPrintTrue' /\ RcSlotsTrue'
  BY DEF RcInv, RcStamped, RcPrintTrue, RcSlotsTrue, rcWorld, rcStatics
<1> QED BY <1>3, <1>5, <1>6 DEF RcInv

LEMMA RcThreadStep ==
    ASSUME RcInv, NEW t \in RcThreads,
           RcCreate(t) \/ RcSync(t) \/ RcCheck(t) \/ RcRemove(t) \/ RcRename(t) \/ RcWriteFails(t)
    PROVE  RcInv'
<1>1. /\ DOMAIN rcTemp = RcThreads /\ RcFileIsTrue /\ DOMAIN rcThread = RcThreads
      /\ rcThread[t] \in [at : RcStages, print : RcPrints \cup {RcNone}, rules : RcRules \cup {RcNone}]
  BY DEF RcInv, RcKinds
<1>2. \A where : [rcThread EXCEPT ![t].at = where][t].at = where
  BY <1>1
<1>3. rcThread[t].at # "idle" => rcThread[t].rules = RcCompiled(rcThread[t].print, RcNone)
  BY DEF RcInv, RcWritten
<1>4. rcThread[t].at \in {"check", "remove", "rename"} /\ rcTemp[t] # RcNone =>
         rcTemp[t].whole /\ rcTemp[t].rules = RcCompiled(rcTemp[t].print, RcNone)
  BY DEF RcInv, RcWritten
<1>5. [rcThread EXCEPT ![t] = RcIdle][t].at = "idle"
  BY <1>1 DEF RcIdle
<1>6. CASE RcCreate(t)
  <2>1. /\ rcThread[t].at = "write" /\ rcThread' = [rcThread EXCEPT ![t].at = "sync"]
        /\ rcTemp' = [rcTemp EXCEPT ![t] = RcFileOf(t, FALSE)]
        /\ UNCHANGED <<rcWorld, rcStatics, rcDisk>>
    BY <1>6 DEF RcCreate, RcAt
  <2>2. RcFileIsTrue'
    BY <1>1, <2>1 DEF RcFileIsTrue
  <2>3. rcThread'[t].at = "sync" /\ "sync" \in RcStages
    BY <1>2, <2>1 DEF RcStages
  <2> QED BY <1>1, <2>1, <2>2, <2>3, RcThreadMoves
<1>7. CASE RcSync(t)
  <2>1. /\ rcThread[t].at = "sync" /\ rcThread' = [rcThread EXCEPT ![t].at = "check"]
        /\ rcTemp' = [rcTemp EXCEPT ![t] = IF rcTemp[t] = RcNone THEN RcNone ELSE RcFileOf(t, TRUE)]
        /\ UNCHANGED <<rcWorld, rcStatics, rcDisk>>
    BY <1>7 DEF RcSync, RcAt
  <2>2. RcFileIsTrue' /\ "check" \in RcStages
    BY <1>1, <2>1 DEF RcFileIsTrue, RcStages
  <2>3. rcTemp'[t] # RcNone => rcTemp'[t].whole /\ rcTemp'[t].rules = RcCompiled(rcTemp'[t].print, RcNone)
    BY <1>1, <1>3, <2>1 DEF RcFileOf
  <2> QED BY <1>1, <2>1, <2>2, <2>3, RcThreadMoves
<1>8. CASE RcCheck(t)
  <2>1. /\ rcThread[t].at = "check" /\ UNCHANGED <<rcWorld, rcStatics, rcDisk>>
        /\ \/ rcThread' = [rcThread EXCEPT ![t].at = "remove"] /\ rcTemp' = rcTemp
           \/ rcThread' = [rcThread EXCEPT ![t] = RcIdle] /\ rcTemp' = [rcTemp EXCEPT ![t] = RcNone]
    BY <1>8 DEF RcCheck, RcAt, RcOver
  <2>2. RcFileIsTrue' /\ "remove" \in RcStages
    BY <1>1, <2>1 DEF RcFileIsTrue, RcStages
  <2>3. rcTemp'[t] # RcNone => rcTemp'[t].whole /\ rcTemp'[t].rules = RcCompiled(rcTemp'[t].print, RcNone)
    BY <1>1, <1>4, <2>1
  <2> QED BY <1>1, <2>1, <2>2, <2>3, RcThreadMoves
<1>9. CASE RcRemove(t)
  <2>1. /\ rcThread[t].at = "remove" /\ rcThread' = [rcThread EXCEPT ![t].at = "rename"]
        /\ rcDisk' = RcNone /\ UNCHANGED <<rcWorld, rcStatics, rcTemp>>
    BY <1>9 DEF RcRemove, RcAt
  <2>2. RcFileIsTrue' /\ "rename" \in RcStages
    BY <2>1 DEF RcFileIsTrue, RcStages
  <2>3. rcTemp'[t] # RcNone => rcTemp'[t].whole /\ rcTemp'[t].rules = RcCompiled(rcTemp'[t].print, RcNone)
    BY <1>4, <2>1
  <2> QED BY <1>1, <2>1, <2>2, <2>3, RcThreadMoves
<1>10. CASE RcRename(t)
  <2>1. /\ rcThread[t].at = "rename" /\ rcThread' = [rcThread EXCEPT ![t] = RcIdle]
        /\ rcDisk' = (IF rcTemp[t] = RcNone THEN rcDisk ELSE rcTemp[t])
        /\ rcTemp' = [rcTemp EXCEPT ![t] = RcNone] /\ UNCHANGED <<rcWorld, rcStatics>>
    BY <1>10 DEF RcRename, RcOver, RcRenamed
  <2>2. RcFileIsTrue'
    BY <1>1, <1>4, <2>1 DEF RcFileIsTrue
  <2>3. rcTemp'[t] = RcNone
    BY <1>1, <2>1
  <2> QED BY <1>1, <2>1, <2>2, <2>3, RcThreadMoves
<1>11. CASE RcWriteFails(t)
  <2>1. /\ rcThread' = [rcThread EXCEPT ![t] = RcIdle]
        /\ rcTemp' = [rcTemp EXCEPT ![t] = RcNone] /\ UNCHANGED <<rcWorld, rcStatics, rcDisk>>
    BY <1>11 DEF RcWriteFails, RcOver
  <2>2. RcFileIsTrue'
    BY <1>1, <2>1 DEF RcFileIsTrue
  <2>3. rcTemp'[t] = RcNone
    BY <1>1, <2>1
  <2> QED BY <1>1, <2>1, <2>2, <2>3, RcThreadMoves
<1> QED BY <1>6, <1>7, <1>8, <1>9, <1>10, <1>11

(* A list is published at a step that no manifest has seen. *)
LEMMA RcPublishStep ==
    ASSUME RcInv, NEW l \in RcLists, NEW text \in RcText, RcPublish(l, text)
    PROVE  RcInv'
<1>1. /\ rcSteps \in Nat /\ rcSteps' = rcSteps + 1
      /\ rcFile' = [rcFile EXCEPT ![l] = text] /\ rcStamp' = [rcStamp EXCEPT ![l] = rcSteps + 1]
      /\ UNCHANGED <<rcOn, rcCustom, rcStatics, rcFiles, rcThread>>
  BY DEF RcPublish, RcInv, RcKinds
<1>2. \A m \in RcLists : /\ rcFile'[m] = IF m = l THEN text ELSE rcFile[m]
                         /\ rcStamp'[m] = IF m = l THEN rcSteps + 1 ELSE rcStamp[m]
  BY <1>1 DEF RcInv, RcKinds
<1>3. rcStamp' \in [RcLists -> 0..rcSteps']
  BY <1>1 DEF RcInv, RcKinds
<1>4. RcKinds'
  BY <1>1, <1>3 DEF RcInv, RcKinds, rcFiles
<1>5. RcStamped'
  BY <1>1, <1>2 DEF RcInv, RcStamped
<1>6. ASSUME rcPrint # RcNone, NEW m \in DOMAIN rcPrint.print
      PROVE  /\ rcPrint.manifest[m] \in 0..rcSteps'
             /\ rcPrint.manifest[m] # 0 /\ rcPrint.manifest[m] = rcStamp'[m] => rcPrint.print[m] = rcFile'[m]
  <2>1. m \in RcLists
    BY <1>6 DEF RcInv, RcPrintTrue, RcPrints
  <2>2. /\ rcPrint.manifest[m] \in 0..rcSteps
        /\ rcPrint.manifest[m] # 0 /\ rcPrint.manifest[m] = rcStamp[m] => rcPrint.print[m] = rcFile[m]
    BY <1>6 DEF RcInv, RcPrintTrue
  <2> QED BY <1>1, <1>2, <2>1, <2>2
<1>7. RcPrintTrue'
  <2>1. rcPrint' = rcPrint
    BY <1>1 DEF rcStatics
  <2> QED BY <1>6, <2>1 DEF RcInv, RcPrintTrue
<1>8. RcSlotsTrue' /\ RcWritten' /\ RcFileIsTrue'
  BY <1>1 DEF RcInv, RcSlotsTrue, RcWritten, RcFileIsTrue, rcStatics, rcFiles
<1> QED BY <1>4, <1>5, <1>7, <1>8 DEF RcInv

(* The steps that forget, and those that change what is asked for. *)
LEMMA RcOtherSteps ==
    ASSUME RcInv,
           \/ RcClear \/ RcClearFiles \/ RcDrop \/ RcCrash
           \/ \E on \in SUBSET RcLists, custom \in RcText : RcConfigure(on, custom)
    PROVE  RcInv'
<1>1. CASE RcClear
  <2>1. /\ rcActive' = RcNone /\ rcRemote' = RcNone /\ rcPrint' = RcNone /\ rcSteps' = rcSteps + 1
        /\ UNCHANGED <<rcFile, rcStamp, rcOn, rcCustom, rcFiles, rcThread>>
    BY <1>1 DEF RcClear, RcForgotten
  <2>2. rcSteps \in Nat /\ rcStamp' \in [RcLists -> 0..rcSteps']
    BY <2>1 DEF RcInv, RcKinds
  <2>3. RcKinds'
    BY <2>1, <2>2 DEF RcInv, RcKinds, rcFiles
  <2> QED BY <2>1, <2>3 DEF RcInv, RcStamped, RcPrintTrue, RcSlotsTrue, RcWritten, RcFileIsTrue, rcFiles
<1>2. CASE RcClearFiles
  <2>1. /\ rcDisk' = RcNone /\ rcTemp' = [t \in RcThreads |-> RcNone]
        /\ UNCHANGED <<rcWorld, rcStatics, rcThread>>
    BY <1>2 DEF RcClearFiles
  <2>2. RcKinds'
    BY <2>1 DEF RcInv, RcKinds, rcWorld
  <2> QED
    BY <2>1, <2>2 DEF RcInv, RcStamped, RcPrintTrue, RcSlotsTrue, RcWritten, RcFileIsTrue, rcWorld, rcStatics
<1>3. CASE RcDrop
  <2>1. UNCHANGED <<rcWorld, rcStatics, rcFiles, rcThread>>
    BY <1>3 DEF RcDrop
  <2> QED BY <2>1 DEF RcInv, RcKinds, RcStamped, RcPrintTrue, RcSlotsTrue, RcWritten, RcFileIsTrue,
                      rcWorld, rcStatics, rcFiles
<1>4. CASE RcCrash
  <2>1. /\ rcActive' = RcNone /\ rcRemote' = RcNone /\ rcPrint' = RcNone
        /\ rcThread' = [t \in RcThreads |-> RcIdle] /\ UNCHANGED <<rcWorld, rcFiles>>
    BY <1>4 DEF RcCrash, RcForgotten
  <2>2. RcIdle \in [at : RcStages, print : RcPrints \cup {RcNone}, rules : RcRules \cup {RcNone}]
    BY DEF RcIdle, RcStages
  <2>3. RcKinds'
    BY <2>1, <2>2 DEF RcInv, RcKinds, rcWorld, rcFiles
  <2>4. \A t \in RcThreads : rcThread'[t].at = "idle"
    BY <2>1 DEF RcIdle
  <2> QED BY <2>1, <2>3, <2>4 DEF RcInv, RcStamped, RcPrintTrue, RcSlotsTrue, RcWritten, RcFileIsTrue,
                                  rcWorld, rcFiles
<1>5. ASSUME NEW on \in SUBSET RcLists, NEW custom \in RcText, RcConfigure(on, custom) PROVE RcInv'
  <2>1. /\ rcSteps \in Nat /\ rcSteps' = rcSteps + 1 /\ rcOn' = on /\ rcCustom' = custom
        /\ UNCHANGED <<rcFile, rcStamp, rcStatics, rcFiles, rcThread>>
    BY <1>5 DEF RcConfigure, RcInv, RcKinds
  <2>2. rcStamp' \in [RcLists -> 0..rcSteps']
    BY <2>1 DEF RcInv, RcKinds
  <2>3. RcKinds'
    BY <2>1, <2>2 DEF RcInv, RcKinds, rcFiles
  <2>4. RcPrintTrue'
    <3>1. \A n \in 0..rcSteps : n \in 0..rcSteps'
      BY <2>1
    <3>2. rcPrint' = rcPrint
      BY <2>1 DEF rcStatics
    <3> QED BY <2>1, <3>1, <3>2 DEF RcInv, RcPrintTrue
  <2> QED BY <2>1, <2>3, <2>4 DEF RcInv, RcStamped, RcSlotsTrue, RcWritten, RcFileIsTrue, rcStatics, rcFiles
<1> QED BY <1>1, <1>2, <1>3, <1>4, <1>5

LEMMA RcStep == RcInv /\ [RcNext]_rcVars => RcInv'
<1> SUFFICES ASSUME RcInv, [RcNext]_rcVars PROVE RcInv'
  OBVIOUS
<1>1. CASE UNCHANGED rcVars
  BY <1>1 DEF RcInv, RcKinds, RcStamped, RcPrintTrue, RcSlotsTrue, RcWritten, RcFileIsTrue,
              rcVars, rcWorld, rcStatics, rcFiles
<1>2. CASE RcNext
  <2>1. ASSUME NEW l \in RcLists, NEW text \in RcTexts \cup {RcNone}, RcPublish(l, text) PROVE RcInv'
    BY <2>1, RcPublishStep DEF RcText
  <2>2. ASSUME NEW t \in RcThreads,
               RcCreate(t) \/ RcSync(t) \/ RcCheck(t) \/ RcRemove(t) \/ RcRename(t) \/ RcWriteFails(t)
        PROVE  RcInv'
    BY <2>2, RcThreadStep
  <2> QED BY <1>2, <2>1, <2>2, RcLoadStep, RcOtherSteps DEF RcNext, RcText
<1> QED BY <1>1, <1>2

(* The rule cache keeps its inductive invariant: what is remembered, being  *)
(* written or on disk was compiled from what its name says, and a manifest  *)
(* is out of date as soon as one of its lists is published.                 *)
THEOREM RcInvariant == RcSpec => []RcInv
<1>1. RcInit => RcInv
  <2> SUFFICES ASSUME RcInit PROVE RcInv
    OBVIOUS
  <2>1. RcIdle \in [at : RcStages, print : RcPrints \cup {RcNone}, rules : RcRules \cup {RcNone}]
    BY DEF RcIdle, RcStages
  <2>2. RcKinds
    BY <2>1 DEF RcInit, RcKinds, RcText
  <2>3. RcWritten
    BY DEF RcInit, RcWritten, RcIdle
  <2> QED BY <2>2, <2>3 DEF RcInit, RcInv, RcStamped, RcPrintTrue, RcSlotsTrue, RcFileIsTrue
<1> QED BY <1>1, RcStep, PTL DEF RcSpec

(* RcCacheTrue: compiled rules, in memory or on disk, are those of the lists*)
(* and custom rules they are used for, whatever threads, clears and crashes *)
(* have done to the cache.                                                  *)
THEOREM RcCacheCorrect == RcSpec => RcCacheTrue
<1>1. RcInv => RcTypeOK /\ RcFileIsTrue
  BY RcPrintHolds DEF RcInv, RcTypeOK, RcSlotsTrue
<1>2. RcInv /\ [RcNext]_rcVars =>
        [(RcLoad /\ ~rcClearing) => rcServed' = RcCompiled(RcLinesOf, rcCustom)]_rcVars
  BY RcLoads
<1> QED BY <1>1, <1>2, RcInvariant, PTL DEF RcSpec, RcCacheTrue, RcServesLists

------------------------------------------------------------------------------
AcBucket == [tokens : 0..AcCapacity, refill : AcAges, seen : AcAges]

AcKinds ==
    /\ acLimit \in Nat /\ acBacks \in 0..MaxAcBacks /\ acActive \subseteq AcClients
    /\ AcKnown \subseteq AcClients /\ acBuckets \in [AcKnown -> AcBucket]
    /\ IsFiniteSet(AcKnown) /\ Cardinality(AcKnown) <= AcMaxClients
    /\ acPruned \in AcAges /\ acIdeal \in [AcClients -> 0..AcCapacity]

(* Both times of a bucket are set together, and no age is below what the    *)
(* clock was set back by.                                                   *)
AcAgesTrue ==
    /\ \A c \in AcKnown : acBuckets[c].seen = acBuckets[c].refill /\ -acBacks <= acBuckets[c].refill
    /\ -acBacks <= acPruned

(* The inductive invariant. *)
AcInv == AcKinds /\ AcAgesTrue /\ AcBucketIsExact

(* Max of two, and what a product with the limit grows by. *)
LEMMA AcGreatest == \A a, b \in Int : Max({a, b}) = IF a >= b THEN a ELSE b
<1> TAKE a, b \in Int
<1> DEFINE m == IF a >= b THEN a ELSE b
<1>1. m \in {a, b} /\ \A x \in {a, b} : m >= x
  OBVIOUS
<1>2. \A n \in {a, b} : (\A x \in {a, b} : n >= x) => n = m
  OBVIOUS
<1> QED BY <1>1, <1>2 DEF Max

LEMMA AcProducts == \A n \in Nat : \A x, y \in Nat : x * n \in Nat /\ (x <= y => x * n <= y * n)
                                                    /\ (x + 1) * n = x * n + n
<1> TAKE n \in Nat
<1> TAKE x, y \in Nat
<1>1. x * n \in Nat
  OBVIOUS
<1>2. ASSUME x <= y PROVE x * n <= y * n
  <2>1. PICK d \in Nat : y = x + d
    <3>1. y - x \in Nat /\ y = x + (y - x)
      BY <1>2
    <3> QED BY <3>1
  <2>2. y * n = x * n + d * n /\ d * n \in Nat
    BY <2>1
  <2> QED BY <1>1, <2>2
<1>3. (x + 1) * n = x * n + n
  OBVIOUS
<1> QED BY <1>1, <1>2, <1>3

(* Ages are kept for longer than a client stays in the table.               *)
LEMMA AcNumbers ==
    /\ AcBurst \in Nat \ {0} /\ AcTtl \in Nat /\ AcBurst <= AcTtl /\ MaxAcBacks \in Nat
    /\ AcOld \in Nat /\ AcTtl < AcOld /\ AcAges = -MaxAcBacks..AcOld
    /\ AcMaxClients \in Nat \ {0}
<1>1. /\ AcBurst \in Nat \ {0} /\ AcTtl \in Nat /\ AcBurst <= AcTtl /\ MaxAcBacks \in Nat
      /\ AcMaxClients \in Nat \ {0} /\ AcPruneInterval \in Nat
  BY AcConstants DEF AcConstants
<1>2. Max({AcTtl, AcPruneInterval}) = IF AcTtl >= AcPruneInterval THEN AcTtl ELSE AcPruneInterval
  BY <1>1, AcGreatest
<1> QED BY <1>1, <1>2 DEF AcOld, AcAges

(* A bucket that is older than the burst is full again.                     *)
LEMMA AcFull ==
    ASSUME acLimit \in Nat, NEW tokens \in 0..AcCapacity, NEW age \in Nat, AcBurst <= age
    PROVE  AcCapacity <= tokens + age * acLimit
<1>1. AcBurst * acLimit <= age * acLimit /\ AcBurst * acLimit \in Nat /\ age * acLimit \in Nat
  BY AcNumbers, AcProducts
<1>2. AcBurst * acLimit = acLimit * AcBurst
  BY AcNumbers
<1>3. AcCapacity \in Nat /\ AcCapacity <= age * acLimit
  BY <1>1, <1>2 DEF AcCapacity
<1> QED BY <1>1, <1>3

LEMMA AcRoom == acLimit \in Nat => AcCapacity \in Nat
  BY AcNumbers DEF AcCapacity

(* A refilled bucket stays within its capacity. *)
LEMMA AcRefills ==
    ASSUME acLimit \in Nat, NEW bucket \in AcBucket
    PROVE  AcRefilled(bucket) \in 0..AcCapacity
<1>1. /\ bucket.tokens \in 0..AcCapacity /\ bucket.refill \in Int /\ AcCapacity \in Nat
  BY AcRoom, AcNumbers DEF AcBucket
<1>2. CASE bucket.refill < 0
  BY <1>1, <1>2 DEF AcRefilled
<1>3. CASE ~(bucket.refill < 0)
  <2>1. bucket.refill \in Nat
    BY <1>1, <1>3
  <2>2. bucket.refill * acLimit \in Nat
    BY <2>1, AcProducts
  <2> QED BY <1>1, <1>3, <2>2 DEF AcRefilled, AcMin
<1> QED BY <1>2, <1>3

(* What is left of the table: the clients forgotten by a prune were full.   *)
AcShrunk(table) ==
    /\ DOMAIN table \subseteq AcKnown /\ table \in [DOMAIN table -> AcBucket]
    /\ \A c \in DOMAIN table : table[c] = acBuckets[c]
    /\ IsFiniteSet(DOMAIN table) /\ Cardinality(DOMAIN table) <= Cardinality(AcKnown)
    /\ acBacks = 0 => \A c \in AcKnown \ DOMAIN table : acIdeal[c] = AcCapacity

LEMMA AcTableShrinks ==
    ASSUME AcInv, NEW c
    PROVE  AcShrunk(AcTable(c))
<1>1. IsFiniteSet(AcKnown) /\ acBuckets \in [AcKnown -> AcBucket] /\ AcRetained \in SUBSET AcKnown
  BY DEF AcInv, AcKinds, AcRetained
<1>2. CASE ~AcPrunes
  BY <1>1, <1>2, FS_CardinalityType DEF AcTable, AcShrunk, AcKnown
<1>3. CASE AcPrunes
  <2>1. AcTable(c) = [d \in AcRetained |-> acBuckets[d]]
    BY <1>3 DEF AcTable
  <2>2. IsFiniteSet(AcRetained) /\ Cardinality(AcRetained) <= Cardinality(AcKnown)
    BY <1>1, FS_Subset
  <2>3. ASSUME acBacks = 0, NEW d \in AcKnown \ AcRetained PROVE acIdeal[d] = AcCapacity
    <3>1. /\ acBuckets[d] \in AcBucket /\ acBuckets[d].seen = acBuckets[d].refill
          /\ ~(acBuckets[d].seen <= AcTtl) /\ d \in AcClients /\ acLimit \in Nat
      BY <2>3 DEF AcInv, AcKinds, AcAgesTrue, AcRetained
    <3>2. /\ acBuckets[d].refill \in Nat /\ AcBurst <= acBuckets[d].refill
          /\ acBuckets[d].tokens \in 0..AcCapacity
      BY <3>1, AcNumbers DEF AcBucket
    <3>3. AcCapacity <= acBuckets[d].tokens + acBuckets[d].refill * acLimit
      BY <3>1, <3>2, AcFull
    <3>4. AcCapacity \in Nat /\ acBuckets[d].refill * acLimit \in Nat
      BY <3>1, <3>2, AcRoom, AcProducts
    <3>5. AcRefilled(acBuckets[d]) = AcCapacity
      BY <3>2, <3>3, <3>4 DEF AcRefilled, AcMin
    <3> QED BY <2>3, <3>1, <3>5 DEF AcInv, AcBucketIsExact
  <2> QED BY <1>1, <2>1, <2>2, <2>3 DEF AcShrunk
<1> QED BY <1>2, <1>3

(* A query takes one token, of the bucket as of the ideal one.              *)
LEMMA AcAskStep ==
    ASSUME AcInv, NEW c \in AcClients, AcAsk(c)
    PROVE  AcInv'
<1>1. PICK table : table = AcTable(c)
  OBVIOUS
<1>2. AcShrunk(table)
  BY <1>1, AcTableShrinks
<1>3. PICK bucket : bucket = IF c \in DOMAIN table THEN table[c] ELSE AcNew
  OBVIOUS
<1>4. PICK tokens : tokens = AcRefilled(bucket)
  OBVIOUS
<1>5. PICK taken : taken = IF tokens = 0 THEN 0 ELSE 1
  OBVIOUS
<1>6. /\ UNCHANGED <<acLimit, acBlocked, acAllowed, acActive, acBacks, acMoves>>
      /\ acPruned' = IF AcPrunes THEN 0 ELSE acPruned
      /\ \/ AcRefused(table, c) /\ acBuckets' = table /\ acIdeal' = acIdeal
         \/ /\ ~AcRefused(table, c)
            /\ acBuckets' = [d \in DOMAIN table \cup {c} |->
                     IF d = c THEN [tokens |-> tokens - taken, refill |-> 0, seen |-> 0] ELSE table[d]]
            /\ acIdeal' = [acIdeal EXCEPT ![c] = Max({0, acIdeal[c] - taken})]
  BY <1>1, <1>3, <1>4, <1>5 DEF AcAsk
<1>7. /\ acLimit \in Nat /\ AcCapacity \in Nat /\ 0 \in AcAges /\ AcAges \subseteq Int
      /\ acBacks \in Nat /\ acBacks <= MaxAcBacks
  BY AcRoom, AcNumbers DEF AcInv, AcKinds
<1>8. AcCapacity' = AcCapacity
  BY <1>6 DEF AcCapacity
<1>9. acPruned' \in AcAges /\ -acBacks' <= acPruned'
  BY <1>6, <1>7 DEF AcInv, AcKinds, AcAgesTrue
<1>10. /\ DOMAIN table \subseteq AcClients /\ table \in [DOMAIN table -> AcBucket] /\ IsFiniteSet(DOMAIN table)
       /\ Cardinality(DOMAIN table) <= AcMaxClients /\ Cardinality(DOMAIN table) \in Nat
  <2>1. /\ DOMAIN table \subseteq AcKnown /\ table \in [DOMAIN table -> AcBucket] /\ IsFiniteSet(DOMAIN table)
        /\ Cardinality(DOMAIN table) <= Cardinality(AcKnown)
    BY <1>2 DEF AcShrunk
  <2>2. /\ AcKnown \subseteq AcClients /\ Cardinality(AcKnown) <= AcMaxClients /\ IsFiniteSet(AcKnown)
    BY DEF AcInv, AcKinds
  <2>3. Cardinality(DOMAIN table) \in Nat /\ Cardinality(AcKnown) \in Nat
    BY <2>1, <2>2, FS_CardinalityType
  <2> QED BY <2>1, <2>2, <2>3, AcNumbers
<1>11. \A d \in DOMAIN table : table[d].seen = table[d].refill /\ -acBacks <= table[d].refill
  BY <1>2 DEF AcShrunk, AcInv, AcAgesTrue
<1>12. ASSUME acBacks = 0, NEW d \in AcClients
       PROVE  acIdeal[d] = IF d \in DOMAIN table THEN AcRefilled(table[d]) ELSE AcCapacity
  BY <1>2, <1>12 DEF AcShrunk, AcInv, AcBucketIsExact
<1>13. AcNew \in AcBucket /\ AcRefilled(AcNew) = AcCapacity
  <2>1. 0 * acLimit = 0
    BY <1>7
  <2> QED BY <1>7, <2>1 DEF AcNew, AcBucket, AcRefilled, AcMin
<1>14. bucket \in AcBucket /\ tokens \in 0..AcCapacity
  <2>1. bucket \in AcBucket
    BY <1>3, <1>10, <1>13
  <2> QED BY <1>4, <1>7, <2>1, AcRefills
<1>15. tokens - taken \in 0..AcCapacity /\ taken \in {0, 1} /\ tokens \in Nat
  BY <1>5, <1>7, <1>14
<1>16. CASE AcRefused(table, c) /\ acBuckets' = table /\ acIdeal' = acIdeal
  <2>1. AcKinds'
    BY <1>6, <1>8, <1>9, <1>10, <1>16 DEF AcInv, AcKinds, AcKnown, AcBucket
  <2>2. AcAgesTrue'
    BY <1>6, <1>9, <1>11, <1>16 DEF AcAgesTrue, AcKnown
  <2>3. AcBucketIsExact'
    BY <1>6, <1>8, <1>12, <1>16 DEF AcBucketIsExact, AcKnown, AcRefilled
  <2> QED BY <2>1, <2>2, <2>3 DEF AcInv
<1>17. CASE /\ ~AcRefused(table, c)
            /\ acBuckets' = [d \in DOMAIN table \cup {c} |->
                     IF d = c THEN [tokens |-> tokens - taken, refill |-> 0, seen |-> 0] ELSE table[d]]
            /\ acIdeal' = [acIdeal EXCEPT ![c] = Max({0, acIdeal[c] - taken})]
  <2>1. PICK new : new = [tokens |-> tokens - taken, refill |-> 0, seen |-> 0]
    OBVIOUS
  <2>2. new \in AcBucket /\ new.seen = 0 /\ new.refill = 0 /\ new.tokens = tokens - taken
    BY <1>7, <1>15, <2>1 DEF AcBucket
  <2>3. /\ AcKnown' = DOMAIN table \cup {c} /\ acBuckets'[c] = new
        /\ \A d \in DOMAIN table \ {c} : acBuckets'[d] = table[d]
        /\ acBuckets' \in [DOMAIN table \cup {c} -> AcBucket]
    BY <1>10, <1>17, <2>1, <2>2 DEF AcKnown
  <2>4. IsFiniteSet(DOMAIN table \cup {c}) /\ Cardinality(DOMAIN table \cup {c}) <= AcMaxClients
    <3>1. CASE c \in DOMAIN table
      <4>1. DOMAIN table \cup {c} = DOMAIN table
        BY <3>1
      <4> QED BY <1>10, <4>1
    <3>2. CASE c \notin DOMAIN table
      <4>1. ~(Cardinality(DOMAIN table) >= AcMaxClients)
        BY <1>17, <3>2 DEF AcRefused
      <4>2. IsFiniteSet(DOMAIN table \cup {c}) /\ Cardinality(DOMAIN table \cup {c}) = Cardinality(DOMAIN table) + 1
        BY <1>10, <3>2, FS_AddElement
      <4> QED BY <1>10, <4>1, <4>2, AcNumbers
    <3> QED BY <3>1, <3>2
  <2>5. acIdeal[c] \in 0..AcCapacity /\ acIdeal \in [AcClients -> 0..AcCapacity]
    BY DEF AcInv, AcKinds
  <2>6. Max({0, acIdeal[c] - taken}) = IF 0 >= acIdeal[c] - taken THEN 0 ELSE acIdeal[c] - taken
    <3>1. acIdeal[c] - taken \in Int
      BY <1>7, <1>15, <2>5
    <3> QED BY <3>1, AcGreatest
  <2>7. Max({0, acIdeal[c] - taken}) \in 0..AcCapacity
    BY <1>7, <1>15, <2>5, <2>6
  <2>8. acIdeal' \in [AcClients -> 0..AcCapacity]
    BY <1>17, <2>5, <2>7
  <2>9. AcKinds'
    BY <1>6, <1>8, <1>9, <1>10, <2>3, <2>4, <2>8 DEF AcInv, AcKinds, AcBucket
  <2>10. AcAgesTrue'
    BY <1>6, <1>7, <1>9, <1>11, <2>2, <2>3 DEF AcAgesTrue
  <2>11. ASSUME acBacks = 0, NEW d \in AcClients
         PROVE  acIdeal'[d] = IF d \in AcKnown' THEN AcRefilled(acBuckets'[d]) ELSE AcCapacity
    <3>1. CASE d # c
      <4>1. acIdeal'[d] = acIdeal[d]
        BY <1>17, <2>5, <3>1
      <4> QED BY <1>12, <2>3, <2>11, <3>1, <4>1
    <3>2. CASE d = c
      <4>1. acIdeal[c] = tokens
        BY <1>3, <1>4, <1>12, <1>13, <2>11
      <4>2. acIdeal'[c] = tokens - taken
        BY <1>5, <1>15, <1>17, <2>5, <2>6, <4>1
      <4>3. 0 * acLimit = 0
        BY <1>7
      <4>4. AcRefilled(new) = tokens - taken
        BY <1>7, <1>15, <2>2, <4>3 DEF AcRefilled, AcMin
      <4> QED BY <2>3, <3>2, <4>2, <4>4
    <3> QED BY <3>1, <3>2
  <2>12. AcBucketIsExact'
    BY <1>6, <1>8, <2>11 DEF AcBucketIsExact, AcRefilled
  <2> QED BY <2>9, <2>10, <2>12 DEF AcInv
<1> QED BY <1>6, <1>16, <1>17

(* An age that stops growing stays between its bounds. *)
LEMMA AcWithin ==
    \A back, most, old \in Nat, m \in Int :
        back <= most /\ -back <= m => AcMin(m, old) \in -most..old /\ -back <= AcMin(m, old)
BY DEF AcMin

(* All ages go on together.                                                 *)
LEMMA AcAgesGoOn ==
    ASSUME AcKinds, NEW by \in {-1, 1}, AcAged(by), acLimit' = acLimit, acBacks' \in 0..MaxAcBacks,
           \/ by = 1 /\ acBacks' = acBacks
           \/ by = -1 /\ acBacks' = acBacks + 1,
           AcAgesTrue
    PROVE  /\ AcKnown' = AcKnown /\ acBuckets' \in [AcKnown -> AcBucket] /\ acPruned' \in AcAges
           /\ AcAgesTrue'
           /\ \A c \in AcKnown : /\ acBuckets'[c].tokens = acBuckets[c].tokens
                                 /\ acBuckets'[c].refill = AcMin(acBuckets[c].refill + by, AcOld)
<1>1. /\ acBuckets' = [c \in AcKnown |-> [acBuckets[c] EXCEPT !.refill = AcMin(acBuckets[c].refill + by, AcOld),
                                                            !.seen = AcMin(acBuckets[c].seen + by, AcOld)]]
      /\ acPruned' = AcMin(acPruned + by, AcOld)
  BY DEF AcAged
<1>2. /\ MaxAcBacks \in Nat /\ AcOld \in Nat /\ AcAges = -MaxAcBacks..AcOld
      /\ acBacks \in 0..MaxAcBacks /\ acPruned \in AcAges /\ acBuckets \in [AcKnown -> AcBucket]
  BY AcNumbers DEF AcKinds
<1>3. \A n \in AcAges : -acBacks <= n => AcMin(n + by, AcOld) \in AcAges /\ -acBacks' <= AcMin(n + by, AcOld)
  <2> SUFFICES ASSUME NEW n \in AcAges, -acBacks <= n
               PROVE  AcMin(n + by, AcOld) \in AcAges /\ -acBacks' <= AcMin(n + by, AcOld)
    OBVIOUS
  <2>1. n \in Int /\ n <= AcOld /\ acBacks' \in Nat /\ acBacks' <= MaxAcBacks
    BY <1>2
  <2>2. n + by \in Int /\ -acBacks' <= n + by
    <3>1. CASE by = 1 /\ acBacks' = acBacks
      BY <1>2, <2>1, <3>1
    <3>2. CASE by = -1 /\ acBacks' = acBacks + 1
      BY <1>2, <2>1, <3>2
    <3> QED BY <3>1, <3>2
  <2>3. PICK m : m = n + by
    OBVIOUS
  <2>4. m \in Int /\ -acBacks' <= m
    BY <2>2, <2>3
  <2>5. AcMin(m, AcOld) \in AcAges /\ -acBacks' <= AcMin(m, AcOld)
    BY <1>2, <2>1, <2>4, AcWithin
  <2> QED BY <2>3, <2>5
<1>4. acPruned' \in AcAges /\ -acBacks' <= acPruned'
  BY <1>1, <1>2, <1>3 DEF AcAgesTrue
<1>5. ASSUME NEW c \in AcKnown
      PROVE  /\ acBuckets'[c] \in AcBucket /\ acBuckets'[c].tokens = acBuckets[c].tokens
             /\ acBuckets'[c].refill = AcMin(acBuckets[c].refill + by, AcOld)
             /\ acBuckets'[c].seen = acBuckets'[c].refill /\ -acBacks' <= acBuckets'[c].refill
  <2>1. /\ acBuckets[c] \in AcBucket /\ acBuckets[c].seen = acBuckets[c].refill
        /\ -acBacks <= acBuckets[c].refill
    BY <1>2 DEF AcAgesTrue
  <2>2. PICK age : age = AcMin(acBuckets[c].refill + by, AcOld)
    OBVIOUS
  <2>3. acBuckets'[c] = [acBuckets[c] EXCEPT !.refill = age, !.seen = age]
    BY <1>1, <2>1, <2>2
  <2>4. age \in AcAges /\ -acBacks' <= age
    BY <1>3, <2>1, <2>2 DEF AcBucket
  <2>5. /\ acBuckets'[c] \in AcBucket /\ acBuckets'[c].tokens = acBuckets[c].tokens
        /\ acBuckets'[c].refill = age /\ acBuckets'[c].seen = age
    BY <2>1, <2>3, <2>4 DEF AcBucket
  <2> QED BY <2>2, <2>4, <2>5
<1>6. AcKnown' = AcKnown
  BY <1>1 DEF AcKnown
<1>7. acBuckets' \in [AcKnown -> AcBucket]
  BY <1>1, <1>5
<1> QED BY <1>4, <1>5, <1>6, <1>7 DEF AcAgesTrue

LEMMA AcTickStep ==
    ASSUME AcInv, AcTick
    PROVE  AcInv'
<1>1. /\ AcAged(1) /\ acIdeal' = [c \in AcClients |-> AcMin(AcCapacity, acIdeal[c] + acLimit)]
      /\ UNCHANGED <<acLimit, acBlocked, acAllowed, acActive, acLast, acBacks, acMoves>>
  BY DEF AcTick
<1>2. /\ AcKnown' = AcKnown /\ acBuckets' \in [AcKnown -> AcBucket] /\ acPruned' \in AcAges
      /\ AcAgesTrue'
      /\ \A c \in AcKnown : /\ acBuckets'[c].tokens = acBuckets[c].tokens
                            /\ acBuckets'[c].refill = AcMin(acBuckets[c].refill + 1, AcOld)
  BY <1>1, AcAgesGoOn DEF AcInv, AcKinds
<1>3. /\ acLimit \in Nat /\ AcCapacity \in Nat /\ AcCapacity' = AcCapacity
      /\ acIdeal \in [AcClients -> 0..AcCapacity]
  BY <1>1, AcRoom DEF AcInv, AcKinds, AcCapacity
<1>4. \A n \in 0..AcCapacity : AcMin(AcCapacity, n + acLimit) \in 0..AcCapacity
  BY <1>3 DEF AcMin
<1>5. acIdeal' \in [AcClients -> 0..AcCapacity]
  BY <1>1, <1>3, <1>4
<1>6. AcKinds'
  BY <1>1, <1>2, <1>3, <1>5 DEF AcInv, AcKinds, AcBucket
<1>7. ASSUME acBacks = 0, NEW c \in AcClients
      PROVE  acIdeal'[c] = IF c \in AcKnown THEN AcRefilled(acBuckets'[c]) ELSE AcCapacity
  <2>1. acIdeal'[c] = AcMin(AcCapacity, acIdeal[c] + acLimit)
    BY <1>1
  <2>2. acIdeal[c] = IF c \in AcKnown THEN AcRefilled(acBuckets[c]) ELSE AcCapacity
    BY <1>7 DEF AcInv, AcBucketIsExact
  <2>3. CASE c \notin AcKnown
    BY <1>3, <2>1, <2>2, <2>3 DEF AcMin
  <2>4. CASE c \in AcKnown
    <3>1. PICK tokens : tokens = acBuckets[c].tokens
      OBVIOUS
    <3>2. PICK age : age = acBuckets[c].refill
      OBVIOUS
    <3>3. tokens \in 0..AcCapacity /\ age \in Nat /\ age <= AcOld /\ AcOld \in Nat /\ AcBurst < AcOld
      <4>1. acBuckets[c] \in AcBucket /\ -acBacks <= age
        BY <2>4, <3>2 DEF AcInv, AcKinds, AcAgesTrue
      <4> QED BY <1>7, <3>1, <3>2, <4>1, AcNumbers DEF AcBucket
    <3>4. age * acLimit \in Nat /\ (age + 1) * acLimit = age * acLimit + acLimit
      BY <1>3, <3>3, AcProducts
    <3>5. acIdeal[c] = AcMin(AcCapacity, tokens + age * acLimit)
      BY <2>2, <2>4, <3>1, <3>2, <3>3 DEF AcRefilled
    <3>6. acBuckets'[c].tokens = tokens /\ acBuckets'[c].refill = AcMin(age + 1, AcOld)
      BY <1>2, <2>4, <3>1, <3>2
    <3>7. CASE age + 1 <= AcOld
      <4>1. acBuckets'[c].refill = age + 1
        BY <3>3, <3>6, <3>7 DEF AcMin
      <4>2. AcRefilled(acBuckets'[c]) = AcMin(AcCapacity, tokens + (age * acLimit + acLimit))
        BY <3>3, <3>4, <3>6, <4>1 DEF AcRefilled
      <4>3. AcMin(AcCapacity, AcMin(AcCapacity, tokens + age * acLimit) + acLimit)
              = AcMin(AcCapacity, tokens + (age * acLimit + acLimit))
        BY <1>3, <3>3, <3>4 DEF AcMin
      <4> QED BY <2>1, <2>4, <3>5, <4>2, <4>3
    <3>8. CASE age = AcOld
      <4>1. acBuckets'[c].refill = age
        BY <3>3, <3>6, <3>8 DEF AcMin
      <4>2. AcCapacity <= tokens + age * acLimit
        <5>1. AcBurst <= age
          BY <3>3, <3>8, AcNumbers
        <5> QED BY <1>3, <3>3, <5>1, AcFull
      <4>3. acIdeal[c] = AcCapacity
        BY <1>3, <3>3, <3>4, <3>5, <4>2 DEF AcMin
      <4>4. AcRefilled(acBuckets'[c]) = AcCapacity
        BY <1>3, <3>3, <3>4, <3>6, <4>1, <4>2 DEF AcRefilled, AcMin
      <4>5. acIdeal'[c] = AcCapacity
        BY <1>3, <2>1, <4>3 DEF AcMin
      <4> QED BY <2>4, <4>4, <4>5
    <3> QED BY <3>3, <3>7, <3>8
  <2> QED BY <2>3, <2>4
<1>8. AcBucketIsExact'
  BY <1>1, <1>2, <1>3, <1>7 DEF AcBucketIsExact, AcRefilled
<1> QED BY <1>2, <1>6, <1>8 DEF AcInv

LEMMA AcSetBackStep ==
    ASSUME AcInv, AcSetBack
    PROVE  AcInv'
<1>1. /\ AcAged(-1) /\ acBacks < MaxAcBacks /\ acBacks' = acBacks + 1
      /\ UNCHANGED <<acLimit, acBlocked, acAllowed, acActive, acLast, acMoves, acIdeal>>
  BY DEF AcSetBack
<1>2. acBacks \in 0..MaxAcBacks /\ acBacks' \in 0..MaxAcBacks /\ acBacks' # 0
  BY <1>1, AcNumbers DEF AcInv, AcKinds
<1>3. /\ AcKnown' = AcKnown /\ acBuckets' \in [AcKnown -> AcBucket] /\ acPruned' \in AcAges /\ AcAgesTrue'
  BY <1>1, <1>2, AcAgesGoOn DEF AcInv
<1>4. AcCapacity' = AcCapacity
  BY <1>1 DEF AcCapacity
<1>5. AcKinds'
  BY <1>1, <1>2, <1>3, <1>4 DEF AcInv, AcKinds, AcBucket
<1>6. AcBucketIsExact'
  BY <1>2 DEF AcBucketIsExact
<1> QED BY <1>3, <1>5, <1>6 DEF AcInv

LEMMA AcStep == AcInv /\ [AcNext]_acVars => AcInv'
<1> SUFFICES ASSUME AcInv, [AcNext]_acVars PROVE AcInv'
  OBVIOUS
<1>1. ASSUME UNCHANGED <<acLimit, acBuckets, acPruned, acBacks, acIdeal>>, acActive' \subseteq AcClients
      PROVE  AcInv'
  <2>1. AcCapacity' = AcCapacity /\ AcKnown' = AcKnown
    BY <1>1 DEF AcCapacity, AcKnown
  <2>2. AcKinds' /\ AcAgesTrue'
    BY <1>1, <2>1 DEF AcInv, AcKinds, AcAgesTrue, AcBucket
  <2>3. AcBucketIsExact'
    BY <1>1, <2>1 DEF AcInv, AcBucketIsExact, AcRefilled
  <2> QED BY <2>2, <2>3 DEF AcInv
<1>2. acActive \subseteq AcClients
  BY DEF AcInv, AcKinds
<1>3. CASE UNCHANGED acVars
  BY <1>1, <1>2, <1>3 DEF acVars
<1>4. ASSUME NEW c \in AcClients, AcDeny(c) \/ AcUnlimited(c) PROVE AcInv'
  BY <1>1, <1>2, <1>4 DEF AcDeny, AcUnlimited
<1>5. ASSUME NEW clients \in SUBSET AcClients, AcMove(clients) PROVE AcInv'
  BY <1>1, <1>5 DEF AcMove
<1> QED BY <1>3, <1>4, <1>5, AcAskStep, AcTickStep, AcSetBackStep DEF AcNext

(* The limiter keeps its inductive invariant: while the clock has not been  *)
(* set back, every bucket and every forgotten client is where a bucket kept *)
(* for ever would be.                                                       *)
THEOREM AcInvariant == AcSpec => []AcInv
<1>1. AcInit => AcInv
  <2> SUFFICES ASSUME AcInit PROVE AcInv
    OBVIOUS
  <2>1. acLimit \in Nat /\ AcCapacity \in Nat
    BY AcRoom, AcConstants DEF AcInit, AcConstants
  <2>2. AcKnown = {} /\ acBuckets \in [{} -> AcBucket]
    BY DEF AcInit, AcKnown
  <2>3. IsFiniteSet({}) /\ Cardinality({}) = 0
    BY FS_EmptySet
  <2>4. acPruned \in AcAges /\ acBacks \in 0..MaxAcBacks /\ -acBacks <= acPruned
    BY AcNumbers DEF AcInit
  <2>5. acIdeal \in [AcClients -> 0..AcCapacity] /\ acActive \subseteq AcClients
    BY <2>1 DEF AcInit
  <2>6. AcKinds
    BY <2>1, <2>2, <2>3, <2>4, <2>5, AcNumbers DEF AcKinds
  <2>7. AcBucketIsExact
    BY <2>2 DEF AcInit, AcBucketIsExact
  <2> QED BY <2>2, <2>4, <2>6, <2>7 DEF AcInv, AcAgesTrue
<1> QED BY <1>1, AcStep, PTL DEF AcSpec

(* The safety part of AcLimitFair: the table stays within its limit, and    *)
(* forgetting clients to keep it there changes nobody's allowance.          *)
THEOREM AcLimitExact == AcSpec => [](AcTypeOK /\ AcBucketIsExact)
<1>1. AcInv => AcTypeOK /\ AcBucketIsExact
  BY DEF AcInv, AcKinds, AcTypeOK, AcBucket
<1> QED BY <1>1, AcInvariant, PTL

------------------------------------------------------------------------------
WaStages == {"idle", "touch", "compare", "retain", "clear", "issue", "lockout", "verify"}
WaCallRecords == [at : WaStages, who : Int \cup WebClients, read : Passwords \cup {NoPassword}]

WaKinds ==
    /\ waStored \in Passwords \cup {NoPassword} /\ waCache \subseteq {waStored}
    /\ waNow \in 1..MaxWebTime /\ waTokens \in 0..MaxTokens
    /\ waGlobal \in [failures : 0..GlobalLimit - 1, started : Int, until : Int]
    /\ waCall \in [WebThreads -> WaCallRecords]

(* The session table, at a time after that many tokens. *)
WaTable(sessions, tokens, now) ==
    /\ DOMAIN sessions \subseteq 1..tokens
    /\ sessions \in [DOMAIN sessions -> [created : 1..now, seen : 1..now]]
    /\ Cardinality(DOMAIN sessions) <= MaxSessions
    /\ \A s, t \in DOMAIN sessions : s < t => sessions[s].created <= sessions[t].created

(* The table of failed attempts, at a time. *)
WaAttempts(tracked, now) ==
    /\ DOMAIN tracked \subseteq WebClients /\ IsFiniteSet(DOMAIN tracked)
    /\ Cardinality(DOMAIN tracked) <= MaxTracked
    /\ tracked \in [DOMAIN tracked -> [failures : Nat \ {0}, last : 1..now, until : Nat]]
    /\ \A c \in DOMAIN tracked :
         tracked[c].until = IF tracked[c].failures >= LockoutAfter
                              THEN tracked[c].last + WaLockFor(tracked[c].failures) ELSE 0

(* Whose token a thread is about to look up, or whose login it checks. *)
WaCallers ==
    \A k \in WebThreads :
        /\ WaAt(k, "touch") => waCall[k].who \in 1..waTokens
        /\ WaAt(k, "lockout") \/ WaAt(k, "verify") => waCall[k].who \in WebClients

(* A request that has passed the check of the password finds its session    *)
(* only while one is set, or before the reset has cleared the table.        *)
WaClearing == \E k \in WebThreads : WaAt(k, "clear")
WaOvertaken ==
    \A k \in WebThreads :
        WaAt(k, "touch") /\ waCall[k].who \in DOMAIN waSessions => waStored # NoPassword \/ WaClearing

(* The inductive invariant. *)
WaInv ==
    /\ WaKinds /\ WaTable(waSessions, waTokens, waNow) /\ WaAttempts(waTracked, waNow)
    /\ WaCallers /\ WaOvertaken

(* Powers of two count the subsets of a set. *)
LEMMA WaPowers == \A m, n \in Nat : 2 ^ n \in Nat /\ (m <= n => 2 ^ m <= 2 ^ n)
<1> TAKE m, n \in Nat
<1>1. /\ IsFiniteSet(1..n) /\ Cardinality(1..n) = n /\ IsFiniteSet(1..m) /\ Cardinality(1..m) = m
  BY FS_Interval
<1>2. /\ IsFiniteSet(SUBSET (1..n)) /\ Cardinality(SUBSET (1..n)) = 2 ^ n
      /\ Cardinality(SUBSET (1..m)) = 2 ^ m
  BY <1>1, FS_SUBSET
<1>3. 2 ^ n \in Nat
  BY <1>2, FS_CardinalityType
<1>4. ASSUME m <= n PROVE 2 ^ m <= 2 ^ n
  <2>1. 1..m \subseteq 1..n
    BY <1>4
  <2>2. SUBSET (1..m) \in SUBSET (SUBSET (1..n))
    BY <2>1
  <2> QED BY <1>2, <2>2, FS_Subset
<1> QED BY <1>3, <1>4

LEMMA WaTimes == \A b, x, y \in Nat : b * x \in Nat /\ (x <= y => b * x <= b * y)
OBVIOUS

(* A lock-out is a length of time, and grows with the failures. *)
LEMMA WaLockGrows ==
    ASSUME NEW m \in Nat, NEW n \in Nat, LockoutAfter <= m
    PROVE  WaLockFor(m) \in Nat /\ (m <= n => WaLockFor(m) <= WaLockFor(n))
<1>1. LockoutAfter \in Nat /\ LockoutBase \in Nat /\ LockoutMax \in Nat
  BY WebConstants DEF WebConstants
<1> DEFINE x == WaMin(m - LockoutAfter, 16)
<1> DEFINE y == WaMin(n - LockoutAfter, 16)
<1>2. x \in Nat
  BY <1>1 DEF WaMin
<1>3. 2 ^ x \in Nat /\ LockoutBase * 2 ^ x \in Nat
  BY <1>1, <1>2, WaPowers, WaTimes
<1>4. WaLockFor(m) \in Nat
  <2>1. WaLockFor(m) = WaMin(LockoutBase * 2 ^ x, LockoutMax)
    BY DEF WaLockFor
  <2> QED BY <1>1, <1>3, <2>1 DEF WaMin
<1>5. ASSUME m <= n PROVE WaLockFor(m) <= WaLockFor(n)
  <2>1. y \in Nat /\ x <= y
    BY <1>1, <1>5 DEF WaMin
  <2>2. 2 ^ y \in Nat /\ 2 ^ x <= 2 ^ y
    BY <1>2, <2>1, WaPowers
  <2>3. LockoutBase * 2 ^ y \in Nat /\ LockoutBase * 2 ^ x <= LockoutBase * 2 ^ y
    BY <1>1, <1>3, <2>2, WaTimes
  <2>4. /\ WaLockFor(m) = WaMin(LockoutBase * 2 ^ x, LockoutMax)
        /\ WaLockFor(n) = WaMin(LockoutBase * 2 ^ y, LockoutMax)
    BY DEF WaLockFor
  <2> HIDE DEF x, y
  <2> DEFINE v == LockoutBase * 2 ^ x
  <2> DEFINE w == LockoutBase * 2 ^ y
  <2>5. v \in Nat /\ w \in Nat /\ v <= w
    BY <1>3, <2>3
  <2>6. WaLockFor(m) = WaMin(v, LockoutMax) /\ WaLockFor(n) = WaMin(w, LockoutMax)
    BY <2>4
  <2> HIDE DEF v, w
  <2> QED BY <1>1, <2>5, <2>6 DEF WaMin
<1> QED BY <1>4, <1>5

LEMMA WaLoadedIs == waCache \subseteq {waStored} => WaLoaded = waStored
BY DEF WaLoaded

(* Time and tokens only grow. *)
LEMMA WaTableLater ==
    ASSUME NEW sessions, NEW tokens \in Nat, NEW now \in Nat, WaTable(sessions, tokens, now),
           NEW more \in Nat, NEW later \in Nat, tokens <= more, now <= later
    PROVE  WaTable(sessions, more, later)
<1>1. DOMAIN sessions \subseteq 1..more
  BY DEF WaTable
<1>2. \A t \in DOMAIN sessions : sessions[t] \in [created : 1..now, seen : 1..now]
  BY DEF WaTable
<1>3. [created : 1..now, seen : 1..now] \subseteq [created : 1..later, seen : 1..later]
  OBVIOUS
<1>4. sessions \in [DOMAIN sessions -> [created : 1..later, seen : 1..later]]
  BY <1>2, <1>3 DEF WaTable
<1> QED BY <1>1, <1>4 DEF WaTable

LEMMA WaAttemptsLater ==
    ASSUME NEW tracked, NEW now \in Nat, WaAttempts(tracked, now), NEW later \in Nat, now <= later
    PROVE  WaAttempts(tracked, later)
<1>1. \A c \in DOMAIN tracked : tracked[c] \in [failures : Nat \ {0}, last : 1..now, until : Nat]
  BY DEF WaAttempts
<1>2. [failures : Nat \ {0}, last : 1..now, until : Nat] \subseteq [failures : Nat \ {0}, last : 1..later, until : Nat]
  OBVIOUS
<1>3. tracked \in [DOMAIN tracked -> [failures : Nat \ {0}, last : 1..later, until : Nat]]
  BY <1>1, <1>2 DEF WaAttempts
<1> QED BY <1>3 DEF WaAttempts

(* A table from which entries go. *)
LEMMA WaFewer ==
    ASSUME NEW sessions, NEW tokens \in Nat, NEW now, WaTable(sessions, tokens, now),
           NEW kept \in SUBSET (DOMAIN sessions)
    PROVE  WaTable([t \in kept |-> sessions[t]], tokens, now)
<1>1. IsFiniteSet(1..tokens) /\ DOMAIN sessions \in SUBSET (1..tokens)
  <2>1. IsFiniteSet(1..tokens)
    BY FS_Interval
  <2> QED BY <2>1 DEF WaTable
<1>2. IsFiniteSet(DOMAIN sessions)
  BY <1>1, FS_Subset
<1>3. IsFiniteSet(kept) /\ Cardinality(kept) <= Cardinality(DOMAIN sessions)
  BY <1>2, FS_Subset
<1>4. Cardinality(kept) <= MaxSessions
  <2>1. Cardinality(kept) \in Nat /\ Cardinality(DOMAIN sessions) \in Nat /\ MaxSessions \in Nat
    BY <1>2, <1>3, FS_CardinalityType, WebConstants DEF WebConstants
  <2> QED BY <1>3, <2>1 DEF WaTable
<1> DEFINE rest == [t \in kept |-> sessions[t]]
<1>5. DOMAIN rest = kept /\ \A t \in kept : rest[t] = sessions[t]
  OBVIOUS
<1>6. rest \in [kept -> [created : 1..now, seen : 1..now]]
  BY DEF WaTable
<1> HIDE DEF rest
<1>7. WaTable(rest, tokens, now)
  BY <1>4, <1>5, <1>6 DEF WaTable
<1> QED BY <1>7 DEF rest


(* The entry a full table loses, and the size of what is left. *)
LEMMA WaRoomLeft ==
    ASSUME NEW n \in Nat, NEW tokens \in SUBSET (1..n), Cardinality(tokens) <= MaxSessions
    PROVE  /\ WaRoom(tokens) \in SUBSET tokens /\ IsFiniteSet(WaRoom(tokens))
           /\ Cardinality(WaRoom(tokens)) + 1 <= MaxSessions
<1>1. IsFiniteSet(tokens) /\ Cardinality(tokens) \in Nat /\ MaxSessions \in Nat \ {0}
  <2>1. IsFiniteSet(1..n)
    BY FS_Interval
  <2> QED BY <2>1, FS_Subset, FS_CardinalityType, WebConstants DEF WebConstants
<1>2. CASE ~(Cardinality(tokens) >= MaxSessions)
  <2>1. WaRoom(tokens) = tokens
    BY <1>2 DEF WaRoom
  <2> QED BY <1>1, <1>2, <2>1
<1>3. CASE Cardinality(tokens) >= MaxSessions
  <2>1. tokens # {} /\ tokens \subseteq Nat
    BY <1>1, <1>3, FS_EmptySet
  <2>2. PICK t \in tokens : \A u \in tokens : ~(<<u, t>> \in OpToRel(<, Nat))
    BY <2>1, NatLessThanWellFounded, WFMin
  <2>nat. \A u \in tokens : u \in Nat
    BY <2>1
  <2>least. \A u \in tokens : ~(u < t)
    BY <2>2, <2>nat DEF OpToRel
  <2>3. \A u \in tokens : t <= u
    BY <2>nat, <2>least
  <2>4. {s \in tokens : \A u \in tokens : s <= u} = {t}
    <3>1. \A s \in tokens : s <= t => s = t
      BY <2>nat, <2>3
    <3> QED BY <2>3, <3>1
  <2>5. WaRoom(tokens) = tokens \ {t}
    BY <1>3, <2>4 DEF WaRoom
  <2>6. IsFiniteSet(tokens \ {t}) /\ Cardinality(tokens \ {t}) = Cardinality(tokens) - 1
    BY <1>1, FS_RemoveElement
  <2> QED BY <1>1, <2>5, <2>6
<1> QED BY <1>2, <1>3

(* A session is added. *)
LEMMA WaIssued ==
    ASSUME NEW sessions, NEW tokens \in Nat, NEW now \in Nat \ {0}, WaTable(sessions, tokens, now),
           NEW kept \in SUBSET (DOMAIN sessions), IsFiniteSet(kept), Cardinality(kept) + 1 <= MaxSessions,
           NEW after, after = [t \in kept \cup {tokens + 1} |->
                                 IF t = tokens + 1 THEN [created |-> now, seen |-> now] ELSE sessions[t]]
    PROVE  WaTable(after, tokens + 1, now)
<1>1. DOMAIN after = kept \cup {tokens + 1} /\ kept \subseteq 1..tokens
  BY DEF WaTable
<1>2. tokens + 1 \notin kept
  BY <1>1
<1>3. \A t \in kept : after[t] = sessions[t] /\ after[t] \in [created : 1..now, seen : 1..now]
  BY <1>2 DEF WaTable
<1>4. after[tokens + 1] = [created |-> now, seen |-> now]
  BY <1>1
<1>5. after[tokens + 1] \in [created : 1..now, seen : 1..now] /\ after[tokens + 1].created = now
  BY <1>4
<1>6. after \in [DOMAIN after -> [created : 1..now, seen : 1..now]]
  BY <1>1, <1>3, <1>5
<1>7. DOMAIN after \subseteq 1..(tokens + 1)
  BY <1>1
<1>8. Cardinality(DOMAIN after) <= MaxSessions
  BY <1>1, <1>2, FS_AddElement
<1>9. \A t \in kept : after[t].created \in 1..now
  BY <1>3
<1>10. ASSUME NEW s \in DOMAIN after, NEW t \in DOMAIN after, s < t
       PROVE  after[s].created <= after[t].created
  <2>1. s \in kept
    BY <1>1, <1>10
  <2>2. CASE t \in kept
    BY <1>3, <1>10, <2>1, <2>2 DEF WaTable
  <2>3. CASE t = tokens + 1
    BY <1>5, <1>9, <2>1, <2>3
  <2> QED BY <1>1, <2>2, <2>3
<1> QED BY <1>6, <1>7, <1>8, <1>10 DEF WaTable

(* A session is used. *)
LEMMA WaUsed ==
    ASSUME NEW sessions, NEW tokens, NEW now \in Nat \ {0}, WaTable(sessions, tokens, now), NEW token,
           NEW after, after = [t \in DOMAIN sessions |->
                                 IF t = token THEN [sessions[t] EXCEPT !.seen = now] ELSE sessions[t]]
    PROVE  WaTable(after, tokens, now)
<1>1. DOMAIN after = DOMAIN sessions
  OBVIOUS
<1>2. \A t \in DOMAIN sessions : sessions[t] \in [created : 1..now, seen : 1..now]
  BY DEF WaTable
<1>3. \A t \in DOMAIN sessions :
        after[t] \in [created : 1..now, seen : 1..now] /\ after[t].created = sessions[t].created
  BY <1>2
<1> QED BY <1>1, <1>3 DEF WaTable

(* The records of failures that are left before one is added. *)
LEMMA WaKeptFewer ==
    ASSUME NEW kept \in WaKept, IsFiniteSet(DOMAIN waTracked)
    PROVE  kept \in SUBSET (DOMAIN waTracked) /\ IsFiniteSet(kept) /\ Cardinality(kept) + 1 <= MaxTracked
<1>1. kept \in SUBSET (DOMAIN waTracked) /\ Cardinality(kept) < MaxTracked
  BY DEF WaKept
<1>2. IsFiniteSet(kept) /\ Cardinality(kept) \in Nat /\ MaxTracked \in Nat
  BY <1>1, FS_Subset, FS_CardinalityType, WebConstants DEF WebConstants
<1> QED BY <1>1, <1>2

LEMMA WaFails ==
    ASSUME waNow \in Nat \ {0}, WaAttempts(waTracked, waNow), NEW kept \in WaKept, NEW client \in WebClients,
           NEW after, after = [c \in kept \cup {client} |->
                                 IF c = client THEN WaEntry(c, kept) ELSE waTracked[c]]
    PROVE  /\ WaAttempts(after, waNow)
           /\ client \in kept => LET n == waTracked[client].failures
                                 IN n + 1 >= LockoutAfter => after[client].until = waNow + WaLockFor(n + 1)
           /\ client \in kept => after[client].until >= waTracked[client].until
<1>1. kept \in SUBSET (DOMAIN waTracked) /\ IsFiniteSet(kept) /\ Cardinality(kept) + 1 <= MaxTracked
  BY WaKeptFewer DEF WaAttempts
<1>2. DOMAIN after = kept \cup {client} /\ after[client] = WaEntry(client, kept)
      /\ \A c \in kept \ {client} : after[c] = waTracked[c]
  OBVIOUS
<1>3. \A c \in DOMAIN waTracked : waTracked[c] \in [failures : Nat \ {0}, last : 1..waNow, until : Nat]
  BY DEF WaAttempts
<1> DEFINE n == WaFailures(client, kept)
<1>4. n \in Nat \ {0} /\ (client \in kept => n = waTracked[client].failures + 1)
  BY <1>1, <1>3 DEF WaFailures
<1> HIDE DEF n
<1>5. LockoutAfter \in Nat \ {0} /\ MaxTracked \in Nat
  BY WebConstants DEF WebConstants
<1>6. n >= LockoutAfter => WaLockFor(n) \in Nat
  BY <1>4, <1>5, WaLockGrows
<1>7. /\ WaEntry(client, kept).failures = n /\ WaEntry(client, kept).last = waNow
      /\ n >= LockoutAfter => WaEntry(client, kept).until = waNow + WaLockFor(n)
      /\ n < LockoutAfter => WaEntry(client, kept).until = IF client \in kept THEN waTracked[client].until ELSE 0
      /\ WaEntry(client, kept) = [failures |-> n, last |-> waNow, until |-> WaEntry(client, kept).until]
  BY <1>4, <1>5 DEF WaEntry, n
<1>8. n < LockoutAfter /\ client \in kept => waTracked[client].until = 0
  BY <1>1, <1>3, <1>4, <1>5 DEF WaAttempts
<1>9. WaEntry(client, kept).until = IF n >= LockoutAfter THEN waNow + WaLockFor(n) ELSE 0
  BY <1>4, <1>5, <1>7, <1>8
<1>10. WaEntry(client, kept).until \in Nat
  BY <1>6, <1>9
<1>11. after[client] \in [failures : Nat \ {0}, last : 1..waNow, until : Nat]
  BY <1>2, <1>4, <1>7, <1>10
<1>12. after \in [DOMAIN after -> [failures : Nat \ {0}, last : 1..waNow, until : Nat]]
  BY <1>1, <1>2, <1>3, <1>11
<1>13. IsFiniteSet(DOMAIN after) /\ Cardinality(DOMAIN after) <= MaxTracked
  <2>1. Cardinality(kept) \in Nat
    BY <1>1, FS_CardinalityType
  <2> QED BY <1>1, <1>2, <1>5, <2>1, FS_AddElement
<1>14. ASSUME NEW c \in DOMAIN after
       PROVE  after[c].until = IF after[c].failures >= LockoutAfter
                                 THEN after[c].last + WaLockFor(after[c].failures) ELSE 0
  <2>1. CASE c = client
    BY <1>2, <1>7, <1>9, <2>1
  <2>2. CASE c # client
    <3>1. after[c] = waTracked[c] /\ c \in DOMAIN waTracked
      BY <1>1, <1>2, <1>14, <2>2
    <3> QED BY <3>1 DEF WaAttempts
  <2> QED BY <2>1, <2>2
<1>15. DOMAIN after \subseteq WebClients
  BY <1>1, <1>2 DEF WaAttempts
<1>16. ASSUME client \in kept PROVE after[client].until >= waTracked[client].until
  <2> DEFINE m == waTracked[client].failures
  <2>1. /\ m \in Nat \ {0} /\ waTracked[client].last \in 1..waNow /\ n = m + 1
        /\ waTracked[client].until = IF m >= LockoutAfter THEN waTracked[client].last + WaLockFor(m) ELSE 0
    BY <1>1, <1>3, <1>4, <1>16 DEF WaAttempts
  <2> HIDE DEF m
  <2>2. CASE m >= LockoutAfter
    <3>1. WaLockFor(m) \in Nat /\ WaLockFor(m) <= WaLockFor(n)
      BY <1>5, <2>1, <2>2, WaLockGrows
    <3>2. n >= LockoutAfter
      BY <1>5, <2>1, <2>2
    <3>3. after[client].until = waNow + WaLockFor(n) /\ WaLockFor(n) \in Nat
      BY <1>2, <1>6, <1>7, <3>2
    <3> QED BY <2>1, <2>2, <3>1, <3>3
  <2>3. CASE m < LockoutAfter
    BY <1>2, <1>5, <1>10, <2>1, <2>3
  <2> QED BY <1>5, <2>1, <2>2, <2>3
<1>17. ASSUME client \in kept, waTracked[client].failures + 1 >= LockoutAfter
       PROVE  after[client].until = waNow + WaLockFor(waTracked[client].failures + 1)
  BY <1>2, <1>4, <1>7, <1>17
<1>18. WaAttempts(after, waNow)
  BY <1>12, <1>13, <1>14, <1>15 DEF WaAttempts
<1> QED BY <1>16, <1>17, <1>18


(* A thread goes on to its next step. *)
LEMMA WaMoves ==
    ASSUME waCall \in [WebThreads -> WaCallRecords], NEW k \in WebThreads, NEW where \in WaStages,
           NEW who \in Int \cup WebClients, NEW read \in Passwords \cup {NoPassword}, WaGoes(k, WaCall(where, who, read))
    PROVE  /\ waCall' \in [WebThreads -> WaCallRecords]
           /\ waCall'[k].at = where /\ waCall'[k].who = who /\ waCall'[k].read = read
           /\ \A j \in WebThreads \ {k} : waCall'[j] = waCall[j]
<1>1. /\ WaCall(where, who, read) \in WaCallRecords
      /\ WaCall(where, who, read).at = where /\ WaCall(where, who, read).who = who /\ WaCall(where, who, read).read = read
  BY DEF WaCall, WaCallRecords
<1> QED BY <1>1 DEF WaGoes

LEMMA WaRests ==
    ASSUME waCall \in [WebThreads -> WaCallRecords], NEW k \in WebThreads, WaGoes(k, WaIdle)
    PROVE  /\ waCall' \in [WebThreads -> WaCallRecords] /\ waCall'[k].at = "idle"
           /\ \A j \in WebThreads \ {k} : waCall'[j] = waCall[j]
<1>1. "idle" \in WaStages /\ 0 \in Int \cup WebClients /\ NoPassword \in Passwords \cup {NoPassword}
  BY DEF WaStages
<1> QED BY <1>1, WaMoves DEF WaIdle

(* What the threads know stays true, unless one begins to look up a token.  *)
LEMMA WaCallersKeep ==
    ASSUME WaInv, waTokens' \in Nat, waTokens <= waTokens',
           \A j \in WebThreads : \/ waCall'[j] = waCall[j]
                                 \/ waCall'[j].at \notin {"touch", "lockout", "verify"}
                                 \/ waCall'[j].who = waCall[j].who /\ WaAt(j, "lockout") /\ waCall'[j].at = "verify"
    PROVE  WaCallers'
<1> SUFFICES ASSUME NEW j \in WebThreads
             PROVE  /\ waCall'[j].at = "touch" => waCall'[j].who \in 1..waTokens'
                    /\ waCall'[j].at = "lockout" \/ waCall'[j].at = "verify" => waCall'[j].who \in WebClients
  BY DEF WaCallers, WaAt
<1>1. waTokens \in Nat
  BY WebConstants DEF WaInv, WaKinds, WebConstants
<1>2. CASE waCall'[j] = waCall[j]
  BY <1>1, <1>2 DEF WaInv, WaCallers, WaAt
<1>3. CASE waCall'[j].at \notin {"touch", "lockout", "verify"}
  BY <1>3
<1>4. CASE waCall'[j].who = waCall[j].who /\ WaAt(j, "lockout") /\ waCall'[j].at = "verify"
  BY <1>4 DEF WaInv, WaCallers, WaAt
<1> QED BY <1>2, <1>3, <1>4

LEMMA WaOvertakenKeeps ==
    ASSUME WaInv,
           \A j \in WebThreads : waCall'[j].at = "touch" => waCall'[j] = waCall[j],
           DOMAIN waSessions' \cap 1..waTokens \subseteq DOMAIN waSessions,
           waStored # NoPassword => waStored' # NoPassword \/ WaClearing',
           WaClearing => WaClearing' \/ DOMAIN waSessions' \cap 1..waTokens = {}
    PROVE  WaOvertaken'
<1> SUFFICES ASSUME NEW j \in WebThreads, waCall'[j].at = "touch", waCall'[j].who \in DOMAIN waSessions'
             PROVE  waStored' # NoPassword \/ WaClearing'
  BY DEF WaOvertaken, WaAt
<1>1. waCall'[j] = waCall[j] /\ WaAt(j, "touch")
  BY DEF WaAt
<1>2. waCall[j].who \in 1..waTokens
  BY <1>1 DEF WaInv, WaCallers
<1>3. waCall[j].who \in DOMAIN waSessions' \cap 1..waTokens
  BY <1>1, <1>2
<1>4. waStored # NoPassword \/ WaClearing
  BY <1>1, <1>3 DEF WaInv, WaOvertaken
<1> QED BY <1>3, <1>4

(* A reset that has not cleared the table is still there after a step of    *)
(* another thread.                                                          *)
LEMMA WaStillClears ==
    ASSUME NEW k \in WebThreads, ~WaAt(k, "clear"), \A j \in WebThreads \ {k} : waCall'[j] = waCall[j], WaClearing
    PROVE  WaClearing'
<1>1. PICK j \in WebThreads : waCall[j].at = "clear"
  BY DEF WaClearing, WaAt
<1>2. j # k
  BY <1>1 DEF WaAt
<1>3. waCall'[j].at = "clear"
  BY <1>1, <1>2
<1> QED BY <1>3 DEF WaClearing, WaAt

LEMMA WaNumbers ==
    ASSUME WaInv
    PROVE  waNow \in Nat \ {0} /\ waTokens \in Nat
BY WebConstants DEF WaInv, WaKinds, WebConstants

LEMMA WaIssueStep ==
    ASSUME WaInv, NEW k \in WebThreads, WaIssue(k)
    PROVE  WaInv'
<1>1. /\ ~WaAt(k, "clear") /\ waTokens < MaxTokens /\ waTokens' = waTokens + 1
      /\ UNCHANGED <<waStored, waCache, waTracked, waGlobal, waNow>>
      /\ waSessions' = [t \in WaRoom(WaPruned) \cup {waTokens + 1} |->
                          IF t = waTokens + 1 THEN [created |-> waNow, seen |-> waNow] ELSE waSessions[t]]
  BY DEF WaIssue, WaAt
<1>2. /\ waCall' \in [WebThreads -> WaCallRecords] /\ waCall'[k].at = "idle"
      /\ \A j \in WebThreads \ {k} : waCall'[j] = waCall[j]
  BY WaRests DEF WaIssue, WaInv, WaKinds
<1>3. waNow \in Nat \ {0} /\ waTokens \in Nat /\ MaxTokens \in Nat
  BY WaNumbers, WebConstants DEF WebConstants
<1>4. WaPruned \in SUBSET (DOMAIN waSessions) /\ DOMAIN waSessions \in SUBSET (1..waTokens)
  BY DEF WaPruned, WaInv, WaTable
<1>5. IsFiniteSet(DOMAIN waSessions)
  <2>1. IsFiniteSet(1..waTokens)
    BY <1>3, FS_Interval
  <2> QED BY <1>4, <2>1, FS_Subset
<1>6. Cardinality(WaPruned) <= MaxSessions
  <2>1. Cardinality(WaPruned) <= Cardinality(DOMAIN waSessions) /\ IsFiniteSet(WaPruned)
    BY <1>4, <1>5, FS_Subset
  <2>2. Cardinality(WaPruned) \in Nat /\ Cardinality(DOMAIN waSessions) \in Nat /\ MaxSessions \in Nat
    BY <1>5, <2>1, FS_CardinalityType, WebConstants DEF WebConstants
  <2>3. Cardinality(DOMAIN waSessions) <= MaxSessions
    BY DEF WaInv, WaTable
  <2> QED BY <2>1, <2>2, <2>3
<1>7. /\ WaRoom(WaPruned) \in SUBSET (DOMAIN waSessions) /\ IsFiniteSet(WaRoom(WaPruned))
      /\ Cardinality(WaRoom(WaPruned)) + 1 <= MaxSessions
  BY <1>3, <1>4, <1>6, WaRoomLeft
<1>8. WaTable(waSessions', waTokens', waNow')
  <2>1. WaTable(waSessions, waTokens, waNow)
    BY DEF WaInv
  <2>2. WaTable(waSessions', waTokens + 1, waNow)
    BY <1>1, <1>3, <1>7, <2>1, WaIssued
  <2> QED BY <1>1, <2>2
<1>9. WaKinds' /\ WaAttempts(waTracked, waNow)'
  BY <1>1, <1>2, <1>3 DEF WaInv, WaKinds
<1>10. WaCallers'
  BY <1>1, <1>2, <1>3, WaCallersKeep
<1>11. WaOvertaken'
  <2>1. DOMAIN waSessions' \cap 1..waTokens \subseteq DOMAIN waSessions
    BY <1>1, <1>3, <1>7
  <2> QED BY <1>1, <1>2, <2>1, WaOvertakenKeeps, WaStillClears
<1> QED BY <1>8, <1>9, <1>10, <1>11 DEF WaInv


LEMMA WaTouchStep ==
    ASSUME WaInv, NEW k \in WebThreads, WaTouch(k)
    PROVE  WaInv'
<1>1. /\ WaAt(k, "touch") /\ waSessions' = WaTouched(waCall[k].who)
      /\ UNCHANGED <<waStored, waCache, waTracked, waGlobal, waTokens, waNow>>
      /\ WaGoes(k, WaIdle) \/ WaGoes(k, WaCall("compare", waCall[k].who, NoPassword))
  BY DEF WaTouch
<1>2. waCall \in [WebThreads -> WaCallRecords] /\ waCall[k].who \in Int
  <2>1. waCall[k].who \in 1..waTokens
    BY <1>1 DEF WaInv, WaCallers
  <2> QED BY <2>1, WaNumbers DEF WaInv, WaKinds
<1>3. /\ waCall' \in [WebThreads -> WaCallRecords] /\ waCall'[k].at \in {"idle", "compare"}
      /\ \A j \in WebThreads \ {k} : waCall'[j] = waCall[j]
  <2>1. CASE WaGoes(k, WaIdle)
    BY <1>2, <2>1, WaRests
  <2>2. CASE WaGoes(k, WaCall("compare", waCall[k].who, NoPassword))
    <3>1. "compare" \in WaStages /\ waCall[k].who \in Int \cup WebClients
          /\ NoPassword \in Passwords \cup {NoPassword}
      BY <1>2 DEF WaStages
    <3> QED BY <1>2, <2>2, <3>1, WaMoves
  <2> QED BY <1>1, <2>1, <2>2
<1>4. waNow \in Nat \ {0} /\ waTokens \in Nat
  BY WaNumbers
<1>kept. PICK kept : kept = [t \in WaPruned |-> waSessions[t]]
  OBVIOUS
<1>token. PICK token : token = waCall[k].who
  OBVIOUS
<1>5. /\ WaPruned \in SUBSET (DOMAIN waSessions) /\ DOMAIN kept = WaPruned
      /\ \A t \in WaPruned : kept[t] = waSessions[t]
  BY <1>kept DEF WaPruned
<1>6. WaTable(kept, waTokens, waNow)
  BY <1>4, <1>5, <1>kept, WaFewer DEF WaInv
<1>7. waSessions' = [t \in DOMAIN kept |->
                       IF t = token THEN [kept[t] EXCEPT !.seen = waNow] ELSE kept[t]]
  BY <1>1, <1>5, <1>token DEF WaTouched
<1>8. WaTable(waSessions', waTokens', waNow')
  <2>1. PICK after : after = waSessions'
    OBVIOUS
  <2>2. WaTable(after, waTokens, waNow)
    BY <1>4, <1>6, <1>7, <2>1, WaUsed
  <2> QED BY <1>1, <2>1, <2>2
<1>9. WaKinds' /\ WaAttempts(waTracked, waNow)'
  BY <1>1, <1>3 DEF WaInv, WaKinds
<1>10. WaCallers'
  BY <1>1, <1>3, <1>4, WaCallersKeep
<1>11. WaOvertaken'
  <2>1. DOMAIN waSessions' \cap 1..waTokens \subseteq DOMAIN waSessions
    BY <1>5, <1>7
  <2>2. ~WaAt(k, "clear")
    BY <1>1 DEF WaAt
  <2> QED BY <1>1, <1>3, <2>1, <2>2, WaOvertakenKeeps, WaStillClears
<1> QED BY <1>8, <1>9, <1>10, <1>11 DEF WaInv

(* The table is cleared, but for the session of the caller.                 *)
LEMMA WaRetainStep ==
    ASSUME WaInv, NEW k \in WebThreads, WaRetain(k)
    PROVE  WaInv'
<1>1. /\ WaAt(k, "retain") \/ WaAt(k, "clear")
      /\ UNCHANGED <<waStored, waCache, waTracked, waGlobal, waTokens, waNow>>
      /\ WaGoes(k, WaIdle) /\ waSessions' = WaKeep(WaRetained(k))
  BY DEF WaRetain
<1>2. /\ waCall' \in [WebThreads -> WaCallRecords] /\ waCall'[k].at = "idle"
      /\ \A j \in WebThreads \ {k} : waCall'[j] = waCall[j]
  BY <1>1, WaRests DEF WaInv, WaKinds
<1>3. waNow \in Nat \ {0} /\ waTokens \in Nat
  BY WaNumbers
<1>4. WaRetained(k) \in SUBSET (DOMAIN waSessions) /\ (~WaAt(k, "retain") => WaRetained(k) = {})
  BY DEF WaRetained
<1>5. waSessions' = [t \in WaRetained(k) |-> waSessions[t]]
  BY <1>1 DEF WaKeep
<1>6. WaTable(waSessions', waTokens', waNow')
  BY <1>1, <1>3, <1>4, <1>5, WaFewer DEF WaInv
<1>7. WaKinds' /\ WaAttempts(waTracked, waNow)'
  BY <1>1, <1>2 DEF WaInv, WaKinds
<1>8. WaCallers'
  BY <1>1, <1>2, <1>3, WaCallersKeep
<1>9. WaOvertaken'
  <2>1. DOMAIN waSessions' \subseteq DOMAIN waSessions
    BY <1>4, <1>5
  <2>2. CASE WaAt(k, "retain")
    <3>1. ~WaAt(k, "clear")
      BY <2>2 DEF WaAt
    <3> QED BY <1>1, <1>2, <2>1, <3>1, WaOvertakenKeeps, WaStillClears
  <2>3. CASE WaAt(k, "clear")
    <3>1. DOMAIN waSessions' = {}
      BY <1>4, <1>5, <2>3 DEF WaAt
    <3> QED BY <1>1, <1>2, <3>1, WaOvertakenKeeps
  <2> QED BY <1>1, <2>2, <2>3
<1> QED BY <1>6, <1>7, <1>8, <1>9 DEF WaInv

LEMMA WaDropStep ==
    ASSUME WaInv, NEW gone, WaDrop(gone)
    PROVE  WaInv'
<1>1. /\ UNCHANGED <<waStored, waCache, waTracked, waGlobal, waCall, waTokens, waNow>>
      /\ waSessions' = [u \in DOMAIN waSessions \ gone |-> waSessions[u]]
  BY DEF WaDrop, WaKeep
<1>2. DOMAIN waSessions \ gone \in SUBSET (DOMAIN waSessions) /\ waTokens \in Nat
  BY WaNumbers
<1>3. WaTable(waSessions', waTokens', waNow')
  BY <1>1, <1>2, WaFewer DEF WaInv
<1>4. WaKinds' /\ WaAttempts(waTracked, waNow)' /\ WaCallers'
  BY <1>1 DEF WaInv, WaKinds, WaCallers, WaAt
<1>5. WaClearing' <=> WaClearing
  BY <1>1 DEF WaClearing, WaAt
<1>6. WaOvertaken'
  BY <1>1, <1>5, WaOvertakenKeeps
<1> QED BY <1>3, <1>4, <1>6 DEF WaInv

(* Steps that leave the two tables alone and give a thread something new to *)
(* do, which is neither to look up a token nor to clear the table.          *)
LEMMA WaThreadStep ==
    ASSUME WaInv, NEW k \in WebThreads, ~WaAt(k, "clear"), WaKinds',
           \A j \in WebThreads \ {k} : waCall'[j] = waCall[j],
           \/ waCall'[k] = waCall[k]
           \/ waCall'[k].at \notin {"touch", "lockout", "verify"}
           \/ waCall'[k].who = waCall[k].who /\ WaAt(k, "lockout") /\ waCall'[k].at = "verify"
           \/ waCall'[k].who \in WebClients /\ waCall'[k].at = "lockout",
           waStored # NoPassword => waStored' # NoPassword \/ waCall'[k].at = "clear",
           UNCHANGED <<waSessions, waTokens, waNow>>
    PROVE  WaTable(waSessions, waTokens, waNow)' /\ WaCallers' /\ WaOvertaken'
<1>1. WaTable(waSessions, waTokens, waNow)'
  BY DEF WaInv
<1>2. WaCallers'
  <2> SUFFICES ASSUME NEW j \in WebThreads
               PROVE  /\ waCall'[j].at = "touch" => waCall'[j].who \in 1..waTokens'
                      /\ waCall'[j].at = "lockout" \/ waCall'[j].at = "verify" => waCall'[j].who \in WebClients
    BY DEF WaCallers, WaAt
  <2>1. /\ waCall[j].at = "touch" => waCall[j].who \in 1..waTokens
        /\ waCall[j].at = "lockout" \/ waCall[j].at = "verify" => waCall[j].who \in WebClients
    BY DEF WaInv, WaCallers, WaAt
  <2>2. CASE waCall'[j] = waCall[j]
    BY <2>1, <2>2
  <2>3. CASE j = k /\ waCall'[j] # waCall[j]
    BY <2>1, <2>3 DEF WaAt
  <2> QED BY <2>2, <2>3
<1>3. WaOvertaken'
  <2>1. waCall'[k].at = "clear" => WaClearing'
    BY DEF WaClearing, WaAt
  <2>2. \A j \in WebThreads : waCall'[j].at = "touch" => waCall'[j] = waCall[j]
    OBVIOUS
  <2>3. WaClearing => WaClearing'
    BY WaStillClears
  <2>4. waStored # NoPassword => waStored' # NoPassword \/ WaClearing'
    BY <2>1
  <2> QED BY <2>2, <2>3, <2>4, WaOvertakenKeeps
<1> QED BY <1>1, <1>2, <1>3


LEMMA WaAuthorizeStep ==
    ASSUME WaInv, NEW k \in WebThreads, NEW token \in 1..waTokens, WaAuthorize(k, token)
    PROVE  WaInv'
<1>1. /\ WaAt(k, "idle") /\ waCache' = {waStored}
      /\ IF waStored # NoPassword THEN WaGoes(k, WaCall("touch", token, NoPassword)) ELSE UNCHANGED waCall
      /\ UNCHANGED <<waStored, waSessions, waTracked, waGlobal, waTokens, waNow>>
  BY WaLoadedIs DEF WaAuthorize, WaAuthorized, WaLoad, WaInv, WaKinds
<1>2. WaTable(waSessions, waTokens, waNow)' /\ WaAttempts(waTracked, waNow)'
  BY <1>1 DEF WaInv
<1>3. CASE waStored # NoPassword
  <2>1. "touch" \in WaStages /\ token \in Int \cup WebClients /\ NoPassword \in Passwords \cup {NoPassword}
    BY WaNumbers DEF WaStages
  <2>2. /\ waCall' \in [WebThreads -> WaCallRecords] /\ waCall'[k].at = "touch" /\ waCall'[k].who = token
        /\ \A j \in WebThreads \ {k} : waCall'[j] = waCall[j]
    BY <1>1, <1>3, <2>1, WaMoves DEF WaInv, WaKinds
  <2>3. WaKinds'
    BY <1>1, <2>2 DEF WaInv, WaKinds
  <2>4. WaCallers'
    <3> SUFFICES ASSUME NEW j \in WebThreads
                 PROVE  /\ waCall'[j].at = "touch" => waCall'[j].who \in 1..waTokens
                        /\ waCall'[j].at = "lockout" \/ waCall'[j].at = "verify" => waCall'[j].who \in WebClients
      BY <1>1 DEF WaCallers, WaAt
    <3>1. CASE j = k
      BY <2>2, <3>1
    <3>2. CASE j # k
      BY <2>2, <3>2 DEF WaInv, WaCallers, WaAt
    <3> QED BY <3>1, <3>2
  <2>5. WaOvertaken'
    BY <1>1, <1>3 DEF WaOvertaken
  <2> QED BY <1>2, <2>3, <2>4, <2>5 DEF WaInv
<1>4. CASE waStored = NoPassword
  <2>1. UNCHANGED <<waStored, waSessions, waCall, waTokens, waGlobal, waNow>>
    BY <1>1, <1>4
  <2>2. WaKinds' /\ WaCallers' /\ WaOvertaken'
    BY <1>1, <2>1 DEF WaInv, WaKinds, WaCallers, WaOvertaken, WaClearing, WaAt
  <2> QED BY <1>2, <2>2 DEF WaInv
<1> QED BY <1>3, <1>4

LEMMA WaLoginSteps ==
    ASSUME WaInv, NEW k \in WebThreads,
           (\E client \in WebClients : WaLogin(k, client)) \/ WaCheckLockout(k)
    PROVE  WaInv'
<1>1. waCall \in [WebThreads -> WaCallRecords] /\ waCache \subseteq {waStored} /\ waStored \in Passwords \cup {NoPassword}
  BY DEF WaInv, WaKinds
<1>2. /\ ~WaAt(k, "clear") /\ waCache' \subseteq {waStored}
      /\ UNCHANGED <<waStored, waSessions, waTracked, waGlobal, waTokens, waNow>>
  BY <1>1, WaLoadedIs DEF WaLogin, WaCheckLockout, WaAt, WaLoad
<1>3. /\ waCall' \in [WebThreads -> WaCallRecords]
      /\ \A j \in WebThreads \ {k} : waCall'[j] = waCall[j]
      /\ \/ waCall'[k] = waCall[k]
         \/ waCall'[k].at = "idle"
         \/ waCall'[k].who = waCall[k].who /\ WaAt(k, "lockout") /\ waCall'[k].at = "verify"
         \/ waCall'[k].who \in WebClients /\ waCall'[k].at = "lockout"
  <2>1. CASE UNCHANGED waCall
    BY <1>1, <2>1
  <2>2. CASE WaGoes(k, WaIdle)
    BY <1>1, <2>2, WaRests
  <2>4. CASE WaAt(k, "lockout") /\ WaGoes(k, [waCall[k] EXCEPT !.at = "verify"])
    <3>1. [waCall[k] EXCEPT !.at = "verify"] \in WaCallRecords
      BY <1>1 DEF WaCallRecords, WaStages
    <3>2. /\ [waCall[k] EXCEPT !.at = "verify"].who = waCall[k].who
          /\ [waCall[k] EXCEPT !.at = "verify"].at = "verify"
      BY <1>1 DEF WaCallRecords
    <3> QED BY <1>1, <2>4, <3>1, <3>2 DEF WaGoes
  <2>5. ASSUME NEW client \in WebClients, WaLogin(k, client)
        PROVE  UNCHANGED waCall \/ WaGoes(k, WaCall("lockout", client, waStored))
    BY <1>1, <2>5, WaLoadedIs DEF WaLogin
  <2>6. ASSUME WaCheckLockout(k)
        PROVE  WaGoes(k, WaIdle) \/ (WaAt(k, "lockout") /\ WaGoes(k, [waCall[k] EXCEPT !.at = "verify"]))
    BY <2>6 DEF WaCheckLockout
  <2>7. CASE \E client \in WebClients : WaLogin(k, client)
    <3>1. PICK client \in WebClients : WaLogin(k, client)
      BY <2>7
    <3>2. UNCHANGED waCall \/ WaGoes(k, WaCall("lockout", client, waStored))
      BY <2>5, <3>1
    <3>3. CASE UNCHANGED waCall
      BY <2>1, <3>3
    <3>4. CASE WaGoes(k, WaCall("lockout", client, waStored))
      <4>1. "lockout" \in WaStages /\ client \in Int \cup WebClients
        BY DEF WaStages
      <4> QED BY <1>1, <3>4, <4>1, WaMoves
    <3> QED BY <3>2, <3>3, <3>4
  <2>8. CASE WaCheckLockout(k)
    BY <2>2, <2>4, <2>6, <2>8
  <2> QED BY <2>7, <2>8
<1>4. WaKinds'
  BY <1>2, <1>3 DEF WaInv, WaKinds
<1>5. WaAttempts(waTracked, waNow)'
  BY <1>2 DEF WaInv
<1>6. waStored # NoPassword => waStored' # NoPassword
  BY <1>2
<1> QED BY <1>2, <1>3, <1>4, <1>5, <1>6, WaThreadStep DEF WaInv

(* The password is changed, set or set for the first time. *)
LEMMA WaPasswordSteps ==
    ASSUME WaInv, NEW k \in WebThreads,
           \/ \E old, new \in Passwords : WaChange(k, old, new)
           \/ \E p \in Passwords : WaSetup(k, p)
           \/ \E p \in Passwords \cup {NoPassword} : WaSetLocally(k, p)
    PROVE  WaInv'
<1>1. waCall \in [WebThreads -> WaCallRecords] /\ waCache \subseteq {waStored} /\ waStored \in Passwords \cup {NoPassword}
  BY DEF WaInv, WaKinds
<1>2. /\ ~WaAt(k, "clear") /\ UNCHANGED <<waSessions, waTracked, waGlobal, waTokens, waNow>>
  BY DEF WaChange, WaSetup, WaSetLocally, WaAt
<1>3. /\ waStored' \in Passwords \cup {NoPassword} /\ waCache' \subseteq {waStored'}
      /\ waStored # NoPassword => waStored' # NoPassword \/ WaGoes(k, WaCall("clear", 0, NoPassword))
  <2>1. NoPassword \notin Passwords
    BY WebConstants DEF WebConstants
  <2>2. ASSUME NEW old \in Passwords, NEW new \in Passwords, WaChange(k, old, new) 
        PROVE  /\ waStored' \in Passwords \cup {NoPassword} /\ waCache' \subseteq {waStored'}
               /\ waStored # NoPassword => waStored' # NoPassword \/ WaGoes(k, WaCall("clear", 0, NoPassword))
    BY <1>1, <2>1, <2>2, WaLoadedIs DEF WaChange, WaLoad
  <2>3. ASSUME NEW p \in Passwords, WaSetup(k, p) 
        PROVE  /\ waStored' \in Passwords \cup {NoPassword} /\ waCache' \subseteq {waStored'}
               /\ waStored # NoPassword => waStored' # NoPassword \/ WaGoes(k, WaCall("clear", 0, NoPassword))
    BY <1>1, <2>1, <2>3, WaLoadedIs DEF WaSetup, WaLoad
  <2>4. ASSUME NEW p \in Passwords \cup {NoPassword}, WaSetLocally(k, p) 
        PROVE  /\ waStored' \in Passwords \cup {NoPassword} /\ waCache' \subseteq {waStored'}
               /\ waStored # NoPassword => waStored' # NoPassword \/ WaGoes(k, WaCall("clear", 0, NoPassword))
    BY <2>4 DEF WaSetLocally
  <2> QED BY <2>2, <2>3, <2>4
<1>4. /\ waCall' \in [WebThreads -> WaCallRecords]
      /\ \A j \in WebThreads \ {k} : waCall'[j] = waCall[j]
      /\ waCall'[k] = waCall[k] \/ waCall'[k].at \in {"idle", "retain", "clear", "issue"}
      /\ WaGoes(k, WaCall("clear", 0, NoPassword)) => waCall'[k].at = "clear"
  <2>1. \/ UNCHANGED waCall \/ WaGoes(k, WaIdle)
        \/ WaAt(k, "compare") /\ WaGoes(k, WaCall("retain", waCall[k].who, NoPassword))
        \/ WaGoes(k, WaCall("issue", 0, NoPassword)) \/ WaGoes(k, WaCall("clear", 0, NoPassword))
    BY DEF WaChange, WaSetup, WaSetLocally
  <2>2. /\ {"retain", "clear", "issue"} \subseteq WaStages /\ waCall[k].who \in Int \cup WebClients
        /\ 0 \in Int \cup WebClients /\ NoPassword \in Passwords \cup {NoPassword}
    BY <1>1 DEF WaStages, WaCallRecords
  <2>3. CASE WaGoes(k, WaCall("clear", 0, NoPassword))
    BY <1>1, <2>2, <2>3, WaMoves
  <2>4. CASE WaGoes(k, WaCall("issue", 0, NoPassword)) /\ ~WaGoes(k, WaCall("clear", 0, NoPassword))
    BY <1>1, <2>2, <2>4, WaMoves
  <2>5. CASE WaGoes(k, WaCall("retain", waCall[k].who, NoPassword)) /\ ~WaGoes(k, WaCall("clear", 0, NoPassword))
    BY <1>1, <2>2, <2>5, WaMoves
  <2>6. CASE WaGoes(k, WaIdle) /\ ~WaGoes(k, WaCall("clear", 0, NoPassword))
    BY <1>1, <2>6, WaRests
  <2>7. CASE UNCHANGED waCall /\ ~WaGoes(k, WaCall("clear", 0, NoPassword))
    BY <1>1, <2>7
  <2> QED BY <2>1, <2>3, <2>4, <2>5, <2>6, <2>7
<1>5. WaKinds'
  BY <1>2, <1>3, <1>4 DEF WaInv, WaKinds
<1>6. WaAttempts(waTracked, waNow)'
  BY <1>2 DEF WaInv
<1>7. waStored # NoPassword => waStored' # NoPassword \/ waCall'[k].at = "clear"
  BY <1>3, <1>4
<1> QED BY <1>2, <1>4, <1>5, <1>6, <1>7, WaThreadStep DEF WaInv

(* A failed login is counted.                                               *)
LEMMA WaGlobalCounts == WaInv /\ WaCountGlobal => waGlobal' \in [failures : 0..GlobalLimit - 1, started : Int, until : Int]
<1> SUFFICES ASSUME WaInv, WaCountGlobal
             PROVE  waGlobal' \in [failures : 0..GlobalLimit - 1, started : Int, until : Int]
  OBVIOUS
<1>1. waGlobal \in [failures : 0..GlobalLimit - 1, started : Int, until : Int] /\ waNow \in Nat
  BY WaNumbers DEF WaInv, WaKinds
<1>2. GlobalLimit \in Nat \ {0} /\ GlobalLockout \in Nat
  BY WebConstants DEF WebConstants
<1>3. PICK n : n = IF waNow - waGlobal.started <= GlobalWindow THEN waGlobal.failures + 1 ELSE 1
  OBVIOUS
<1>4. PICK since : since = IF waNow - waGlobal.started <= GlobalWindow THEN waGlobal.started ELSE waNow
  OBVIOUS
<1>5. n \in Nat /\ since \in Int
  BY <1>1, <1>2, <1>3, <1>4
<1>6. waGlobal' = IF n >= GlobalLimit THEN [failures |-> 0, started |-> waNow, until |-> waNow + GlobalLockout]
                                      ELSE [waGlobal EXCEPT !.failures = n, !.started = since]
  BY <1>3, <1>4 DEF WaCountGlobal
<1>7. CASE n >= GlobalLimit
  BY <1>1, <1>2, <1>6, <1>7
<1>8. CASE ~(n >= GlobalLimit)
  <2>1. n \in 0..GlobalLimit - 1
    BY <1>2, <1>5, <1>8
  <2> QED BY <1>1, <1>5, <1>6, <1>8, <2>1
<1> QED BY <1>7, <1>8

LEMMA WaWrongIs ==
    ASSUME WaInv, NEW k \in WebThreads, NEW given, WaWrong(k, given)
    PROVE  \E client \in WebClients, kept \in WaKept :
             /\ client = waCall[k].who
             /\ waTracked' = [c \in kept \cup {client} |-> IF c = client THEN WaEntry(c, kept) ELSE waTracked[c]]
             /\ waServed' = {WaEvent("failed", client, NoPassword)}
<1>1. PICK client \in WebClients : client = waCall[k].who
  BY DEF WaWrong, WaInv, WaCallers
<1> QED BY <1>1 DEF WaWrong, WaTell

LEMMA WaWrongStep ==
    ASSUME WaInv, NEW k \in WebThreads, NEW given, WaWrong(k, given)
    PROVE  WaInv'
<1>1. waNow \in Nat \ {0} /\ WaAttempts(waTracked, waNow)
  BY WaNumbers DEF WaInv
<1>2. PICK client \in WebClients, kept \in WaKept :
        waTracked' = [c \in kept \cup {client} |-> IF c = client THEN WaEntry(c, kept) ELSE waTracked[c]]
  BY WaWrongIs
<1>3. /\ ~WaAt(k, "clear") /\ WaGoes(k, WaIdle) /\ WaCountGlobal
      /\ UNCHANGED <<waStored, waCache, waSessions, waTokens, waNow>>
  BY DEF WaWrong, WaAt
<1>4. WaAttempts(waTracked', waNow)
  BY <1>1, <1>2, WaFails
<1>5. WaAttempts(waTracked, waNow)'
  BY <1>3, <1>4
<1>6. /\ waCall' \in [WebThreads -> WaCallRecords] /\ waCall'[k].at = "idle"
      /\ \A j \in WebThreads \ {k} : waCall'[j] = waCall[j]
  BY <1>3, WaRests DEF WaInv, WaKinds
<1>7. WaKinds'
  BY <1>3, <1>6, WaGlobalCounts DEF WaInv, WaKinds
<1>8. waStored # NoPassword => waStored' # NoPassword
  BY <1>3
<1> QED BY <1>3, <1>5, <1>6, <1>7, <1>8, WaThreadStep DEF WaInv

(* A right password drops the record of its client.                         *)
LEMMA WaForgotten ==
    ASSUME NEW tracked, NEW now, WaAttempts(tracked, now), NEW kept \in SUBSET (DOMAIN tracked)
    PROVE  WaAttempts([c \in kept |-> tracked[c]], now)
<1>1. IsFiniteSet(DOMAIN tracked)
  BY DEF WaAttempts
<1>2. IsFiniteSet(kept) /\ Cardinality(kept) <= Cardinality(DOMAIN tracked)
  BY <1>1, FS_Subset
<1>3. Cardinality(kept) \in Nat /\ Cardinality(DOMAIN tracked) \in Nat /\ MaxTracked \in Nat
  BY <1>1, <1>2, FS_CardinalityType, WebConstants DEF WebConstants
<1>4. Cardinality(DOMAIN tracked) <= MaxTracked
  BY DEF WaAttempts
<1>5. Cardinality(kept) <= MaxTracked
  BY <1>2, <1>3, <1>4
<1>6. PICK rest : rest = [c \in kept |-> tracked[c]]
  OBVIOUS
<1>7. DOMAIN rest = kept /\ \A c \in kept : rest[c] = tracked[c]
  BY <1>6
<1>8. rest \in [kept -> [failures : Nat \ {0}, last : 1..now, until : Nat]]
  BY <1>6 DEF WaAttempts
<1>9. WaAttempts(rest, now)
  BY <1>2, <1>5, <1>7, <1>8 DEF WaAttempts
<1> QED BY <1>6, <1>9

LEMMA WaRightStep ==
    ASSUME WaInv, NEW k \in WebThreads, NEW given, WaRight(k, given)
    PROVE  WaInv'
<1>1. /\ ~WaAt(k, "clear") /\ WaGoes(k, WaCall("issue", 0, NoPassword))
      /\ waTracked' = [c \in DOMAIN waTracked \ {waCall[k].who} |-> waTracked[c]]
      /\ UNCHANGED <<waStored, waCache, waSessions, waGlobal, waTokens, waNow>>
  BY DEF WaRight, WaAt
<1>2. WaAttempts(waTracked', waNow)
  <2>1. DOMAIN waTracked \ {waCall[k].who} \in SUBSET (DOMAIN waTracked)
    OBVIOUS
  <2> QED BY <1>1, <2>1, WaForgotten DEF WaInv
<1>3. WaAttempts(waTracked, waNow)'
  BY <1>1, <1>2
<1>4. /\ waCall' \in [WebThreads -> WaCallRecords] /\ waCall'[k].at = "issue"
      /\ \A j \in WebThreads \ {k} : waCall'[j] = waCall[j]
  <2>1. "issue" \in WaStages /\ 0 \in Int \cup WebClients /\ NoPassword \in Passwords \cup {NoPassword}
    BY DEF WaStages
  <2> QED BY <1>1, <2>1, WaMoves DEF WaInv, WaKinds
<1>5. WaKinds'
  BY <1>1, <1>4 DEF WaInv, WaKinds
<1>6. waStored # NoPassword => waStored' # NoPassword
  BY <1>1
<1> QED BY <1>1, <1>3, <1>4, <1>5, <1>6, WaThreadStep DEF WaInv

(* Nothing is in the tables when the process starts.                        *)
LEMMA WaEmpty ==
    /\ \A tokens \in Nat, now \in Nat : WaTable(<<>>, tokens, now)
    /\ \A now \in Nat : WaAttempts(<<>>, now)
<1>1. DOMAIN <<>> = {} /\ IsFiniteSet({}) /\ Cardinality({}) = 0
  BY FS_EmptySet
<1>2. \A S : <<>> \in [{} -> S]
  OBVIOUS
<1>3. MaxSessions \in Nat /\ MaxTracked \in Nat
  BY WebConstants DEF WebConstants
<1> QED BY <1>1, <1>2, <1>3 DEF WaTable, WaAttempts

LEMMA WaBegins ==
    /\ WaNoFailures \in [failures : 0..GlobalLimit - 1, started : Int, until : Int]
    /\ [k \in WebThreads |-> WaIdle] \in [WebThreads -> WaCallRecords]
    /\ WaIdle.at = "idle"
BY WebConstants DEF WebConstants, WaNoFailures, WaIdle, WaCall, WaCallRecords, WaStages

LEMMA WaRestartStep ==
    ASSUME WaInv, NEW file \in Passwords \cup {NoPassword}, WaRestart(file)
    PROVE  WaInv'
<1>1. /\ waCache' = {} /\ waSessions' = <<>> /\ waTracked' = <<>> /\ waGlobal' = WaNoFailures
      /\ waCall' = [k \in WebThreads |-> WaIdle] /\ UNCHANGED <<waTokens, waNow>>
  BY DEF WaRestart
<1>2. waStored' \in Passwords \cup {NoPassword}
  BY DEF WaRestart, WaFromFile, WaInv, WaKinds
<1>3. WaKinds'
  BY <1>1, <1>2, WaBegins DEF WaInv, WaKinds
<1>4. WaTable(waSessions', waTokens', waNow') /\ WaAttempts(waTracked', waNow')
  BY <1>1, WaEmpty, WaNumbers
<1>5. \A k \in WebThreads : waCall'[k].at = "idle"
  BY <1>1, WaBegins
<1>6. WaCallers' /\ WaOvertaken'
  BY <1>5 DEF WaCallers, WaOvertaken, WaAt
<1> QED BY <1>3, <1>4, <1>6 DEF WaInv

LEMMA WaTickStep == WaInv /\ WaTick => WaInv'
<1> SUFFICES ASSUME WaInv, WaTick PROVE WaInv'
  OBVIOUS
<1>1. /\ waNow \in Nat \ {0} /\ waTokens \in Nat /\ MaxWebTime \in Nat /\ waNow < MaxWebTime /\ waNow' = waNow + 1
      /\ UNCHANGED <<waStored, waCache, waSessions, waTracked, waGlobal, waCall, waTokens>>
  BY WaNumbers, WebConstants DEF WaTick, WebConstants
<1>2. WaTable(waSessions, waTokens, waNow + 1) /\ WaAttempts(waTracked, waNow + 1)
  BY <1>1, WaTableLater, WaAttemptsLater DEF WaInv
<1>3. WaTable(waSessions', waTokens', waNow') /\ WaAttempts(waTracked', waNow')
  BY <1>1, <1>2
<1>4. WaKinds'
  BY <1>1 DEF WaInv, WaKinds
<1>5. WaCallers' /\ WaOvertaken'
  BY <1>1 DEF WaInv, WaCallers, WaOvertaken, WaClearing, WaAt
<1> QED BY <1>3, <1>4, <1>5 DEF WaInv

LEMMA WaStep == WaInv /\ [WaNext]_waVars => WaInv'
<1> SUFFICES ASSUME WaInv, [WaNext]_waVars PROVE WaInv'
  OBVIOUS
<1>1. ASSUME NEW k \in WebThreads, WaGoesOn(k) PROVE WaInv'
  BY <1>1, WaIssueStep, WaTouchStep, WaRetainStep, WaLoginSteps, WaPasswordSteps, WaWrongStep, WaRightStep
     DEF WaGoesOn
<1>2. ASSUME NEW k \in WebThreads,
             \/ \E t \in 1..waTokens : WaAuthorize(k, t)
             \/ \E client \in WebClients : WaLogin(k, client)
             \/ \E p \in Passwords : WaSetup(k, p)
             \/ \E p \in Passwords \cup {NoPassword} : WaSetLocally(k, p)
      PROVE  WaInv'
  BY <1>2, WaAuthorizeStep, WaLoginSteps, WaPasswordSteps
<1>3. CASE UNCHANGED waVars
  BY <1>3 DEF waVars, WaInv, WaKinds, WaCallers, WaOvertaken, WaClearing, WaAt
<1>4. ASSUME WaInvalidate \/ \E t \in 1..waTokens : WaLogout(t) PROVE WaInv'
  BY <1>4, WaDropStep DEF WaInvalidate, WaLogout
<1> QED BY <1>1, <1>2, <1>3, <1>4, WaRestartStep, WaTickStep DEF WaNext

(* The console keeps the types of its state and its inductive invariant:    *)
(* the session table in the order of creation and within its limit, and     *)
(* every lock as long as the failures in a row make it.                     *)
THEOREM WaInvariant == WaSpec => []WaInv
<1>1. WaInit => WaInv
  <2> SUFFICES ASSUME WaInit PROVE WaInv
    OBVIOUS
  <2>1. MaxWebTime \in Nat \ {0} /\ MaxTokens \in Nat
    BY WebConstants DEF WebConstants
  <2>2. WaKinds
    BY <2>1, WaBegins DEF WaInit, WaKinds
  <2>3. WaTable(waSessions, waTokens, waNow) /\ WaAttempts(waTracked, waNow)
    BY WaEmpty DEF WaInit
  <2>4. \A k \in WebThreads : waCall[k].at = "idle"
    BY WaBegins DEF WaInit
  <2>5. WaCallers /\ WaOvertaken
    BY <2>4 DEF WaCallers, WaOvertaken, WaAt
  <2> QED BY <2>2, <2>3, <2>5 DEF WaInv
<1> QED BY <1>1, WaStep, PTL DEF WaSpec

(* What a step answers: only the touch of a live session serves a call, and *)
(* only a wrong password is counted.                                        *)
LEMMA WaAnswers ==
    ASSUME WaNext, NEW e \in waServed'
    PROVE  /\ e.kind = "admin" => \E k \in WebThreads : WaTouch(k) /\ e.who = waCall[k].who /\ e.who \in WaPruned
           /\ e.kind = "failed" => \E k \in WebThreads, p \in Passwords : WaWrong(k, p)
<1> DEFINE Done == /\ e.kind = "admin" => \E k \in WebThreads : /\ WaTouch(k) /\ e.who = waCall[k].who
                                                                  /\ e.who \in WaPruned
                   /\ e.kind = "failed" => \E k \in WebThreads, p \in Passwords : WaWrong(k, p)
<1>1. ASSUME NEW k \in WebThreads, WaTouch(k) PROVE Done
  <2>1. waServed' = {} \/ (waCall[k].who \in WaPruned /\ waServed' = {WaEvent("admin", waCall[k].who, NoPassword)})
    BY <1>1 DEF WaTouch, WaTell, WaQuiet
  <2>2. waCall[k].who \in WaPruned /\ e.kind = "admin" /\ e.who = waCall[k].who
    BY <2>1 DEF WaEvent
  <2> QED BY <1>1, <2>2
<1>2. ASSUME NEW k \in WebThreads, NEW p \in Passwords, WaWrong(k, p) PROVE Done
  <2>1. e.kind = "failed"
    BY <1>2 DEF WaWrong, WaTell, WaEvent
  <2> QED BY <1>2, <2>1
<1>3. ASSUME NEW k \in WebThreads,
             \/ WaIssue(k) \/ WaRetain(k) \/ WaCheckLockout(k)
             \/ \E t \in 1..waTokens : WaAuthorize(k, t)
             \/ \E client \in WebClients : WaLogin(k, client)
      PROVE  Done
  BY <1>3 DEF WaIssue, WaRetain, WaCheckLockout, WaAuthorize, WaLogin, WaQuiet
<1>4. ASSUME NEW k \in WebThreads, NEW p \in Passwords \cup {NoPassword}, WaSetLocally(k, p) PROVE Done
  BY <1>4 DEF WaSetLocally, WaTell, WaEvent
<1>5. ASSUME NEW k \in WebThreads, NEW p \in Passwords, WaSetup(k, p) \/ WaRight(k, p) PROVE Done
  <2>1. waServed' = {} \/ waServed' = {WaEvent("setup", 0, NoPassword)}
        \/ waServed' = {WaEvent("login", waCall[k].who, NoPassword)}
    BY <1>5 DEF WaSetup, WaRight, WaTell, WaQuiet
  <2> QED BY <2>1 DEF WaEvent
<1>6. ASSUME NEW k \in WebThreads, NEW old \in Passwords, NEW new \in Passwords, WaChange(k, old, new) PROVE Done
  <2>1. waServed' = {} \/ waServed' = {WaEvent("change", waCall[k].who, old)}
    BY <1>6 DEF WaChange, WaTell, WaQuiet
  <2> QED BY <2>1 DEF WaEvent
<1>7. ASSUME NEW file \in Passwords \cup {NoPassword}, WaRestart(file) PROVE Done
  <2>1. waServed' \subseteq {WaEvent("restart", 0, NoPassword), WaEvent("setup", 0, NoPassword)}
    BY <1>7 DEF WaRestart
  <2> QED BY <2>1 DEF WaEvent
<1>8. ASSUME WaTick \/ WaInvalidate \/ \E t \in 1..waTokens : WaLogout(t) PROVE Done
  BY <1>8 DEF WaTick, WaInvalidate, WaLogout, WaDrop, WaQuiet
<1> HIDE DEF Done
<1>9. Done
  BY <1>1, <1>2, <1>3, <1>4, <1>5, <1>6, <1>7, <1>8 DEF WaNext, WaGoesOn
<1> QED BY <1>9 DEF Done

(* Nothing is served without a password.                                    *)
LEMMA WaServesGuarded ==
    ASSUME WaInv, WaNext, NEW e \in waServed', e.kind = "admin"
    PROVE  /\ waStored # NoPassword \/ \E k \in WebThreads : WaAt(k, "clear")
           /\ e.who \in DOMAIN waSessions /\ waNow - waSessions[e.who].created <= Lifetime
<1>1. PICK k \in WebThreads : WaTouch(k) /\ e.who = waCall[k].who /\ e.who \in WaPruned
  BY WaAnswers
<1>2. e.who \in DOMAIN waSessions /\ waNow - waSessions[e.who].created <= Lifetime
  BY <1>1 DEF WaPruned, WaLive
<1>3. waStored # NoPassword \/ WaClearing
  BY <1>1, <1>2 DEF WaTouch, WaInv, WaOvertaken
<1> QED BY <1>2, <1>3 DEF WaClearing

(* Only the use of a session and the issue of another write the table, and  *)
(* both leave the dates of creation alone.                                  *)
LEMMA WaDatesKept ==
    ASSUME WaInv, WaNext, NEW t \in DOMAIN waSessions \cap DOMAIN waSessions'
    PROVE  waSessions'[t].created = waSessions[t].created
<1>1. waSessions[t] \in [created : 1..waNow, seen : 1..waNow] /\ t \in 1..waTokens /\ waTokens \in Nat
  BY WaNumbers DEF WaInv, WaTable
<1>2. ASSUME NEW k \in WebThreads, WaIssue(k) PROVE waSessions'[t] = waSessions[t]
  <2>1. PICK remaining : /\ waSessions' = [u \in remaining \cup {waTokens + 1} |->
                                       IF u = waTokens + 1 THEN [created |-> waNow, seen |-> waNow]
                                                           ELSE waSessions[u]]
    BY <1>2 DEF WaIssue
  <2>2. t # waTokens + 1
    BY <1>1
  <2> QED BY <2>1, <2>2
<1>3. ASSUME NEW k \in WebThreads, WaTouch(k)
      PROVE  waSessions'[t] = waSessions[t] \/ waSessions'[t] = [waSessions[t] EXCEPT !.seen = waNow]
  BY <1>3 DEF WaTouch, WaTouched
<1>4. ASSUME NEW k \in WebThreads, WaRetain(k) PROVE waSessions'[t] = waSessions[t]
  BY <1>4 DEF WaRetain, WaKeep
<1>5. ASSUME WaInvalidate \/ \E u \in 1..waTokens : WaLogout(u) PROVE waSessions'[t] = waSessions[t]
  BY <1>5 DEF WaInvalidate, WaLogout, WaDrop, WaKeep
<1>6. ASSUME NEW file, WaRestart(file) PROVE FALSE
  BY <1>6 DEF WaRestart
<1>7. ASSUME NEW k \in WebThreads,
             \/ WaCheckLockout(k)
             \/ \E old, new \in Passwords : WaChange(k, old, new)
             \/ \E p \in Passwords : WaWrong(k, p) \/ WaRight(k, p)
             \/ \E u \in 1..waTokens : WaAuthorize(k, u)
             \/ \E client \in WebClients : WaLogin(k, client)
             \/ \E p \in Passwords : WaSetup(k, p)
             \/ \E p \in Passwords \cup {NoPassword} : WaSetLocally(k, p)
      PROVE  waSessions'[t] = waSessions[t]
  BY <1>7 DEF WaCheckLockout, WaChange, WaWrong, WaRight, WaAuthorize, WaLogin, WaSetup, WaSetLocally
<1>8. ASSUME WaTick PROVE waSessions'[t] = waSessions[t]
  BY <1>8 DEF WaTick
<1>9. waSessions'[t] = waSessions[t] \/ waSessions'[t] = [waSessions[t] EXCEPT !.seen = waNow]
  BY <1>2, <1>3, <1>4, <1>5, <1>6, <1>7, <1>8 DEF WaNext, WaGoesOn
<1> QED BY <1>1, <1>9

(* Who writes the password, and what the step says of it.                   *)
LEMMA WaWrites ==
    ASSUME WaInv, WaNext, waStored' # waStored
    PROVE  \E e \in waServed' : \/ e.kind = "setup" /\ waStored = NoPassword
                                \/ e.kind = "change" /\ e.given = waStored
                                \/ e.kind = "local"
<1> DEFINE Done == \E e \in waServed' : \/ e.kind = "setup" /\ waStored = NoPassword
                                        \/ e.kind = "change" /\ e.given = waStored
                                        \/ e.kind = "local"
<1>1. WaLoaded = waStored
  BY WaLoadedIs DEF WaInv, WaKinds
<1>2. ASSUME NEW k \in WebThreads, NEW old \in Passwords, NEW new \in Passwords, WaChange(k, old, new) PROVE Done
  <2>1. waServed' = {WaEvent("change", waCall[k].who, waStored)}
    BY <1>1, <1>2 DEF WaChange, WaMayChange, WaTell
  <2> QED BY <2>1 DEF WaEvent
<1>3. ASSUME NEW k \in WebThreads, NEW p \in Passwords, WaSetup(k, p) PROVE Done
  <2>1. waServed' = {WaEvent("setup", 0, NoPassword)} /\ waStored = NoPassword
    BY <1>3 DEF WaSetup, WaMayCreate, WaTell
  <2> QED BY <2>1 DEF WaEvent
<1>4. ASSUME NEW k \in WebThreads, NEW p, WaSetLocally(k, p) PROVE Done
  BY <1>4 DEF WaSetLocally, WaTell, WaEvent
<1>5. ASSUME NEW file, WaRestart(file) PROVE Done
  <2>1. WaEvent("setup", 0, NoPassword) \in waServed' /\ waStored = NoPassword
    BY <1>5 DEF WaRestart, WaFromFile
  <2> QED BY <2>1 DEF WaEvent
<1>6. ASSUME NEW k \in WebThreads,
             \/ WaIssue(k) \/ WaTouch(k) \/ WaRetain(k) \/ WaCheckLockout(k)
             \/ \E p \in Passwords : WaWrong(k, p) \/ WaRight(k, p)
             \/ \E u \in 1..waTokens : WaAuthorize(k, u)
             \/ \E client \in WebClients : WaLogin(k, client)
      PROVE  FALSE
  BY <1>6 DEF WaIssue, WaTouch, WaRetain, WaCheckLockout, WaWrong, WaRight, WaAuthorize, WaLogin
<1>7. ~WaTick /\ ~WaInvalidate /\ ~ \E u \in 1..waTokens : WaLogout(u)
  BY DEF WaTick, WaInvalidate, WaLogout, WaDrop
<1> HIDE DEF Done
<1>8. Done
  BY <1>2, <1>3, <1>4, <1>5, <1>6, <1>7 DEF WaNext, WaGoesOn
<1> QED BY <1>8 DEF Done

(* Records that go while the lock of their client stands leave a full table.*)
LEMMA WaGoneFull ==
    ASSUME WaInv, NEW kept \in WaKept, NEW c \in DOMAIN waTracked, waNow < waTracked[c].until, c \notin kept
    PROVE  Cardinality(DOMAIN waTracked) >= MaxTracked
<1>1. PICK fresh : fresh = {k \in DOMAIN waTracked : \/ waNow < waTracked[k].until
                                                   \/ waNow - waTracked[k].last <= Retention}
  OBVIOUS
<1>2. kept \in SUBSET fresh /\ (kept = fresh \/ Cardinality(kept) = MaxTracked - 1)
  BY <1>1 DEF WaKept
<1>3. c \in fresh
  BY <1>1
<1>4. Cardinality(kept) = MaxTracked - 1
  BY <1>2, <1>3
<1>5. kept \cup {c} \in SUBSET (DOMAIN waTracked) /\ kept \in SUBSET (DOMAIN waTracked)
  BY <1>1, <1>2
<1>6. IsFiniteSet(DOMAIN waTracked)
  BY DEF WaInv, WaAttempts
<1>7. IsFiniteSet(kept) /\ Cardinality(kept) \in Nat /\ Cardinality(DOMAIN waTracked) \in Nat
  BY <1>5, <1>6, FS_Subset, FS_CardinalityType
<1>8. Cardinality(kept \cup {c}) = Cardinality(kept) + 1
  BY <1>7, FS_AddElement
<1>9. Cardinality(kept \cup {c}) <= Cardinality(DOMAIN waTracked)
  BY <1>5, <1>6, FS_Subset
<1>10. MaxTracked \in Nat
  BY WebConstants DEF WebConstants
<1> QED BY <1>4, <1>7, <1>8, <1>9, <1>10

(* A client whose record may stay had it when the failure was counted.      *)
LEMMA WaStays ==
    ASSUME WaInv, NEW kept \in WaKept, NEW client, kept \cup {client} \in WaKept
    PROVE  client \in kept
<1>1. SUFFICES ASSUME client \notin kept PROVE FALSE
  OBVIOUS
<1>2. PICK fresh : fresh = {k \in DOMAIN waTracked : \/ waNow < waTracked[k].until
                                                   \/ waNow - waTracked[k].last <= Retention}
  OBVIOUS
<1>3. /\ kept \cup {client} \in SUBSET fresh /\ Cardinality(kept \cup {client}) < MaxTracked
      /\ kept = fresh \/ Cardinality(kept) = MaxTracked - 1
  BY <1>2 DEF WaKept
<1>4. Cardinality(kept) = MaxTracked - 1
  BY <1>1, <1>3
<1>5. IsFiniteSet(DOMAIN waTracked) /\ kept \in SUBSET (DOMAIN waTracked)
  BY <1>2, <1>3 DEF WaInv, WaAttempts
<1>6. IsFiniteSet(kept) /\ Cardinality(kept) \in Nat
  BY <1>5, FS_Subset, FS_CardinalityType
<1>7. Cardinality(kept \cup {client}) = Cardinality(kept) + 1
  BY <1>1, <1>6, FS_AddElement
<1>8. MaxTracked \in Nat
  BY WebConstants DEF WebConstants
<1> QED BY <1>3, <1>4, <1>6, <1>7, <1>8

LEMMA WaUntilNat == WaInv => \A c \in DOMAIN waTracked : waTracked[c].until \in Nat /\ waTracked[c].failures \in Nat
<1> SUFFICES ASSUME WaInv, NEW c \in DOMAIN waTracked
             PROVE  waTracked[c].until \in Nat /\ waTracked[c].failures \in Nat
  OBVIOUS
<1>1. waTracked[c] \in [failures : Nat \ {0}, last : 1..waNow, until : Nat]
  BY DEF WaInv, WaAttempts
<1> QED BY <1>1

(* A failure lengthens the lock of its client, and the next one is longer.  *)
LEMMA WaFailureLocks ==
    ASSUME WaInv, WaNext, NEW e \in waServed', e.kind = "failed", DOMAIN waTracked' \in WaKept,
           waTracked[e.who].failures + 1 >= LockoutAfter
    PROVE  waTracked'[e.who].until >= waNow + WaLockFor(waTracked[e.who].failures + 1)
<1>1. PICK k \in WebThreads, p \in Passwords : WaWrong(k, p)
  BY WaAnswers
<1>2. PICK client \in WebClients, kept \in WaKept :
        /\ waTracked' = [c \in kept \cup {client} |-> IF c = client THEN WaEntry(c, kept) ELSE waTracked[c]]
        /\ waServed' = {WaEvent("failed", client, NoPassword)}
  BY <1>1, WaWrongIs
<1>3. e.who = client
  BY <1>2 DEF WaEvent
<1>4. DOMAIN waTracked' = kept \cup {client}
  BY <1>2
<1>5. client \in kept
  BY <1>4, WaStays
<1>6. waNow \in Nat \ {0} /\ WaAttempts(waTracked, waNow)
  BY WaNumbers DEF WaInv
<1>7. PICK after : after = waTracked'
  OBVIOUS
<1>8. after[client].until = waNow + WaLockFor(waTracked[client].failures + 1)
  BY <1>2, <1>3, <1>5, <1>6, <1>7, WaFails
<1>9. client \in DOMAIN waTracked
  BY <1>5 DEF WaKept
<1>10. waTracked[client].failures + 1 \in Nat /\ LockoutAfter \in Nat
  BY <1>9, WaUntilNat, WebConstants DEF WebConstants
<1>11. WaLockFor(waTracked[client].failures + 1) \in Nat
  BY <1>3, <1>10, WaLockGrows
<1> QED BY <1>3, <1>6, <1>7, <1>8, <1>11

(* A lock stands until it has run out.                                      *)
LEMMA WaLockStands ==
    ASSUME WaInv, WaNext, NEW c \in DOMAIN waTracked, waNow < waTracked[c].until
    PROVE  \/ c \in DOMAIN waTracked' /\ waTracked'[c].until >= waTracked[c].until
           \/ \E e \in waServed' : (e.kind = "login" /\ e.who = c) \/ e.kind = "restart"
           \/ Cardinality(DOMAIN waTracked) >= MaxTracked
<1> DEFINE Done == \/ c \in DOMAIN waTracked' /\ waTracked'[c].until >= waTracked[c].until
                   \/ \E e \in waServed' : (e.kind = "login" /\ e.who = c) \/ e.kind = "restart"
                   \/ Cardinality(DOMAIN waTracked) >= MaxTracked
<1>1. waTracked[c].until \in Nat
  BY WaUntilNat
<1>2. ASSUME NEW k \in WebThreads, NEW p \in Passwords, WaWrong(k, p) PROVE Done
  <2>1. PICK client \in WebClients, kept \in WaKept :
          waTracked' = [d \in kept \cup {client} |-> IF d = client THEN WaEntry(d, kept) ELSE waTracked[d]]
    BY <1>2, WaWrongIs
  <2>2. CASE c \notin kept
    BY <2>2, WaGoneFull
  <2>3. CASE c \in kept /\ c # client
    BY <1>1, <2>1, <2>3
  <2>4. CASE c \in kept /\ c = client
    <3>1. waNow \in Nat \ {0} /\ WaAttempts(waTracked, waNow)
      BY WaNumbers DEF WaInv
    <3>2. PICK after : after = waTracked'
      OBVIOUS
    <3>3. after[client].until >= waTracked[client].until
      BY <2>1, <2>4, <3>1, <3>2, WaFails
    <3> QED BY <2>1, <2>4, <3>2, <3>3
  <2> QED BY <2>2, <2>3, <2>4
<1>3. ASSUME NEW k \in WebThreads, NEW p \in Passwords, WaRight(k, p) PROVE Done
  <2>1. CASE c = waCall[k].who
    BY <1>3, <2>1 DEF WaRight, WaTell, WaEvent
  <2>2. CASE c # waCall[k].who
    BY <1>1, <1>3, <2>2 DEF WaRight
  <2> QED BY <2>1, <2>2
<1>4. ASSUME NEW file, WaRestart(file) PROVE Done
  <2>1. WaEvent("restart", 0, NoPassword) \in waServed'
    BY <1>4 DEF WaRestart
  <2> QED BY <2>1 DEF WaEvent
<1>5. ASSUME UNCHANGED waTracked PROVE Done
  BY <1>1, <1>5
<1>6. ASSUME NEW k \in WebThreads,
             \/ WaIssue(k) \/ WaTouch(k) \/ WaRetain(k) \/ WaCheckLockout(k)
             \/ \E old, new \in Passwords : WaChange(k, old, new)
             \/ \E u \in 1..waTokens : WaAuthorize(k, u)
             \/ \E client \in WebClients : WaLogin(k, client)
             \/ \E p \in Passwords : WaSetup(k, p)
             \/ \E p \in Passwords \cup {NoPassword} : WaSetLocally(k, p)
      PROVE  UNCHANGED waTracked
  BY <1>6 DEF WaIssue, WaTouch, WaRetain, WaCheckLockout, WaChange, WaAuthorize, WaLogin, WaSetup, WaSetLocally
<1>7. ASSUME WaTick \/ WaInvalidate \/ \E u \in 1..waTokens : WaLogout(u) PROVE UNCHANGED waTracked
  BY <1>7 DEF WaTick, WaInvalidate, WaLogout, WaDrop
<1> HIDE DEF Done
<1>8. Done
  BY <1>2, <1>3, <1>4, <1>5, <1>6, <1>7 DEF WaNext, WaGoesOn
<1> QED BY <1>8 DEF Done

(* WaGuarded: the console answers and changes its password only for those   *)
(* who may, and its locks hold.                                             *)
THEOREM WaGuardedCorrect == WaSpec => WaGuarded
<1>1. WaInv => WaTypeOK
  BY DEF WaInv, WaKinds, WaTable, WaAttempts, WaTypeOK
<1>2. WaInv /\ [WaNext]_waVars =>
        [\A e \in waServed' : e.kind = "admin" =>
            waStored # NoPassword \/ \E k \in WebThreads : WaAt(k, "clear")]_waVars
  BY WaServesGuarded
<1>3. WaInv /\ [WaNext]_waVars =>
        [/\ \A e \in waServed' : e.kind = "admin" =>
               e.who \in DOMAIN waSessions /\ waNow - waSessions[e.who].created <= Lifetime
         /\ \A t \in DOMAIN waSessions \cap DOMAIN waSessions' :
               waSessions'[t].created = waSessions[t].created]_waVars
  BY WaServesGuarded, WaDatesKept
<1>4. WaInv /\ [WaNext]_waVars =>
        [waStored' # waStored => \E e \in waServed' :
            \/ e.kind = "setup" /\ waStored = NoPassword
            \/ e.kind = "change" /\ e.given = waStored
            \/ e.kind = "local"]_waVars
  BY WaWrites
<1>5. WaInv /\ [WaNext]_waVars =>
        [/\ \A e \in waServed' : e.kind = "failed" /\ DOMAIN waTracked' \in WaKept =>
               LET n == waTracked[e.who].failures
               IN n + 1 >= LockoutAfter => waTracked'[e.who].until >= waNow + WaLockFor(n + 1)
         /\ \A c \in DOMAIN waTracked : waNow < waTracked[c].until =>
               \/ c \in DOMAIN waTracked' /\ waTracked'[c].until >= waTracked[c].until
               \/ \E e \in waServed' : (e.kind = "login" /\ e.who = c) \/ e.kind = "restart"
               \/ Cardinality(DOMAIN waTracked) >= MaxTracked]_waVars
  BY WaFailureLocks, WaLockStands
<1> QED
  BY <1>1, <1>2, <1>3, <1>4, <1>5, WaInvariant, PTL
     DEF WaSpec, WaGuarded, WaNothingWithoutPassword, WaSessionsEnd, WaReplacedKnowingly, WaLocksGrow

-----------------------------------------------------------------------------
(* A query on its way has a pool.  It selects with no request on the wire,   *)
(* or else has left a batch at its deadline and sends no more; what it has   *)
(* selected and sent is bounded while it waits for it.                      *)
HealthOf(q) ==
    /\ IF stage[q] \in {"select", "claim", "wait"}
       THEN chain[q] \in Chains /\ at[q] \in DOMAIN chain[q]
       ELSE at[q] = 1
    /\ left[q] => Parallel /\ spent[q] = Budget
    /\ stage[q] \in {"select", "claim"} => Trying(q) = {} \/ left[q]
    /\ stage[q] = "claim" => todo[q] = <<>>
    /\ stage[q] = "wait" => Members(todo[q]) \subseteq Members(Pool(q))
    /\ stage[q] = "wait" /\ ~left[q] => Trying(q) \subseteq Members(Pool(q))
    /\ IsFiniteSet(Trying(q))
    /\ Cardinality(Trying(q)) <= IF Parallel THEN MaxParallel ELSE 1
    /\ stage[q] = "wait" /\ ~left[q] /\ Parallel => Cardinality(Trying(q)) + Len(todo[q]) <= MaxParallel

HealthInv == TypeOK /\ \A q \in Queries : HealthOf(q)

LEMMA PoolFacts ==
    ASSUME NEW c \in Chains, NEW i \in DOMAIN c
    PROVE  /\ c[i] \in Seq(Upstreams) /\ Len(c[i]) \in Nat \ {0} /\ Members(c[i]) \subseteq Upstreams
           /\ c[i] \in Pools /\ DOMAIN c[i] = 1..Len(c[i])
           /\ c \in Seq(Seq(Upstreams)) /\ c # <<>> /\ 1 \in DOMAIN c /\ DOMAIN c = 1..Len(c) /\ Len(c) \in Nat
<1>1. c \in Seq(Seq(Upstreams)) /\ c # <<>> /\ c[i] # <<>>
  BY HealthAssumption DEF HealthAssumption
<1>2. c[i] \in Seq(Upstreams)
  BY <1>1
<1> QED BY <1>1, <1>2 DEF Members, Pools

LEMMA PickedFacts ==
    ASSUME NEW p \in Seq(Upstreams), p # <<>>, NEW s \in Selections(p), mode \in Modes
    PROVE  s \in Seq(Upstreams) /\ Members(s) \subseteq Members(p)
<1>1. PICK i \in Starts(p) : \E f \in InOrder(Distances(p, i)) : s = [k \in DOMAIN f |-> From(p, i, f[k])]
  BY Zenon DEF Selections
<1>10. PICK f \in InOrder(Distances(p, i)) : s = [k \in DOMAIN f |-> From(p, i, f[k])]
  BY <1>1
<1>2. Len(p) \in Nat \ {0} /\ DOMAIN p = 1..Len(p)
  OBVIOUS
<1>3. i \in Nat
  BY <1>2 DEF Starts
<1>4. Distances(p, i) \subseteq 0..(Len(p) - 1) /\ IsFiniteSet(Distances(p, i))
  <2>1. Distances(p, i) \subseteq 0..(Len(p) - 1)
    BY DEF Distances
  <2>2. 0 \in Int /\ Len(p) - 1 \in Int
    BY <1>2
  <2>3. IsFiniteSet(0..(Len(p) - 1))
    BY <2>2, FS_Interval
  <2> QED BY <2>1, <2>3, FS_Subset
<1>5. PICK n \in Nat : n = Cardinality(Distances(p, i))
  BY <1>4, FS_CardinalityType
<1>6. f \in [1..n -> Distances(p, i)]
  BY <1>5 DEF InOrder
<1>7. \A k \in 1..n : 1 + ((i + f[k]) % Len(p)) \in 1..Len(p)
  BY <1>2, <1>3, <1>4, <1>6
<1>8. \A k \in 1..n : From(p, i, f[k]) \in Upstreams /\ From(p, i, f[k]) \in Members(p)
  BY <1>2, <1>7 DEF From, Members
<1>9. s = [k \in 1..n |-> From(p, i, f[k])]
  BY <1>10, <1>6
<1> QED BY <1>8, <1>9 DEF Members

LEMMA AtMostFacts ==
    ASSUME NEW s \in Seq(Upstreams), NEW n \in Nat
    PROVE  AtMost(s, n) \in Seq(Upstreams) /\ Len(AtMost(s, n)) <= n /\ Members(AtMost(s, n)) \subseteq Members(s)
<1>1. PICK m \in Nat : m = (IF Len(s) < n THEN Len(s) ELSE n)
  OBVIOUS
<1>2. m <= Len(s) /\ m <= n
  BY <1>1
<1>3. AtMost(s, n) = SubSeq(s, 1, m)
  BY <1>1 DEF AtMost
<1>4. /\ SubSeq(s, 1, m) \in Seq(Upstreams) /\ Len(SubSeq(s, 1, m)) = m
      /\ \A k \in 1..m : SubSeq(s, 1, m)[k] = s[k]
  BY <1>2
<1> QED BY <1>2, <1>3, <1>4 DEF Members

LEMMA HealthInitially == Init => HealthInv
<1> SUFFICES ASSUME Init PROVE HealthInv
  OBVIOUS
<1>1. TypeOK
  BY HealthAssumption DEF HealthAssumption, Init, TypeOK
<1>2. ASSUME NEW q \in Queries PROVE HealthOf(q)
  <2>1. Trying(q) = {}
    BY DEF Init, Trying
  <2>2. IsFiniteSet(Trying(q)) /\ Cardinality(Trying(q)) = 0
    BY <2>1, FS_EmptySet
  <2> QED BY <2>1, <2>2, HealthAssumption DEF HealthAssumption, Init, HealthOf
<1> QED BY <1>1, <1>2 DEF HealthInv

(* A query that no step touches stays as it is.                              *)
LEMMA OthersStand ==
    ASSUME NEW r \in Queries, HealthOf(r), UNCHANGED mode, stage'[r] = stage[r], chain'[r] = chain[r],
           at'[r] = at[r], todo'[r] = todo[r], tries'[r] = tries[r], left'[r] = left[r], spent'[r] = spent[r]
    PROVE  HealthOf(r)'
<1>1. Trying(r)' = Trying(r) /\ Pool(r)' = Pool(r) /\ Parallel' = Parallel
  BY DEF Trying, Pool, Parallel
<1> QED BY <1>1 DEF HealthOf

(* What a query has on the wire, one request more or one less.               *)
LEMMA OneMore ==
    ASSUME NEW S, IsFiniteSet(S), NEW T, NEW u, T = S \cup {u}
    PROVE  IsFiniteSet(T) /\ Cardinality(S) \in Nat /\ Cardinality(T) \in Nat /\ Cardinality(T) <= Cardinality(S) + 1
<1>1. IsFiniteSet(S \cup {u}) /\ Cardinality(S) \in Nat
  BY FS_AddElement, FS_CardinalityType
<1>2. Cardinality(S \cup {u}) = IF u \in S THEN Cardinality(S) ELSE Cardinality(S) + 1
  BY FS_AddElement
<1> QED BY <1>1, <1>2

LEMMA NoMore ==
    ASSUME NEW S, IsFiniteSet(S), NEW T \in SUBSET S
    PROVE  IsFiniteSet(T) /\ Cardinality(S) \in Nat /\ Cardinality(T) \in Nat /\ Cardinality(T) <= Cardinality(S)
  BY FS_Subset, FS_CardinalityType

LEMMA TriesChanged ==
    ASSUME TypeOK, NEW q \in Queries, NEW u \in Upstreams, NEW x \in {"none", "sent", "lost", "marked"},
           tries' = [tries EXCEPT ![q][u] = x]
    PROVE  /\ tries' \in [Queries -> [Upstreams -> {"none", "sent", "lost", "marked"}]]
           /\ Trying(q)' = IF x = "none" THEN Trying(q) \ {u} ELSE Trying(q) \cup {u}
           /\ \A r \in Queries \ {q} : tries'[r] = tries[r]
<1>1. tries \in [Queries -> [Upstreams -> {"none", "sent", "lost", "marked"}]]
  BY DEF TypeOK
<1>2. tries' = [tries EXCEPT ![q] = [tries[q] EXCEPT ![u] = x]]
  OBVIOUS
<1>3. [tries[q] EXCEPT ![u] = x] \in [Upstreams -> {"none", "sent", "lost", "marked"}]
  BY <1>1
<1>4. tries'[q] = [tries[q] EXCEPT ![u] = x]
  BY <1>1, <1>2
<1> QED BY <1>1, <1>2, <1>3, <1>4 DEF Trying

LEMMA ReturnFacts ==
    ASSUME TypeOK, NEW q \in Queries, NEW s \in {"answered", "failed"}, Return(q, s)
    PROVE  /\ stage' \in [Queries -> {"idle", "select", "claim", "wait", "answered", "failed"}]
           /\ chain' \in [Queries -> Chains \cup {<<>>}] /\ at' \in [Queries -> Nat \ {0}]
           /\ todo' \in [Queries -> Seq(Upstreams)] /\ got' \in [Queries -> BOOLEAN]
           /\ spent' \in [Queries -> 0..Budget] /\ network' \in [Queries -> SUBSET Nat]
           /\ retries' \in [Queries -> 0..MaxRetries] /\ left' \in [Queries -> BOOLEAN]
           /\ stage'[q] = s /\ at'[q] = 1 /\ left'[q] = FALSE
           /\ \A r \in Queries \ {q} : /\ stage'[r] = stage[r] /\ chain'[r] = chain[r]
                                       /\ at'[r] = at[r] /\ todo'[r] = todo[r]
                                       /\ left'[r] = left[r] /\ spent'[r] = spent[r]
<1>1. <<>> \in Seq(Upstreams) /\ 0 \in 0..Budget /\ 0 \in 0..MaxRetries
  BY HealthAssumption DEF HealthAssumption
<1> QED BY <1>1 DEF Return, Goto, TypeOK

(* What is to be shown of a query that is on its way, given its requests.    *)
LEMMA OnItsWay ==
    ASSUME NEW q \in Queries, NEW T, Trying(q)' = T, IsFiniteSet(T),
           Cardinality(T) <= IF Parallel' THEN MaxParallel ELSE 1,
           chain'[q] \in Chains, at'[q] \in DOMAIN chain'[q], stage'[q] \in {"select", "claim", "wait"},
           left'[q] => Parallel' /\ spent'[q] = Budget,
           stage'[q] \in {"select", "claim"} => T = {} \/ left'[q],
           stage'[q] = "claim" => todo'[q] = <<>>,
           stage'[q] = "wait" => Members(todo'[q]) \subseteq Members(Pool(q)'),
           stage'[q] = "wait" /\ ~left'[q] => T \subseteq Members(Pool(q)'),
           stage'[q] = "wait" /\ ~left'[q] /\ Parallel' => Cardinality(T) + Len(todo'[q]) <= MaxParallel
    PROVE  HealthOf(q)'
  BY DEF HealthOf

(* A step between two pools, or into one, sends nothing.                     *)
LEMMA SendsNothing ==
    ASSUME NEW q \in Queries, HealthOf(q), UNCHANGED mode, tries'[q] = tries[q], Trying(q) = {} \/ left'[q],
           left'[q] => Parallel /\ spent'[q] = Budget,
           chain'[q] \in Chains, at'[q] \in DOMAIN chain'[q], stage'[q] \in {"select", "claim", "wait"},
           stage'[q] = "claim" => todo'[q] = <<>>,
           stage'[q] = "wait" => Members(todo'[q]) \subseteq Members(Pool(q)'),
           stage'[q] = "wait" /\ Parallel => Len(todo'[q]) \in Nat /\ Len(todo'[q]) <= MaxParallel
    PROVE  HealthOf(q)'
<1>1. PICK T : T = Trying(q)
  OBVIOUS
<1>2. Trying(q)' = T /\ Parallel' = Parallel
  BY <1>1 DEF Trying, Parallel
<1>3. IsFiniteSet(T) /\ Cardinality(T) <= IF Parallel THEN MaxParallel ELSE 1
  BY <1>1 DEF HealthOf
<1>4. ~left'[q] => T = {} /\ Cardinality(T) = 0
  BY <1>1, FS_EmptySet
<1>5. stage'[q] = "wait" /\ ~left'[q] /\ Parallel => Cardinality(T) + Len(todo'[q]) <= MaxParallel
  BY <1>4
<1> QED BY <1>1, <1>2, <1>3, <1>4, <1>5, OnItsWay

LEMMA ArriveKeeps ==
    ASSUME HealthInv, NEW q \in Queries, NEW c \in Chains, Arrive(q, c)
    PROVE  HealthInv'
<1>1. TypeOK'
  BY DEF HealthInv, TypeOK, Arrive, Goto, health
<1>2. ASSUME NEW r \in Queries \ {q} PROVE HealthOf(r)'
  BY OthersStand DEF HealthInv, TypeOK, Arrive, Goto, health
<1>3. HealthOf(q)'
  <2>1. /\ stage'[q] = "select" /\ chain'[q] = c /\ at'[q] = 1 /\ tries'[q] = tries[q] /\ Trying(q) = {}
        /\ UNCHANGED mode /\ left'[q] = left[q] /\ spent'[q] = spent[q]
    BY DEF HealthInv, HealthOf, TypeOK, Arrive, Goto, health
  <2>2. 1 \in DOMAIN c
    BY HealthAssumption DEF HealthAssumption
  <2>3. HealthOf(q) /\ (left[q] => Parallel /\ spent[q] = Budget)
    BY DEF HealthInv, HealthOf
  <2> QED BY <2>1, <2>2, <2>3, SendsNothing
<1> QED BY <1>1, <1>2, <1>3 DEF HealthInv

LEMMA SelectKeeps ==
    ASSUME HealthInv, NEW q \in Queries, Select(q)
    PROVE  HealthInv'
<1>1. PICK p : p = Pool(q)
  OBVIOUS
<1>2. p \in Seq(Upstreams) /\ p # <<>>
  BY <1>1, PoolFacts DEF HealthInv, HealthOf, Select, Pool
<1>3. PICK s \in Selections(p) :
        todo' = [todo EXCEPT ![q] = IF Parallel THEN AtMost(s, MaxParallel) ELSE s]
  BY <1>1 DEF Select
<1>4. PICK t : t = IF Parallel THEN AtMost(s, MaxParallel) ELSE s
  OBVIOUS
<1>5. s \in Seq(Upstreams) /\ Members(s) \subseteq Members(p)
  BY <1>2, PickedFacts DEF HealthInv, TypeOK
<1>6. t \in Seq(Upstreams) /\ Members(t) \subseteq Members(p) /\ (Parallel => Len(t) <= MaxParallel)
  BY <1>4, <1>5, AtMostFacts, HealthAssumption DEF HealthAssumption
<1>7. todo' = [todo EXCEPT ![q] = t]
  BY <1>3, <1>4
<1>8. /\ UNCHANGED <<mode, chain, at, tries, left, spent>> /\ stage[q] = "select"
      /\ stage' = [stage EXCEPT ![q] = IF todo'[q] = <<>> THEN "claim" ELSE "wait"]
  BY DEF Select, health, locals, Goto
<1>9. TypeOK'
  BY <1>6, <1>7, <1>8 DEF HealthInv, TypeOK, Select, health, locals
<1>10. ASSUME NEW r \in Queries \ {q} PROVE HealthOf(r)'
  BY <1>7, <1>8, OthersStand DEF HealthInv, TypeOK
<1>11. HealthOf(q)'
  <2>1. todo'[q] = t /\ stage'[q] = IF t = <<>> THEN "claim" ELSE "wait"
    BY <1>7, <1>8 DEF HealthInv, TypeOK
  <2>2. /\ HealthOf(q) /\ (Trying(q) = {} \/ left[q]) /\ Pool(q)' = p
        /\ (left[q] => Parallel /\ spent[q] = Budget)
    BY <1>1, <1>8 DEF HealthInv, HealthOf, Pool
  <2>3. chain'[q] \in Chains /\ at'[q] \in DOMAIN chain'[q] /\ stage'[q] \in {"claim", "wait"}
    BY <1>8, <2>1 DEF HealthInv, HealthOf
  <2>4. Len(t) \in Nat /\ (stage'[q] = "claim" => t = <<>>)
    BY <1>6, <2>1
  <2>5. Members(todo'[q]) \subseteq Members(Pool(q)')
    BY <1>6, <2>1, <2>2
  <2> QED BY <1>6, <1>8, <2>1, <2>2, <2>3, <2>4, <2>5, SendsNothing
<1> QED BY <1>9, <1>10, <1>11 DEF HealthInv

LEMMA ClaimKeeps ==
    ASSUME HealthInv, NEW q \in Queries, Claim(q)
    PROVE  HealthInv'
<1>1. PICK p : p = Pool(q)
  OBVIOUS
<1>2. p \in Seq(Upstreams) /\ Len(p) \in Nat \ {0} /\ p \in Pools
  BY <1>1, PoolFacts DEF HealthInv, HealthOf, Claim, Pool
<1>3. PICK u : u = p[1 + (probe_cursor % Len(p))]
  OBVIOUS
<1>4. u \in Upstreams /\ u \in Members(p)
  <2>1. 1 + (probe_cursor % Len(p)) \in 1..Len(p)
    BY <1>2, HealthAssumption DEF HealthAssumption, HealthInv, TypeOK
  <2> QED BY <1>2, <1>3, <2>1 DEF Members
<1>5. /\ UNCHANGED <<mode, up, unhealthy_for, chain, at, got, spent, network, retries, left, tries>>
      /\ stage[q] = "claim" /\ stage' = [stage EXCEPT ![q] = "wait"]
      /\ \/ /\ probe_wait' = ProbeInterval /\ probe_cursor' = (probe_cursor + 1) % CursorRange
            /\ todo' = [todo EXCEPT ![q] = <<u>>] /\ probed' = [probed EXCEPT ![p] = ProbeInterval]
         \/ UNCHANGED <<probe_wait, probe_cursor, todo, probed>>
  BY <1>1, <1>3 DEF Claim, Goto, locals
<1>6. <<u>> \in Seq(Upstreams) /\ Len(<<u>>) = 1 /\ Members(<<u>>) = {u}
  BY <1>4 DEF Members
<1>7. (probe_cursor + 1) % CursorRange \in 0..(CursorRange - 1)
  BY HealthAssumption DEF HealthAssumption, HealthInv, TypeOK
<1>8. TypeOK'
  <2>1. probe_wait' \in 0..ProbeInterval /\ probe_cursor' \in 0..(CursorRange - 1)
    BY <1>5, <1>7, HealthAssumption DEF HealthAssumption, HealthInv, TypeOK
  <2>2. todo' \in [Queries -> Seq(Upstreams)]
    BY <1>5, <1>6 DEF HealthInv, TypeOK
  <2>3. probed' \in [Pools -> 0..ProbeInterval]
    <3>1. probed' = probed \/ probed' = [probed EXCEPT ![p] = ProbeInterval]
      BY <1>5
    <3>2. ProbeInterval \in 0..ProbeInterval /\ probed \in [Pools -> 0..ProbeInterval]
      BY HealthAssumption DEF HealthAssumption, HealthInv, TypeOK
    <3> QED BY <3>1, <3>2
  <2>4. stage' \in [Queries -> {"idle", "select", "claim", "wait", "answered", "failed"}]
    BY <1>5 DEF HealthInv, TypeOK
  <2> QED BY <1>5, <2>1, <2>2, <2>3, <2>4 DEF HealthInv, TypeOK
<1>9. ASSUME NEW r \in Queries \ {q} PROVE HealthOf(r)'
  BY <1>5, OthersStand DEF HealthInv, TypeOK
<1>10. HealthOf(q)'
  <2>1. stage'[q] = "wait" /\ (todo'[q] = <<u>> \/ todo'[q] = <<>>)
    BY <1>5 DEF HealthInv, HealthOf, TypeOK
  <2>2. /\ HealthOf(q) /\ (Trying(q) = {} \/ left[q]) /\ Pool(q)' = p
        /\ chain'[q] \in Chains /\ at'[q] \in DOMAIN chain'[q]
        /\ (left[q] => Parallel /\ spent[q] = Budget)
    BY <1>1, <1>5 DEF HealthInv, HealthOf, Pool
  <2>3. Len(todo'[q]) \in {0, 1}
    BY <1>6, <2>1
  <2>4. Members(todo'[q]) \subseteq {u}
    BY <1>6, <2>1 DEF Members
  <2>5. Len(todo'[q]) \in Nat /\ Len(todo'[q]) <= MaxParallel
    <3>1. PICK n \in {0, 1} : n = Len(todo'[q])
      BY <2>3
    <3>2. n \in Nat /\ n <= MaxParallel
      BY HealthAssumption DEF HealthAssumption
    <3> QED BY <3>1, <3>2
  <2>6. Members(todo'[q]) \subseteq Members(Pool(q)')
    BY <1>4, <2>2, <2>4
  <2> QED BY <1>5, <2>1, <2>2, <2>5, <2>6, SendsNothing
<1> QED BY <1>8, <1>9, <1>10 DEF HealthInv

(* A request goes out: the query asked for it, and has one less to ask.      *)
LEMMA RequestKeeps ==
    ASSUME HealthInv, NEW q \in Queries, Request(q), Parallel \/ Trying(q) = {},
           NEW t \in Seq(Upstreams), todo' = [todo EXCEPT ![q] = t],
           Members(t) \subseteq Members(todo[q]), Len(t) + 1 <= Len(todo[q])
    PROVE  HealthInv'
<1>1. PICK u : u = Head(todo[q])
  OBVIOUS
<1>2. todo[q] \in Seq(Upstreams) /\ todo[q] # <<>>
  BY DEF HealthInv, TypeOK, Request
<1>3. u \in Upstreams /\ u \in Members(todo[q]) /\ Len(todo[q]) \in Nat
  BY <1>1, <1>2 DEF Members
<1>4. PICK x \in {"sent", "lost"} : tries' = [tries EXCEPT ![q][u] = x]
  BY <1>1 DEF Request
<1>5. /\ tries' \in [Queries -> [Upstreams -> {"none", "sent", "lost", "marked"}]]
      /\ Trying(q)' = Trying(q) \cup {u} /\ \A r \in Queries \ {q} : tries'[r] = tries[r]
  BY <1>3, <1>4, TriesChanged DEF HealthInv
<1>6. /\ UNCHANGED <<mode, up, unhealthy_for, probe_wait, probe_cursor, chain, at, got, spent, network,
                     retries, left, stage, probed>>
      /\ stage[q] = "wait" /\ spent[q] < Budget
  BY DEF Request, health, locals
<1>7. todo' \in [Queries -> Seq(Upstreams)] /\ todo'[q] = t /\ \A r \in Queries \ {q} : todo'[r] = todo[r]
  BY DEF HealthInv, TypeOK
<1>8. TypeOK'
  BY <1>5, <1>6, <1>7 DEF HealthInv, TypeOK
<1>9. ASSUME NEW r \in Queries \ {q} PROVE HealthOf(r)'
  BY <1>5, <1>6, <1>7, OthersStand DEF HealthInv
<1>10. HealthOf(q)'
  <2>0. ~left[q]
    BY <1>6, HealthAssumption DEF HealthInv, HealthOf, TypeOK, HealthAssumption
  <2>1. /\ chain[q] \in Chains /\ at[q] \in DOMAIN chain[q] /\ IsFiniteSet(Trying(q))
        /\ Trying(q) \subseteq Members(Pool(q)) /\ Members(todo[q]) \subseteq Members(Pool(q))
        /\ (Parallel => Cardinality(Trying(q)) + Len(todo[q]) <= MaxParallel)
    BY <1>6, <2>0 DEF HealthInv, HealthOf
  <2>2. Pool(q)' = Pool(q) /\ Parallel' = Parallel
    BY <1>6 DEF Pool, Parallel
  <2>3. PICK T : T = Trying(q) \cup {u}
    OBVIOUS
  <2>4. PICK k \in Nat : k = Cardinality(Trying(q))
    BY <2>1, FS_CardinalityType
  <2>15. PICK m \in Nat : m = Cardinality(T)
    BY <2>1, <2>3, OneMore
  <2>16. PICK n \in Nat : n = Len(todo[q])
    BY <1>3
  <2>17. PICK l \in Nat : l = Len(t)
    OBVIOUS
  <2>5. IsFiniteSet(T) /\ m <= k + 1
    BY <2>1, <2>3, <2>4, <2>15, OneMore
  <2>6. Parallel => k + n <= MaxParallel
    BY <2>1, <2>4, <2>16
  <2>7. l + 1 <= n
    BY <2>16, <2>17
  <2>8. ~Parallel => k = 0
    BY <2>4, FS_EmptySet
  <2>9. MaxParallel \in Nat
    BY HealthAssumption DEF HealthAssumption
  <2>10. m <= IF Parallel THEN MaxParallel ELSE 1
    BY <2>5, <2>6, <2>7, <2>8, <2>9
  <2>11. Parallel => m + l <= MaxParallel
    BY <2>5, <2>6, <2>7, <2>9
  <2>12. T \subseteq Members(Pool(q)') /\ Members(todo'[q]) \subseteq Members(Pool(q)')
    BY <1>3, <1>7, <2>1, <2>2, <2>3
  <2>13. /\ stage'[q] = "wait" /\ chain'[q] \in Chains /\ at'[q] \in DOMAIN chain'[q] /\ Trying(q)' = T
         /\ left'[q] = FALSE
    BY <1>5, <1>6, <2>0, <2>1, <2>3 DEF HealthInv, TypeOK
  <2>14. /\ Cardinality(T) <= IF Parallel' THEN MaxParallel ELSE 1
         /\ (Parallel' => Cardinality(T) + Len(todo'[q]) <= MaxParallel)
    BY <1>7, <2>2, <2>15, <2>17, <2>10, <2>11
  <2> QED BY <2>5, <2>12, <2>13, <2>14, OnItsWay
<1> QED BY <1>8, <1>9, <1>10 DEF HealthInv

LEMMA SendKeeps ==
    ASSUME HealthInv, NEW q \in Queries, Send(q) \/ SendLast(q)
    PROVE  HealthInv'
<1>1. Request(q) /\ (Parallel \/ Trying(q) = {}) /\ todo[q] \in Seq(Upstreams) /\ todo[q] # <<>>
  BY DEF Send, SendLast, Request, HealthInv, TypeOK
<1>2. CASE Send(q)
  <2>1. PICK t : t = Tail(todo[q])
    OBVIOUS
  <2>2. t \in Seq(Upstreams) /\ Len(t) + 1 <= Len(todo[q]) /\ Members(t) \subseteq Members(todo[q])
    BY <1>1, <2>1 DEF Members
  <2>3. todo' = [todo EXCEPT ![q] = t]
    BY <1>2, <2>1 DEF Send
  <2> QED BY <1>1, <2>2, <2>3, RequestKeeps
<1>3. CASE SendLast(q)
  <2>1. <<>> \in Seq(Upstreams) /\ Len(<<>>) + 1 <= Len(todo[q]) /\ Members(<<>>) \subseteq Members(todo[q])
    BY <1>1 DEF Members
  <2>2. todo' = [todo EXCEPT ![q] = <<>>]
    BY <1>3 DEF SendLast
  <2> QED BY <1>1, <2>1, <2>2, RequestKeeps
<1> QED BY <1>2, <1>3

(* A request that is over takes nothing from what is bounded.                *)
LEMMA FewerOut ==
    ASSUME NEW q \in Queries, HealthOf(q), UNCHANGED mode, stage'[q] = stage[q], chain'[q] = chain[q],
           at'[q] = at[q], todo'[q] = todo[q], Trying(q)' \subseteq Trying(q), left'[q] = left[q],
           left[q] => spent'[q] = spent[q], Len(todo[q]) \in Nat
    PROVE  HealthOf(q)'
<1>1. Pool(q)' = Pool(q) /\ Parallel' = Parallel
  BY DEF Pool, Parallel
<1>2. PICK T : T = Trying(q)'
  OBVIOUS
<1>3. IsFiniteSet(Trying(q)) /\ T \subseteq Trying(q)
  BY <1>2 DEF HealthOf
<1>4. PICK k, m, l \in Nat : k = Cardinality(Trying(q)) /\ m = Cardinality(T) /\ l = Len(todo[q])
  BY <1>3, NoMore
<1>5. IsFiniteSet(T) /\ m <= k
  BY <1>3, <1>4, NoMore
<1>6. MaxParallel \in Nat
  BY HealthAssumption DEF HealthAssumption
<1>7. (k <= IF Parallel THEN MaxParallel ELSE 1) /\ (stage[q] = "wait" /\ ~left[q] /\ Parallel => k + l <= MaxParallel)
  BY <1>4 DEF HealthOf
<1>8. (m <= IF Parallel THEN MaxParallel ELSE 1) /\ (stage[q] = "wait" /\ ~left[q] /\ Parallel => m + l <= MaxParallel)
  BY <1>5, <1>6, <1>7
<1>9. /\ stage[q] = "wait" /\ ~left[q] => T \subseteq Members(Pool(q))
      /\ stage[q] = "wait" => Members(todo[q]) \subseteq Members(Pool(q))
      /\ left[q] => Parallel /\ spent[q] = Budget
  BY <1>3 DEF HealthOf
<1>10. stage[q] \in {"select", "claim"} => T = {} \/ left[q]
  BY <1>3 DEF HealthOf
<1>11. /\ IF stage[q] \in {"select", "claim", "wait"}
           THEN chain[q] \in Chains /\ at[q] \in DOMAIN chain[q]
           ELSE at[q] = 1
       /\ stage[q] = "claim" => todo[q] = <<>>
  BY DEF HealthOf
<1> QED BY <1>1, <1>2, <1>4, <1>5, <1>8, <1>9, <1>10, <1>11 DEF HealthOf

(* The query is over; requests may still be out.                             *)
LEMMA Returned ==
    ASSUME NEW q \in Queries, HealthOf(q), UNCHANGED mode, stage'[q] \in {"answered", "failed"}, at'[q] = 1,
           Trying(q)' \subseteq Trying(q), left'[q] = FALSE
    PROVE  HealthOf(q)'
<1>1. Parallel' = Parallel
  BY DEF Parallel
<1>2. PICK T : T = Trying(q)'
  OBVIOUS
<1>3. IsFiniteSet(Trying(q)) /\ T \subseteq Trying(q)
  BY <1>2 DEF HealthOf
<1>4. PICK k, m \in Nat : k = Cardinality(Trying(q)) /\ m = Cardinality(T)
  BY <1>3, NoMore
<1>5. IsFiniteSet(T) /\ m <= k
  BY <1>3, <1>4, NoMore
<1>6. k <= IF Parallel THEN MaxParallel ELSE 1
  BY <1>4 DEF HealthOf
<1>7. m <= IF Parallel THEN MaxParallel ELSE 1
  BY <1>5, <1>6, HealthAssumption DEF HealthAssumption
<1> QED BY <1>1, <1>2, <1>4, <1>5, <1>7 DEF HealthOf

(* A query returns, with its last answer or without one.                     *)
LEMMA ReturnKeeps ==
    ASSUME HealthInv, NEW q \in Queries, NEW s \in {"answered", "failed"}, Return(q, s),
           tries' \in [Queries -> [Upstreams -> {"none", "sent", "lost", "marked"}]],
           Trying(q)' \subseteq Trying(q), \A r \in Queries \ {q} : tries'[r] = tries[r],
           UNCHANGED <<mode, up, unhealthy_for, probe_cursor, probed>>, probe_wait' \in 0..ProbeInterval
    PROVE  HealthInv'
<1>1. TypeOK /\ \A r \in Queries : HealthOf(r)
  BY DEF HealthInv
<1>2. /\ stage' \in [Queries -> {"idle", "select", "claim", "wait", "answered", "failed"}]
      /\ chain' \in [Queries -> Chains \cup {<<>>}] /\ at' \in [Queries -> Nat \ {0}]
      /\ todo' \in [Queries -> Seq(Upstreams)] /\ got' \in [Queries -> BOOLEAN]
      /\ spent' \in [Queries -> 0..Budget] /\ network' \in [Queries -> SUBSET Nat]
      /\ retries' \in [Queries -> 0..MaxRetries] /\ left' \in [Queries -> BOOLEAN]
      /\ stage'[q] = s /\ at'[q] = 1 /\ left'[q] = FALSE
      /\ \A r \in Queries \ {q} : /\ stage'[r] = stage[r] /\ chain'[r] = chain[r]
                                  /\ at'[r] = at[r] /\ todo'[r] = todo[r]
                                  /\ left'[r] = left[r] /\ spent'[r] = spent[r]
  BY <1>1, ReturnFacts
<1>3. TypeOK'
  BY <1>1, <1>2 DEF TypeOK
<1>4. ASSUME NEW r \in Queries \ {q} PROVE HealthOf(r)'
  BY <1>1, <1>2, OthersStand
<1>5. HealthOf(q)'
  BY <1>1, <1>2, Returned
<1> QED BY <1>3, <1>4, <1>5 DEF HealthInv

LEMMA ReceiveKeeps ==
    ASSUME HealthInv, NEW q \in Queries, NEW u \in Upstreams, Receive(q, u)
    PROVE  HealthInv'
<1>1. TypeOK /\ \A r \in Queries : HealthOf(r)
  BY DEF HealthInv
<1>2. /\ tries[q][u] = "sent" /\ tries' = [tries EXCEPT ![q][u] = "marked"]
      /\ unhealthy_for' = [unhealthy_for EXCEPT ![u] = 0]
      /\ probed' = [p \in Pools |-> IF u \in Members(p) THEN 0 ELSE probed[p]]
      /\ UNCHANGED <<mode, up, probe_wait, probe_cursor, stage, chain, at, got, spent, network, retries,
                     left, todo>>
  BY DEF Receive, locals
<1>3. /\ tries' \in [Queries -> [Upstreams -> {"none", "sent", "lost", "marked"}]]
      /\ Trying(q)' = Trying(q) \cup {u} /\ \A r \in Queries \ {q} : tries'[r] = tries[r]
  BY <1>1, <1>2, TriesChanged
<1>4. Trying(q)' \subseteq Trying(q)
  BY <1>2, <1>3 DEF Trying
<1>5. unhealthy_for' \in [Upstreams -> 0..Backoff] /\ probed' \in [Pools -> 0..ProbeInterval]
  BY <1>1, <1>2, HealthAssumption DEF HealthAssumption, TypeOK
<1>6. TypeOK'
  BY <1>1, <1>2, <1>3, <1>5 DEF TypeOK
<1>7. ASSUME NEW r \in Queries \ {q} PROVE HealthOf(r)'
  BY <1>1, <1>2, <1>3, OthersStand
<1>8. Len(todo[q]) \in Nat
  BY <1>1 DEF TypeOK
<1>9. HealthOf(q)'
  BY <1>1, <1>2, <1>4, <1>8, FewerOut
<1> QED BY <1>6, <1>7, <1>9 DEF HealthInv

LEMMA AnsweredKeeps ==
    ASSUME HealthInv, NEW q \in Queries, NEW u \in Upstreams, Answered(q, u)
    PROVE  HealthInv'
<1>1. TypeOK /\ \A r \in Queries : HealthOf(r)
  BY DEF HealthInv
<1>2. /\ tries' = [tries EXCEPT ![q][u] = "none"] /\ probe_wait' = 0
      /\ UNCHANGED <<mode, up, unhealthy_for, probe_cursor, probed>>
  BY Zenon DEF Answered
<1>3. /\ tries' \in [Queries -> [Upstreams -> {"none", "sent", "lost", "marked"}]]
      /\ Trying(q)' = Trying(q) \ {u} /\ \A r \in Queries \ {q} : tries'[r] = tries[r]
  BY <1>1, <1>2, TriesChanged
<1>4. probe_wait' \in 0..ProbeInterval /\ Trying(q)' \subseteq Trying(q) /\ Len(todo[q]) \in Nat
  BY <1>1, <1>2, <1>3, HealthAssumption DEF HealthAssumption, TypeOK
<1>5. CASE ~(Heard(q) /\ mode # "fastest_addr")
  <2>1. /\ UNCHANGED <<stage, todo, chain, at, spent, network, retries, left>>
        /\ (got' = got \/ got' = [got EXCEPT ![q] = TRUE])
    BY <1>5 DEF Answered, locals
  <2>2. TypeOK'
    BY <1>1, <1>2, <1>3, <1>4, <2>1 DEF TypeOK
  <2>3. ASSUME NEW r \in Queries \ {q} PROVE HealthOf(r)'
    BY <1>1, <1>2, <1>3, <2>1, OthersStand
  <2>4. HealthOf(q)'
    BY <1>1, <1>2, <1>4, <2>1, FewerOut
  <2> QED BY <2>2, <2>3, <2>4 DEF HealthInv
<1>6. CASE Heard(q) /\ mode # "fastest_addr"
  <2>1. Return(q, "answered")
    BY <1>6 DEF Answered
  <2> QED BY <1>2, <1>3, <1>4, <2>1, ReturnKeeps
<1> QED BY <1>5, <1>6

LEMMA FailKeeps ==
    ASSUME HealthInv, NEW q \in Queries, NEW u \in Upstreams, NEW e \in Errors, Fail(q, u, e)
    PROVE  HealthInv'
<1>1. TypeOK /\ \A r \in Queries : HealthOf(r)
  BY DEF HealthInv
<1>2. /\ tries' = [tries EXCEPT ![q][u] = "none"]
      /\ unhealthy_for' = [unhealthy_for EXCEPT ![u] = Backoff]
      /\ UNCHANGED <<mode, up, probe_wait, probe_cursor, stage, chain, at, todo, got, retries, left, probed>>
      /\ (left[q] => spent' = spent) /\ (\A r \in Queries \ {q} : spent'[r] = spent[r])
  BY <1>1 DEF Fail, BackedOff, Heard, TypeOK
<1>3. /\ tries' \in [Queries -> [Upstreams -> {"none", "sent", "lost", "marked"}]]
      /\ Trying(q)' = Trying(q) \ {u} /\ \A r \in Queries \ {q} : tries'[r] = tries[r]
  BY <1>1, <1>2, TriesChanged
<1>4. network' \in [Queries -> SUBSET Nat]
  <2>1. PICK N : \/ network' = [network EXCEPT ![q] = N] /\ N \in {network[q] \cup {at[q]}, network[q] \ {at[q]}}
                 \/ network' = network
    BY DEF Fail
  <2>2. network \in [Queries -> SUBSET Nat] /\ network[q] \in SUBSET Nat /\ at[q] \in Nat
    BY <1>1 DEF TypeOK
  <2>3. CASE network' = network
    BY <2>2, <2>3
  <2>4. CASE network' = [network EXCEPT ![q] = N] /\ N \in {network[q] \cup {at[q]}, network[q] \ {at[q]}}
    <3>1. N \in SUBSET Nat
      BY <2>2, <2>4
    <3> QED BY <2>2, <2>4, <3>1
  <2> QED BY <2>1, <2>3, <2>4
<1>5. spent' \in [Queries -> 0..Budget]
  <2>1. PICK n : \/ spent' = [spent EXCEPT ![q] = n] /\ (n = spent[q] \/ (n = spent[q] + 1 /\ spent[q] < Budget))
                 \/ spent' = spent
    BY DEF Fail
  <2>2. spent[q] \in 0..Budget /\ Budget \in Nat
    BY <1>1, HealthAssumption DEF TypeOK, HealthAssumption
  <2>3. (n = spent[q] \/ (n = spent[q] + 1 /\ spent[q] < Budget)) => n \in 0..Budget
    BY <2>2
  <2> QED BY <1>1, <2>1, <2>3 DEF TypeOK
<1>6. unhealthy_for' \in [Upstreams -> 0..Backoff]
  BY <1>1, <1>2, HealthAssumption DEF HealthAssumption, TypeOK
<1>7. TypeOK'
  BY <1>1, <1>2, <1>3, <1>4, <1>5, <1>6 DEF TypeOK
<1>8. ASSUME NEW r \in Queries \ {q} PROVE HealthOf(r)'
  BY <1>1, <1>2, <1>3, OthersStand
<1>9. Trying(q)' \subseteq Trying(q) /\ Len(todo[q]) \in Nat
  BY <1>1, <1>3 DEF TypeOK
<1>10. HealthOf(q)'
  BY <1>1, <1>2, <1>9, FewerOut
<1> QED BY <1>7, <1>8, <1>10 DEF HealthInv

(* A pool is left: all its requests are back.                                *)
LEMMA FallbackKeeps ==
    ASSUME HealthInv, NEW q \in Queries, Fallback(q) \/ Retry(q)
    PROVE  HealthInv'
<1>1. TypeOK /\ \A r \in Queries : HealthOf(r)
  BY DEF HealthInv
<1>2. /\ stage' = [stage EXCEPT ![q] = "select"] /\ todo' = [todo EXCEPT ![q] = <<>>]
      /\ UNCHANGED <<mode, up, unhealthy_for, probe_wait, probe_cursor, chain, tries, got, spent, probed>>
      /\ stage[q] = "wait" /\ (Trying(q) = {} \/ (Parallel /\ spent[q] = Budget))
  BY DEF Fallback, Retry, PoolDone, Goto, health
<1>11. PICK b \in BOOLEAN : /\ left' = [left EXCEPT ![q] = b]
                            /\ (Trying(q) = {} \/ b) /\ (b => Parallel /\ spent[q] = Budget)
  <2>1. CASE Fallback(q)
    BY <1>2, <2>1 DEF Fallback
  <2>2. CASE Retry(q)
    <3>1. left' = left /\ Trying(q) = {}
      BY <1>1, <1>2, <2>2, HealthAssumption DEF Retry, MayRetry, TypeOK, HealthAssumption
    <3>2. left' = [left EXCEPT ![q] = left[q]] /\ left[q] \in BOOLEAN
      BY <1>1, <3>1 DEF TypeOK
    <3>3. left[q] => Parallel /\ spent[q] = Budget
      BY <1>1 DEF HealthOf
    <3> QED BY <3>1, <3>2, <3>3
  <2> QED BY <2>1, <2>2
<1>3. chain[q] \in Chains /\ at[q] \in DOMAIN chain[q]
  BY <1>1, <1>2 DEF HealthOf
<1>4. DOMAIN chain[q] = 1..Len(chain[q]) /\ Len(chain[q]) \in Nat /\ 1 \in DOMAIN chain[q]
  BY <1>3, PoolFacts
<1>5. PICK i \in DOMAIN chain[q] : at' = [at EXCEPT ![q] = i]
  BY <1>3, <1>4 DEF Fallback, Retry
<1>6. network' \in [Queries -> SUBSET Nat] /\ retries' \in [Queries -> 0..MaxRetries]
  <2>1. CASE Fallback(q)
    BY <1>1, <2>1 DEF Fallback, TypeOK
  <2>2. CASE Retry(q)
    <3>1. network' = [network EXCEPT ![q] = {}] /\ retries' = [retries EXCEPT ![q] = retries[q] + 1]
      BY <2>2 DEF Retry
    <3>2. retries[q] + 1 \in 0..MaxRetries
      BY <1>1, <2>2, HealthAssumption DEF Retry, MayRetry, TypeOK, HealthAssumption
    <3> QED BY <1>1, <3>1, <3>2 DEF TypeOK
  <2> QED BY <2>1, <2>2
<1>7. at' \in [Queries -> Nat \ {0}] /\ todo' \in [Queries -> Seq(Upstreams)]
  BY <1>1, <1>2, <1>4, <1>5 DEF TypeOK
<1>8. TypeOK'
  BY <1>1, <1>2, <1>6, <1>7, <1>11 DEF TypeOK
<1>9. ASSUME NEW r \in Queries \ {q} PROVE HealthOf(r)'
  BY <1>1, <1>2, <1>5, <1>11, OthersStand DEF TypeOK
<1>10. HealthOf(q)'
  <2>1. stage'[q] = "select" /\ at'[q] = i /\ chain'[q] = chain[q] /\ left'[q] = b
    BY <1>1, <1>2, <1>5, <1>11 DEF TypeOK
  <2> QED BY <1>1, <1>2, <1>3, <1>5, <1>11, <2>1, SendsNothing
<1> QED BY <1>8, <1>9, <1>10 DEF HealthInv

LEMMA ReturnsKeep ==
    ASSUME HealthInv, NEW q \in Queries, Choose(q) \/ GiveUp(q)
    PROVE  HealthInv'
<1>1. PICK s \in {"answered", "failed"} : Return(q, s)
  BY DEF Choose, GiveUp
<1>2. UNCHANGED <<mode, up, unhealthy_for, probe_wait, probe_cursor, probed, tries>>
  BY DEF Choose, GiveUp, health
<1>3. Trying(q)' \subseteq Trying(q) /\ (\A r \in Queries \ {q} : tries'[r] = tries[r])
  BY <1>2 DEF Trying
<1>4. probe_wait' \in 0..ProbeInterval
      /\ tries' \in [Queries -> [Upstreams -> {"none", "sent", "lost", "marked"}]]
  BY <1>2 DEF HealthInv, TypeOK
<1> QED BY <1>1, <1>2, <1>3, <1>4, ReturnKeeps

(* Time and the upstreams touch no query.                                    *)
LEMMA WorldKeeps ==
    ASSUME HealthInv, Tick \/ (\E u \in Upstreams : Toggle(u)) \/ UNCHANGED vars
    PROVE  HealthInv'
<1>1. TypeOK /\ \A r \in Queries : HealthOf(r)
  BY DEF HealthInv
<1>2. UNCHANGED <<mode, probe_cursor, stage, chain, at, got, spent, network, retries, left, todo, tries>>
  BY DEF Tick, Toggle, vars, locals
<1>3. up' \subseteq Upstreams
  BY <1>1 DEF Tick, Toggle, vars, TypeOK
<1>4. \A n, b \in Nat : n \in 0..b => Less(n) \in 0..b
  BY DEF Less
<1>5. Backoff \in Nat /\ ProbeInterval \in Nat
  BY HealthAssumption DEF HealthAssumption
<1>6. unhealthy_for' \in [Upstreams -> 0..Backoff]
  BY <1>1, <1>4, <1>5 DEF Tick, Toggle, vars, TypeOK
<1>7. probe_wait' \in 0..ProbeInterval
  BY <1>1, <1>4, <1>5 DEF Tick, Toggle, vars, TypeOK
<1>8. probed' \in [Pools -> 0..ProbeInterval]
  BY <1>1, <1>4, <1>5 DEF Tick, Toggle, vars, TypeOK
<1>9. TypeOK'
  BY <1>1, <1>2, <1>3, <1>6, <1>7, <1>8 DEF TypeOK
<1>10. ASSUME NEW r \in Queries PROVE HealthOf(r)'
  BY <1>1, <1>2, OthersStand
<1> QED BY <1>9, <1>10 DEF HealthInv

(* The state of every query in flight is sound, whatever the pools, the      *)
(* failures and the limits of forward_query_with_fallback.                   *)
THEOREM HealthInvariant == Spec => []HealthInv
<1>1. ASSUME HealthInv, [Next]_vars PROVE HealthInv'
  <2>1. CASE \E q \in Queries : Ask(q)
    BY <1>1, <2>1, ArriveKeeps DEF Ask
  <2>2. ASSUME NEW q \in Queries, Step(q) PROVE HealthInv'
    <3>1. CASE Select(q)
      BY <1>1, <3>1, SelectKeeps
    <3>2. CASE Claim(q)
      BY <1>1, <3>2, ClaimKeeps
    <3>3. CASE Send(q) \/ SendLast(q)
      BY <1>1, <3>3, SendKeeps
    <3>4. CASE \E u \in Upstreams : Receive(q, u)
      BY <1>1, <3>4, ReceiveKeeps
    <3>5. CASE \E u \in Upstreams : Answered(q, u)
      BY <1>1, <3>5, AnsweredKeeps
    <3>6. CASE \E u \in Upstreams : \E e \in Errors : Fail(q, u, e)
      BY <1>1, <3>6, FailKeeps
    <3>7. CASE Fallback(q) \/ Retry(q)
      BY <1>1, <3>7, FallbackKeeps
    <3>8. CASE Choose(q) \/ GiveUp(q)
      BY <1>1, <3>8, ReturnsKeep
    <3> QED BY <2>2, <3>1, <3>2, <3>3, <3>4, <3>5, <3>6, <3>7, <3>8 DEF Step
  <2>3. CASE Tick \/ (\E u \in Upstreams : Toggle(u)) \/ UNCHANGED vars
    BY <1>1, <2>3, WorldKeeps
  <2> QED BY <1>1, <2>1, <2>2, <2>3 DEF Next
<1> QED BY HealthInitially, <1>1, PTL DEF Spec

(* A query waits for its own pool only, and never has more requests out at   *)
(* once than MAX_PARALLEL_UPSTREAMS_PER_QUERY, late ones included.           *)
THEOREM RequestsCorrect == Spec => []RequestsSound
<1>1. HealthInv => RequestsSound
  BY DEF HealthInv, HealthOf, RequestsSound, AsksItsPool, WireBounded, Heard
<1> QED BY <1>1, HealthInvariant, PTL

------------------------------------------------------------------------------
(* A step of the runs is one of the parts that it is composed of.            *)
LEMMA ServerParts ==
  [ServerNext]_<<svVars, seVars, fuVars, serverPart>> =>
    [SvNext]_svVars /\ [SeNext]_seVars /\ [FuNextStep]_fuVars
  BY DEF ServerNext, ServerPart, EventPart, ListPart

(* Server, security events and lists keep what each of them promises, beside *)
(* the others, for the system that the run checks.                          *)
THEOREM ServerSound == ServerSpec => [](SvThreadsSound /\ SeEventsKept /\ FuUpdateSound)
BY ServerParts, SvStarts0, SvStep, SvSoundOf, SeExactInitially, SeExactStep, SeExactKeeps, FuFirst, FuStep, FuSoundOf, PTL
   DEF ServerSpec, ServerInit

(* A step of the run is one of the bridge or of the console. *)
LEMMA RemoteParts ==
  [RemoteNext]_<<brVars, waVars, remotePart>> => [BrNext]_brVars /\ [WaNext]_waVars
  BY DEF RemoteNext, BridgePart, WebPart

(* The bridge and the web console are each what they are alone.             *)
THEOREM RemoteSound == RemoteSpec => []BrCallsTrue /\ WaGuarded
BY RemoteParts, BrFirst, BrStep, BrTrueOf, WaGuardedCorrect, PTL DEF RemoteSpec, RemoteInit, WaSpec

(* A step of the run is one of the five parts that judge and count a query. *)
LEMMA PolicyParts ==
  [PoliciesNext]_<<rmVars, rcVars, cpVars, acVars, dsVars, part>> =>
    [RmNext]_rmVars /\ [RcNext]_rcVars /\ [CpNext]_cpVars /\ [AcNext]_acVars /\ [DsNext]_dsVars
  BY DEF PoliciesNext, RulePart, CachePart, PolicyPart, LimitPart, StatisticsPart

(* The rules, their cache, the policies, the limit and the statistics keep   *)
(* what each of them promises, in the run that composes the five.            *)
THEOREM PoliciesSound ==
  PoliciesSpec =>
    RcCacheTrue /\ [](RmSearchRight /\ CpPoliciesRight /\ AcTypeOK /\ AcBucketIsExact /\ DsStatisticsRight)
<1>1. PoliciesSpec => RmSpec /\ RcSpec /\ CpSpec /\ AcSpec /\ DsSpec
  BY PolicyParts, PTL DEF PoliciesSpec, PoliciesInit, RmSpec, RcSpec, CpSpec, AcSpec, DsSpec
<1> QED BY <1>1, RmSearchCorrect, RcCacheCorrect, CpPoliciesCorrect, AcLimitExact, DsStatisticsCorrect, PTL
=============================================================================
