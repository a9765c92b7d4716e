--------------------------- MODULE UpstreamHealth ---------------------------
(***************************************************************************)
(* Forwarding a query and the health of upstream servers:                  *)
(* src-tauri/src/dns/upstream.rs and forward_query_with_fallback of        *)
(* worker.rs.  A query goes through a chain of pools (the main pool and    *)
(* the fallback pool, or the pool of a route).  In each it tries the       *)
(* upstreams that are not backing off, one after the other or in parallel; *)
(* when all are backing off, one half-open probe is let through per        *)
(* interval, for all upstreams of the process together.  A query that      *)
(* fails because the network is not there yet goes through its chain       *)
(* again.                                                                  *)
(*                                                                         *)
(* The two deadlines, RuntimeUpstream.unhealthy_until and                  *)
(* HALF_OPEN_PROBE_AFTER, are kept as the seconds that remain; Tick is the *)
(* clock.  They are read and written without a lock, and every such access *)
(* is a step of its own, except that the health of a pool is read at once. *)
(***************************************************************************)
EXTENDS Naturals, Sequences, FiniteSets

CONSTANTS
    Queries,       \* forwarding threads
    Upstreams,
    Chains,        \* sequences of pools; a pool is a sequence of upstreams
    Modes,         \* the UpstreamMode values the server may be started with
    MaxParallel,   \* MAX_PARALLEL_UPSTREAMS_PER_QUERY
    Backoff,       \* UPSTREAM_FAILURE_BACKOFF_SECONDS
    ProbeInterval, \* UPSTREAM_HALF_OPEN_PROBE_INTERVAL_SECONDS
    Budget,        \* timed-out tries that fit in FORWARD_QUERY_TOTAL_TIMEOUT
    MaxRetries,    \* the number of NETWORK_UNAVAILABLE_RETRY_DELAYS
    CursorRange    \* a multiple of every pool's length

ASSUME HealthAssumption ==
    /\ Chains \subseteq Seq(Seq(Upstreams))
    /\ \A c \in Chains : c # <<>> /\ \A i \in DOMAIN c : c[i] # <<>>
    /\ \A c \in Chains : \A i \in DOMAIN c : CursorRange % Len(c[i]) = 0
    /\ Modes \subseteq {"load_balance", "parallel_requests", "fastest_addr"}
    /\ MaxRetries \in Nat
    /\ MaxParallel \in Nat \ {0}
    /\ Backoff \in Nat \ {0}
    /\ ProbeInterval \in Nat \ {0}
    /\ Budget \in Nat \ {0}
    /\ CursorRange \in Nat \ {0}

VARIABLES
    mode,           \* UpstreamMode, fixed while the server runs
    up,             \* the upstreams that answer
    unhealthy_for,  \* seconds until unhealthy_until
    probe_wait,     \* seconds until HALF_OPEN_PROBE_AFTER
    probe_cursor,   \* HALF_OPEN_PROBE_CURSOR modulo CursorRange
    stage,          \* where a query is
    chain,          \* the pools it may use
    at,             \* the one it uses now
    todo,           \* the upstreams it has selected and not tried
    tries,          \* its requests on the wire
    got,            \* fastest_addr: a response has come in
    spent,          \* tries that have timed out
    network,        \* the pools whose last error is a missing network
    retries,        \* how often it has gone through its chain again
    left,           \* the deadline has passed before its requests were back
    probed          \* history: seconds left in the probe window of a pool

health == <<mode, up, unhealthy_for, probe_wait, probe_cursor>>
vars == <<mode, up, unhealthy_for, probe_wait, probe_cursor, stage, chain, at,
          todo, tries, got, spent, network, retries, left, probed>>

Pools == UNION {{c[i] : i \in DOMAIN c} : c \in Chains}
Parallel == mode # "load_balance"
Errors == {"timeout", "network", "other"}
Members(p) == {p[i] : i \in DOMAIN p}

TypeOK ==
    /\ mode \in Modes
    /\ up \subseteq Upstreams
    /\ unhealthy_for \in [Upstreams -> 0..Backoff]
    /\ probe_wait \in 0..ProbeInterval
    /\ probe_cursor \in 0..(CursorRange - 1)
    /\ stage \in [Queries -> {"idle", "select", "claim", "wait", "answered",
                              "failed"}]
    /\ chain \in [Queries -> Chains \cup {<<>>}]
    /\ at \in [Queries -> Nat \ {0}]
    /\ todo \in [Queries -> Seq(Upstreams)]
    /\ tries \in [Queries -> [Upstreams -> {"none", "sent", "lost", "marked"}]]
    /\ got \in [Queries -> BOOLEAN]
    /\ spent \in [Queries -> 0..Budget]
    /\ network \in [Queries -> SUBSET Nat]
    /\ retries \in [Queries -> 0..MaxRetries]
    /\ left \in [Queries -> BOOLEAN]
    /\ probed \in [Pools -> 0..ProbeInterval]

Init ==
    /\ mode \in Modes
    /\ up \in SUBSET Upstreams
    /\ unhealthy_for = [u \in Upstreams |-> 0]
    /\ probe_wait = 0
    /\ probe_cursor = 0
    /\ stage = [q \in Queries |-> "idle"]
    /\ chain = [q \in Queries |-> <<>>]
    /\ at = [q \in Queries |-> 1]
    /\ todo = [q \in Queries |-> <<>>]
    /\ tries = [q \in Queries |-> [u \in Upstreams |-> "none"]]
    /\ got = [q \in Queries |-> FALSE]
    /\ spent = [q \in Queries |-> 0]
    /\ network = [q \in Queries |-> {}]
    /\ retries = [q \in Queries |-> 0]
    /\ left = [q \in Queries |-> FALSE]
    /\ probed = [p \in Pools |-> 0]

-----------------------------------------------------------------------------
Goto(q, s) == stage' = [stage EXCEPT ![q] = s]
Trying(q) == {u \in Upstreams : tries[q][u] # "none"}
Pool(q) == chain[q][at[q]]

locals == <<chain, at, got, spent, network, retries, left>>

(* forward_query_with_fallback returns; its local variables are gone. *)
Return(q, s) ==
    /\ Goto(q, s)
    /\ todo' = [todo EXCEPT ![q] = <<>>]
    /\ chain' = [chain EXCEPT ![q] = <<>>]
    /\ at' = [at EXCEPT ![q] = 1]
    /\ got' = [got EXCEPT ![q] = FALSE]
    /\ spent' = [spent EXCEPT ![q] = 0]
    /\ network' = [network EXCEPT ![q] = {}]
    /\ retries' = [retries EXCEPT ![q] = 0]
    /\ left' = [left EXCEPT ![q] = FALSE]

(* is_upstream_temporarily_unhealthy, negated. *)
Healthy(u) == unhealthy_for[u] = 0

(* Where a selection may start: the cursor of a pool moves with every      *)
(* query of every thread; fastest_addr always starts at the first.         *)
Starts(p) == IF mode = "fastest_addr" THEN {0} ELSE 0..(Len(p) - 1)

(* The healthy upstreams of a pool, in the order of their distance from a  *)
(* place to start at.                                                      *)
From(p, i, distance) == p[1 + ((i + distance) % Len(p))]
Distances(p, i) == {d \in 0..(Len(p) - 1) : Healthy(From(p, i, d))}
InOrder(S) ==
    {f \in [1..Cardinality(S) -> S] :
        \A j, k \in 1..Cardinality(S) : j < k => f[j] < f[k]}
Selections(p) ==
    UNION {{[k \in DOMAIN f |-> From(p, i, f[k])] :
                f \in InOrder(Distances(p, i))} : i \in Starts(p)}

AtMost(s, n) == SubSeq(s, 1, IF Len(s) < n THEN Len(s) ELSE n)

(* A query arrives, in a thread that has no request on the wire any more. *)
Arrive(q, c) ==
    /\ stage[q] \in {"idle", "answered", "failed"}
    /\ Trying(q) = {}
    /\ Goto(q, "select")
    /\ chain' = [chain EXCEPT ![q] = c]
    /\ UNCHANGED <<health, at, todo, tries, got, spent, network, retries,
                   left, probed>>

(* select_available_upstreams, up to the decision that a probe is needed. *)
Select(q) ==
    /\ stage[q] = "select"
    /\ \E s \in Selections(Pool(q)) :
          todo' = [todo EXCEPT ![q] = IF Parallel THEN AtMost(s, MaxParallel)
                                      ELSE s]
    /\ Goto(q, IF todo'[q] = <<>> THEN "claim" ELSE "wait")
    /\ UNCHANGED <<health, locals, tries, probed>>

(* A query that is turned away keeps its upstreams in backoff. *)
ClaimExtending(q) ==
    LET p == Pool(q) IN
    /\ stage[q] = "claim"
    /\ Goto(q, "wait")
    /\ IF probe_wait = 0
       THEN /\ probe_wait' = ProbeInterval
            /\ probe_cursor' = (probe_cursor + 1) % CursorRange
            /\ todo' = [todo EXCEPT ![q] = <<p[1 + (probe_cursor % Len(p))]>>]
            /\ probed' = [probed EXCEPT ![p] = ProbeInterval]
            /\ UNCHANGED unhealthy_for
       ELSE /\ unhealthy_for' = [u \in Upstreams |->
                  IF u \in Members(p) THEN Backoff ELSE unhealthy_for[u]]
            /\ UNCHANGED <<probe_wait, probe_cursor, todo, probed>>
    /\ UNCHANGED <<mode, up, locals, tries>>

(* try_claim_half_open_probe, a compare-and-swap: the winner probes the    *)
(* upstream at the shared cursor, the others have nothing to try.          *)
Claim(q) ==
    LET p == Pool(q) IN
    /\ stage[q] = "claim"
    /\ Goto(q, "wait")
    /\ IF probe_wait = 0
       THEN /\ probe_wait' = ProbeInterval
            /\ probe_cursor' = (probe_cursor + 1) % CursorRange
            /\ todo' = [todo EXCEPT ![q] = <<p[1 + (probe_cursor % Len(p))]>>]
            /\ probed' = [probed EXCEPT ![p] = ProbeInterval]
       ELSE UNCHANGED <<probe_wait, probe_cursor, todo, probed>>
    /\ UNCHANGED <<mode, up, unhealthy_for, locals, tries>>

(* The next request goes out.  It is lost if the upstream is down, even if *)
(* that recovers before the request has timed out.                         *)
Request(q) ==
    /\ stage[q] = "wait"
    /\ todo[q] # <<>> /\ spent[q] < Budget
    /\ tries' = [tries EXCEPT ![q][Head(todo[q])] =
                    IF Head(todo[q]) \in up THEN "sent" ELSE "lost"]
    /\ UNCHANGED <<health, locals, stage, probed>>

(* Mutant: the next upstream is asked before the last one has failed. *)
SendAtOnce(q) ==
    /\ Request(q)
    /\ todo' = [todo EXCEPT ![q] = Tail(@)]

(* In turn, or all of the selection at once. *)
Send(q) ==
    /\ Parallel \/ Trying(q) = {}
    /\ Request(q)
    /\ todo' = [todo EXCEPT ![q] = Tail(@)]

(* The task pool is full: the query's own thread sends this request, and   *)
(* the others are left out.                                                *)
SendLast(q) ==
    /\ Parallel
    /\ Request(q)
    /\ todo' = [todo EXCEPT ![q] = <<>>]

(* Mutant: what comes from a batch that was left counts for the next pool. *)
HeardLate(q) == stage[q] = "wait"

(* The query waits for the result of its requests. *)
Heard(q) == stage[q] = "wait" /\ ~left[q]

(* A valid answer: mark_upstream_available clears the backoff first. *)
Receive(q, u) ==
    /\ tries[q][u] = "sent" /\ u \in up
    /\ tries' = [tries EXCEPT ![q][u] = "marked"]
    /\ unhealthy_for' = [unhealthy_for EXCEPT ![u] = 0]
    /\ probed' = [p \in Pools |-> IF u \in Members(p) THEN 0 ELSE probed[p]]
    /\ UNCHANGED <<mode, up, probe_wait, probe_cursor, stage, locals, todo>>

(* reset_half_open_probe, then the answer goes to the query.  The first    *)
(* one ends it and cancels the requests that have not started, except in   *)
(* fastest_addr, which waits for all of them.                              *)
Answered(q, u) ==
    /\ tries[q][u] = "marked"
    /\ tries' = [tries EXCEPT ![q][u] = "none"]
    /\ probe_wait' = 0
    /\ CASE ~Heard(q) -> UNCHANGED <<stage, todo, locals>>
         [] Heard(q) /\ mode = "fastest_addr" ->
               /\ got' = [got EXCEPT ![q] = TRUE]
               /\ UNCHANGED <<stage, todo, chain, at, spent, network, retries,
                              left>>
         [] Heard(q) /\ mode # "fastest_addr" ->
               Return(q, "answered")
    /\ UNCHANGED <<mode, up, unhealthy_for, probe_cursor, probed>>

(* A failure that lengthens a backoff in place of starting it again. *)
BackedOffLonger(u) == unhealthy_for[u] + Backoff

(* mark_upstream_unhealthy *)
BackedOff(u) == Backoff

(* The request times out or fails at once: the network is not there, an    *)
(* error, an invalid answer.                                               *)
Fail(q, u, e) ==
    /\ \/ tries[q][u] = "lost"
       \/ tries[q][u] = "sent" /\ u \notin up
    /\ tries' = [tries EXCEPT ![q][u] = "none"]
    /\ unhealthy_for' = [unhealthy_for EXCEPT ![u] = BackedOff(u)]
    /\ IF Heard(q)
       THEN /\ network' = [network EXCEPT ![q] = IF e = "network"
                              THEN @ \cup {at[q]} ELSE @ \ {at[q]}]
            /\ spent' = [spent EXCEPT ![q] = IF e = "timeout" /\ @ < Budget
                              THEN @ + 1 ELSE @]
       ELSE UNCHANGED <<network, spent>>
    /\ UNCHANGED <<mode, up, probe_wait, probe_cursor, stage, chain, at, todo,
                   got, retries, left, probed>>

(* Mutant: the pool is left with requests still on the wire. *)
PoolDoneEarly(q) == stage[q] = "wait" /\ (todo[q] = <<>> \/ spent[q] = Budget)

(* Nothing is left to try in this pool, or the deadline has passed.  At    *)
(* the deadline a batch is left with its requests still on the wire; a     *)
(* request that the query's own thread makes is always over.               *)
PoolDone(q) ==
    /\ stage[q] = "wait"
    /\ Trying(q) = {} \/ (Parallel /\ spent[q] = Budget)
    /\ todo[q] = <<>> \/ spent[q] = Budget

(* fastest_addr chooses among the responses it has. *)
Choose(q) ==
    /\ PoolDone(q) /\ got[q]
    /\ Return(q, "answered")
    /\ UNCHANGED <<health, tries, probed>>

(* The fallback pool is next, if there is one. *)
Fallback(q) ==
    /\ PoolDone(q) /\ ~got[q]
    /\ at[q] < Len(chain[q])
    /\ at' = [at EXCEPT ![q] = @ + 1]
    /\ todo' = [todo EXCEPT ![q] = <<>>]
    /\ left' = [left EXCEPT ![q] = (Trying(q) # {})]
    /\ Goto(q, "select")
    /\ UNCHANGED <<health, chain, tries, got, spent, network, retries, probed>>

(* The error says that the network is missing, and a delay is left and     *)
(* fits before the deadline.                                               *)
MayRetry(q) ==
    network[q] # {} /\ retries[q] < MaxRetries /\ spent[q] < Budget

(* The query goes through its chain again after a delay. *)
Retry(q) ==
    /\ PoolDone(q) /\ ~got[q]
    /\ at[q] = Len(chain[q])
    /\ MayRetry(q)
    /\ at' = [at EXCEPT ![q] = 1]
    /\ todo' = [todo EXCEPT ![q] = <<>>]
    /\ network' = [network EXCEPT ![q] = {}]
    /\ retries' = [retries EXCEPT ![q] = @ + 1]
    /\ Goto(q, "select")
    /\ UNCHANGED <<health, chain, tries, got, spent, left, probed>>

(* The query fails.  Delays are counted, not timed: one need not fit once  *)
(* a try has timed out.                                                    *)
GiveUp(q) ==
    /\ PoolDone(q) /\ ~got[q]
    /\ at[q] = Len(chain[q])
    /\ ~MayRetry(q) \/ spent[q] > 0
    /\ Return(q, "failed")
    /\ UNCHANGED <<health, tries, probed>>

-----------------------------------------------------------------------------
(* The world *)

Less(n) == IF n > 0 THEN n - 1 ELSE 0

(* A second passes. *)
Tick ==
    /\ unhealthy_for' = [u \in Upstreams |-> Less(unhealthy_for[u])]
    /\ probe_wait' = Less(probe_wait)
    /\ probed' = [p \in Pools |-> Less(probed[p])]
    /\ UNCHANGED <<mode, up, probe_cursor, stage, locals, todo, tries>>

Toggle(u) ==
    /\ up' = IF u \in up THEN up \ {u} ELSE up \cup {u}
    /\ UNCHANGED <<mode, unhealthy_for, probe_wait, probe_cursor, stage,
                   locals, todo, tries, probed>>

-----------------------------------------------------------------------------
Ask(q) == \E c \in Chains : Arrive(q, c)

Step(q) ==
    \/ Select(q) \/ Claim(q) \/ Send(q) \/ SendLast(q)
    \/ \E u \in Upstreams :
          Receive(q, u) \/ Answered(q, u) \/ \E e \in Errors : Fail(q, u, e)
    \/ Choose(q) \/ Fallback(q) \/ Retry(q) \/ GiveUp(q)

Next ==
    \/ \E q \in Queries : Ask(q) \/ Step(q)
    \/ Tick
    \/ \E u \in Upstreams : Toggle(u)

Spec == Init /\ [][Next]_vars

(* Threads run, time passes, the task pool is not full each time a query   *)
(* turns to the main pool, or to the fallback pool, and clients keep       *)
(* asking; in particular every chain is asked for again and again.         *)
Fairness ==
    /\ \A q \in Queries : WF_vars(Step(q))
    /\ \A q \in Queries : \A i \in UNION {DOMAIN c : c \in Chains} :
          SF_vars(Send(q) /\ at[q] = i)
    /\ \A c \in Chains : SF_vars(\E q \in Queries : Arrive(q, c))
    /\ WF_vars(Tick)

FairSpec == Spec /\ Fairness

-----------------------------------------------------------------------------
(* Properties *)

(* A query waits for upstreams of the pool it is in, and of no other: an   *)
(* answer or a failure of the main pool, however late, is never taken for  *)
(* one of the fallback pool, and none is when a pool is tried again.       *)
AsksItsPool ==
    \A q \in Queries : Heard(q) =>
        Trying(q) \cup Members(todo[q]) \subseteq Members(Pool(q))

(* A query never has more requests on the wire than                        *)
(* MAX_PARALLEL_UPSTREAMS_PER_QUERY, in load_balance only one: also not    *)
(* when it falls back with those of the main pool still out, as that       *)
(* happens only once its deadline has passed and it sends no more.         *)
WireBounded ==
    \A q \in Queries :
        Cardinality(Trying(q)) <= IF Parallel THEN MaxParallel ELSE 1

RequestsSound == TypeOK /\ AsksItsPool /\ WireBounded

(* An upstream that has come back for good gets the queries answered       *)
(* again, whatever backoffs, late failures and lost probe slots the outage *)
(* has left behind, and even if it is the fallback and the main pool stays *)
(* dead.                                                                   *)
AnswersResume ==
    \A u \in Upstreams :
        <>[](u \in up) => []<>(\E q \in Queries : stage[q] = "answered")

(* While no upstream of a pool has answered, the pool gets one half-open   *)
(* probe per interval: the queries of an outage do not wait for one        *)
(* timeout each.                                                           *)
OneProbePerInterval ==
    [][\A q \in Queries :
          stage[q] = "claim" /\ todo'[q] # <<>> => probed[Pool(q)] = 0]_vars

(* A query that waits for the network to come back and retries does ask an *)
(* upstream: the first query after the network has returned is not failed  *)
(* before the delays of NETWORK_UNAVAILABLE_RETRY_DELAYS are used.         *)
NetworkRetried ==
    [][\A q \in Queries :
          stage[q] = "claim" /\ retries[q] > 0 => todo'[q] # <<>>]_vars
=============================================================================
