---------------------------- MODULE AccessControl ----------------------------
(* Who may ask, and how often: access.rs.  Times are kept as ages against    *)
(* the wall clock, which may be set back; an age that no comparison tells    *)
(* from an older one stops growing.                                          *)
EXTENDS Integers, FiniteSets, FiniteSetsExt

CONSTANTS AcClients,
          AcLimits,        \* rate_limit_per_second; 0 switches the limiter off
          AcBurst,         \* RATE_LIMITER_BURST_SECONDS
          AcTtl,           \* RATE_LIMITER_CLIENT_TTL_SECONDS
          AcPruneInterval, \* RATE_LIMITER_PRUNE_INTERVAL_SECONDS
          AcMaxClients,    \* RATE_LIMITER_MAX_CLIENTS
          MaxAcBacks,      \* bound on the seconds the clock is set back by
          MaxAcMoves       \* bound on clients that come and go

(* The bucket of a client that was forgotten was full again. *)
ASSUME AcConstants ==
    /\ AcLimits \subseteq Nat /\ AcBurst \in Nat \ {0} /\ AcTtl \in Nat /\ AcTtl >= AcBurst
    /\ AcPruneInterval \in Nat \ {0} /\ AcMaxClients \in Nat \ {0} /\ MaxAcBacks \in Nat /\ MaxAcMoves \in Nat

VARIABLES acLimit, acBlocked, acAllowed,  \* the configuration the server was started with
          acBuckets,   \* the table of the limiter
          acPruned,    \* how long ago it was pruned
          acActive,    \* the clients that keep asking
          acLast,      \* the last decision
          acBacks, acMoves,
          acIdeal      \* the bucket every client would have if none were forgotten
acVars == <<acLimit, acBlocked, acAllowed, acBuckets, acPruned, acActive, acLast, acBacks, acMoves, acIdeal>>

AcOld == Max({AcTtl, AcPruneInterval}) + 1 + MaxAcBacks
AcAges == -MaxAcBacks..AcOld
AcCapacity == acLimit * AcBurst
AcMin(a, b) == IF a < b THEN a ELSE b
AcKnown == DOMAIN acBuckets

AcInit ==
    /\ acLimit \in AcLimits /\ acBlocked \in SUBSET AcClients /\ acAllowed \in SUBSET AcClients
    /\ acBuckets = [c \in {} |-> 0] /\ acPruned = AcOld
    /\ acActive \in SUBSET AcClients /\ acLast = <<>> /\ acBacks = 0 /\ acMoves = 0
    /\ acIdeal = [c \in AcClients |-> AcCapacity]

(* ClientMatcher::matches, ClientAccess::check *)
AcListed(c) == c \in acBlocked \/ (acAllowed # {} /\ c \notin acAllowed)

(* Mutant: everybody is forgotten when the table is pruned. *)
AcRetainedNone == {}
(* prune *)
AcRetained == {c \in AcKnown : acBuckets[c].seen <= AcTtl}
AcPrunes == acPruned >= AcPruneInterval

(* Mutant: the table is pruned only once the client has its place in it. *)
AcTablePrunedLate(c) ==
    IF AcPrunes /\ (c \in AcKnown \/ Cardinality(AcKnown) < AcMaxClients)
    THEN [d \in AcRetained |-> acBuckets[d]] ELSE acBuckets
(* allow, its first step *)
AcTable(c) == IF AcPrunes THEN [d \in AcRetained |-> acBuckets[d]] ELSE acBuckets
(* allow: a full table has no place for a client it does not know. *)
AcRefused(table, c) == c \notin DOMAIN table /\ Cardinality(DOMAIN table) >= AcMaxClients
(* Mutant: refilled without a limit. *)
AcRefilledOver(bucket) ==
    IF bucket.refill < 0 THEN AcCapacity ELSE bucket.tokens + bucket.refill * acLimit
(* allow: a clock set back fills the bucket. *)
AcRefilled(bucket) ==
    IF bucket.refill < 0 THEN AcCapacity ELSE AcMin(AcCapacity, bucket.tokens + bucket.refill * acLimit)
AcNew == [tokens |-> AcCapacity, refill |-> 0, seen |-> 0]

(* ClientAccess::check, turned down by a list *)
AcDeny(c) ==
    /\ c \in acActive /\ AcListed(c) /\ acLast' = <<c, FALSE>>
    /\ UNCHANGED <<acLimit, acBlocked, acAllowed, acBuckets, acPruned, acActive, acBacks, acMoves, acIdeal>>
(* ClientAccess::check without a limiter *)
AcUnlimited(c) ==
    /\ c \in acActive /\ ~AcListed(c) /\ acLimit = 0 /\ acLast' = <<c, TRUE>>
    /\ UNCHANGED <<acLimit, acBlocked, acAllowed, acBuckets, acPruned, acActive, acBacks, acMoves, acIdeal>>
(* ClientAccess::check, ClientRateLimiter::allow under the mutex *)
AcAsk(c) ==
    /\ c \in acActive /\ ~AcListed(c) /\ acLimit > 0
    /\ LET table == AcTable(c)
           bucket == IF c \in DOMAIN table THEN table[c] ELSE AcNew
           tokens == AcRefilled(bucket)
           spent == IF tokens = 0 THEN 0 ELSE 1
       IN IF AcRefused(table, c)
          THEN acBuckets' = table /\ acLast' = <<c, FALSE>> /\ UNCHANGED acIdeal
          ELSE /\ acBuckets' = [d \in DOMAIN table \cup {c} |->
                      IF d = c THEN [tokens |-> tokens - spent, refill |-> 0, seen |-> 0] ELSE table[d]]
               /\ acLast' = <<c, tokens > 0>>
               /\ acIdeal' = [acIdeal EXCEPT ![c] = Max({0, @ - spent})]
    /\ acPruned' = IF AcPrunes THEN 0 ELSE acPruned
    /\ UNCHANGED <<acLimit, acBlocked, acAllowed, acActive, acBacks, acMoves>>

AcAged(by) ==
    /\ acBuckets' = [c \in AcKnown |-> [acBuckets[c] EXCEPT !.refill = AcMin(@ + by, AcOld),
                                                            !.seen = AcMin(@ + by, AcOld)]]
    /\ acPruned' = AcMin(acPruned + by, AcOld)
(* A second passes. *)
AcTick ==
    /\ AcAged(1) /\ acIdeal' = [c \in AcClients |-> AcMin(AcCapacity, acIdeal[c] + acLimit)]
    /\ UNCHANGED <<acLimit, acBlocked, acAllowed, acActive, acLast, acBacks, acMoves>>
(* The wall clock is set back. *)
AcSetBack ==
    /\ acBacks < MaxAcBacks /\ acBacks' = acBacks + 1 /\ AcAged(-1)
    /\ UNCHANGED <<acLimit, acBlocked, acAllowed, acActive, acLast, acMoves, acIdeal>>
(* Clients come and go. *)
AcMove(clients) ==
    /\ acMoves < MaxAcMoves /\ acMoves' = acMoves + 1 /\ clients # acActive /\ acActive' = clients
    /\ UNCHANGED <<acLimit, acBlocked, acAllowed, acBuckets, acPruned, acLast, acBacks, acIdeal>>

AcNext ==
    \/ \E c \in AcClients : AcDeny(c) \/ AcUnlimited(c) \/ AcAsk(c)
    \/ AcTick
    \/ AcSetBack
    \/ \E clients \in SUBSET AcClients : AcMove(clients)

(* Time passes, and a client that keeps asking does ask. *)
AcFairness ==
    /\ WF_acVars(AcTick)
    /\ \A c \in AcClients : WF_acVars((AcDeny(c) \/ AcUnlimited(c) \/ AcAsk(c)))
AcSpec == AcInit /\ [][AcNext]_acVars /\ AcFairness

------------------------------------------------------------------------------
AcTypeOK ==
    /\ AcKnown \subseteq AcClients /\ Cardinality(AcKnown) <= AcMaxClients
    /\ \A c \in AcKnown : acBuckets[c] \in [tokens : 0..AcCapacity, refill : AcAges, seen : AcAges]
    /\ acPruned \in AcAges /\ acActive \subseteq AcClients
    /\ acIdeal \in [AcClients -> 0..AcCapacity]

(* While the clock only moves forward, forgetting idle clients to bound the  *)
(* table changes nobody's allowance: at any moment a client may ask exactly  *)
(* as often at once as with a bucket that was kept from its first query on.  *)
AcBucketIsExact ==
    acBacks = 0 =>
        \A c \in AcClients :
            acIdeal[c] = IF c \in AcKnown THEN AcRefilled(acBuckets[c]) ELSE AcCapacity

(* A permitted client that is in the end the only one to ask is answered     *)
(* again and again: neither a table full of others, nor an empty bucket, nor *)
(* a clock that was set back shuts it out for good.                          *)
AcServedAgain ==
    \A c \in AcClients : <>[](acActive = {c} /\ ~AcListed(c)) => []<>(acLast = <<c, TRUE>>)

(* The bounded table changes nobody's allowance, and shuts nobody out for    *)
(* good.                                                                     *)
AcLimitFair == [](AcTypeOK /\ AcBucketIsExact) /\ AcServedAgain
==============================================================================
