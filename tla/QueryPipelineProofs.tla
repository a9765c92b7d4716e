------------------------ MODULE QueryPipelineProofs ------------------------
(***************************************************************************)
(* Machine-checked proofs about the query pipeline, for any numbers of     *)
(* queries, names, clients, upstream pools and filters, and for every      *)
(* bound of the cache and of the followers.                                *)
(*                                                                         *)
(* The promises are about answers; what makes them inductive is who waits  *)
(* for whom.  A query that leads keeps one list of waiting queries, first  *)
(* in its PendingQueryState and then, once taken, on its own stack;        *)
(* Waiting(l) is that list wherever it is.  The invariant says that the    *)
(* lists hold exactly the followers, each once and under a leader with its *)
(* own cache key, that every stored or carried answer is the one its key   *)
(* stands for, and that a raised refresh flag has an owner.                *)
(***************************************************************************)
EXTENDS QueryPipeline, SequenceTheorems, TLAPS

(* Stages of a query that holds no answer yet. *)
Unanswered == {"new", "decide", "lookup", "begin", "join", "following", "forward"}

(* Stages of a query that is before its coalescing. *)
Early == {"new", "decide", "lookup", "hit", "begin"}

(* What a query that has not arrived holds, and what any other asks. *)
Arrivals ==
    \A q \in Queries :
        /\ stage[q] = "new" => /\ owns[q] = FALSE /\ refresh[q] = "none"
                               /\ answer[q].kind = "none"
        /\ stage[q] # "new" => ask[q] \in Asks

(* A cached answer is the one its key stands for, and so is the answer that *)
(* a query holds.                                                           *)
CacheKeyed == \A k \in Keys : cache[k] # None => cache[k].data = k
ResultOwn == \A q \in Queries : result[q] # None \/ stage[q] = "hit" => result[q] = Fetched(q)

(* A forwarded answer has been judged by the query's own filter. *)
Judged ==
    \A q \in Queries :
        /\ stage[q] \in Unanswered => result[q] = None /\ ~verdict[q]
        /\ stage[q] \in {"finish", "take", "deliver", "store", "reply"} /\ result[q] # None =>
              verdict[q] = (active[q] /\ ProtectionBlocks(filter[q], q))

(* The registered leader of a key is forwarding that key. *)
PendingLeads ==
    \A k \in Keys : pending[k] # None =>
        /\ stage[pending[k]] \in {"forward", "finish"}
        /\ joined[pending[k]] = pending[k]
        /\ CacheKey(pending[k]) = k

(* A query shares the state of a leader that asks for the same key. *)
JoinedSame ==
    \A q \in Queries :
        /\ stage[q] \in Early => joined[q] = None
        /\ stage[q] \in {"join", "following"} => joined[q] # None /\ joined[q] # q
        /\ joined[q] # None =>
              /\ joined[joined[q]] = joined[q]
              /\ CacheKey(joined[q]) = CacheKey(q)
              /\ stage[q] \in {"forward", "store", "reply"} => joined[q] = q

(* The queries that wait for l. *)
Waiting(l) == IF followers[l] # None THEN followers[l] ELSE todo[l]

(* Where the list of a leader is. *)
ListPlaced ==
    \A l \in Queries :
        /\ followers[l] # None <=>
              stage[l] \in {"forward", "finish", "take"} /\ joined[l] = l
        /\ stage[l] # "deliver" => todo[l] = <<>>
        /\ stage[l] \in {"finish", "take", "deliver"} => joined[l] = l

(* The waiting queries of l follow l, each of them once. *)
WaitingFollow ==
    \A l \in Queries :
        /\ \A i \in DOMAIN Waiting(l) : /\ stage[Waiting(l)[i]] = "following"
                                        /\ joined[Waiting(l)[i]] = l
        /\ \A i, j \in DOMAIN Waiting(l) : Waiting(l)[i] = Waiting(l)[j] => i = j

(* A follower waits in the list of its leader. *)
FollowersWait ==
    \A q \in Queries : stage[q] = "following" =>
        \E i \in DOMAIN Waiting(joined[q]) : Waiting(joined[q])[i] = q

(* Only a query at its hit holds a refresh flag. *)
OwnsAtHit == \A q \in Queries : owns[q] => stage[q] = "hit"

IInv == /\ TypeOK /\ Arrivals
        /\ CacheKeyed /\ ResultOwn /\ Judged
        /\ PendingLeads /\ JoinedSame /\ ListPlaced /\ WaitingFollow /\ FollowersWait
        /\ OneOutcome /\ AnswersKeptApart /\ OwnVerdict
        /\ OwnsAtHit /\ RefreshFlagOwned

-----------------------------------------------------------------------------
(* What a query asks for is a key.                                         *)
LEMMA KeyIsKey ==
  ASSUME TypeOK, Arrivals, NEW q \in Queries, stage[q] # "new"
  PROVE  CacheKey(q) \in Keys /\ Fetched(q) = CacheKey(q)
BY PipelineAssumption DEF TypeOK, Arrivals, CacheKey, Fetched, Keys, Name, Client, Route, Bypasses

(* The key, the upstream's answer and the judgement of a query depend on   *)
(* nothing but what it asks and its filter snapshot.                       *)
LEMMA KeyFrame ==
  ASSUME NEW q, ask'[q] = ask[q], filter'[q] = filter[q]
  PROVE  /\ CacheKey(q)' = CacheKey(q) /\ Fetched(q)' = Fetched(q)
         /\ ProtectionBlocks(filter[q], q)' = ProtectionBlocks(filter[q], q)
BY DEF CacheKey, Fetched, Name, Client, Route, Bypasses, ProtectionBlocks

(* Nothing has arrived and nothing is cached in the beginning.             *)
LEMMA InitInv == Init => IInv
<1> SUFFICES ASSUME Init PROVE IInv
  OBVIOUS
<1>1. TypeOK
  <2>1. Answer("none") \in Answers
    BY DEF Answers, Answer
  <2>2. "new" \in Stages /\ <<>> \in Seq(Queries)
    BY DEF Stages
  <2> QED
    BY <2>1, <2>2 DEF Init, TypeOK
<1>2. Arrivals /\ CacheKeyed /\ ResultOwn /\ Judged /\ PendingLeads
  BY DEF Init, Arrivals, CacheKeyed, ResultOwn, Judged, PendingLeads, Answer
<1>3. JoinedSame /\ ListPlaced /\ WaitingFollow /\ FollowersWait
  BY PipelineAssumption
     DEF Init, JoinedSame, ListPlaced, WaitingFollow, FollowersWait, Waiting
<1>4. OneOutcome /\ AnswersKeptApart /\ OwnVerdict /\ OwnsAtHit /\ RefreshFlagOwned
  BY DEF Init, OneOutcome, AnswersKeptApart, OwnVerdict, OwnsAtHit, RefreshFlagOwned, Answer
<1> QED
  BY <1>1, <1>2, <1>3, <1>4 DEF IInv

(* The coalescing parts of the invariant. *)
Coalesced == PendingLeads /\ JoinedSame /\ ListPlaced /\ WaitingFollow /\ FollowersWait

(* A step of one query between stages that have the same part in the       *)
(* coalescing keeps these parts.                                           *)
LEMMA CoalescedFrame ==
  ASSUME TypeOK, Coalesced, NEW q \in Queries, NEW s \in Stages,
         stage' = [stage EXCEPT ![q] = s],
         UNCHANGED <<pending, ask, filter, joined, followers, todo>>,
         \/ stage[q] \in {"decide", "lookup"} /\ s \in {"lookup", "hit", "begin", "forward", "done"}
         \/ stage[q] \in {"hit", "store", "reply"} /\ s \in {"reply", "done"}
         \/ stage[q] = "forward" /\ s = (IF joined[q] = q THEN "finish" ELSE "store")
         \/ stage[q] = "deliver" /\ todo[q] = <<>> /\ s = "store"
  PROVE  Coalesced'
<1> USE DEF Coalesced
<1>1. \A x \in Queries : CacheKey(x)' = CacheKey(x) /\ Waiting(x)' = Waiting(x)
  BY KeyFrame DEF Waiting
<1>2. stage \in [Queries -> Stages] /\ joined \in [Queries -> Queries \cup {None}] /\ None \notin Queries
  BY PipelineAssumption DEF TypeOK
<1>3. PendingLeads'
  BY <1>1, <1>2 DEF TypeOK, PendingLeads
<1>4. JoinedSame'
  BY <1>1, <1>2 DEF JoinedSame, ListPlaced, Early
<1>5. ListPlaced'
  BY <1>1, <1>2 DEF JoinedSame, ListPlaced, Early
<1>6. WaitingFollow'
  BY <1>1, <1>2 DEF WaitingFollow
<1>7. FollowersWait'
  BY <1>1, <1>2 DEF FollowersWait, JoinedSame
<1> QED
  BY <1>3, <1>4, <1>5, <1>6, <1>7

-----------------------------------------------------------------------------
(* What a client gets is an answer, whether it could be sent or not.       *)
LEMMA EndingTyped ==
  ASSUME TypeOK, NEW q \in Queries, NEW a \in Answers, EndWith(q, a)
  PROVE  /\ stage' = [stage EXCEPT ![q] = "done"] /\ stage' \in [Queries -> Stages]
         /\ answer' \in [Queries -> Answers] /\ logged' \in [Queries -> Nat]
         /\ \A x \in Queries \ {q} : answer'[x] = answer[x]
<1>1. Answer("failed") \in Answers
  BY DEF Answer, Answers
<1>2. PICK b \in {a, Answer("failed")} : answer' = [answer EXCEPT ![q] = b]
  BY DEF EndWith
<1> QED
  BY <1>1, <1>2 DEF TypeOK, EndWith, Goto, Stages

(* A query that ends gets one outcome and one log entry, and keeps the     *)
(* promises on answers if what it is given keeps them.                     *)
LEMMA EndingKeeps ==
  ASSUME TypeOK, TypeOK', OneOutcome, AnswersKeptApart, OwnVerdict,
         NEW q \in Queries, stage[q] # "done", NEW a \in Answers, EndWith(q, a),
         a.kind \notin {"none", "denied"},
         \A x \in Queries \ {q} : /\ ask'[x] = ask[x] /\ filter'[x] = filter[x]
                                  /\ active'[x] = active[x] /\ joined'[x] = joined[x],
         a.kind = "data" => /\ a.data = Fetched(q)'
                            /\ active'[q] /\ joined'[q] \in {None, q} =>
                                 ~ ProtectionBlocks(filter[q], q)'
  PROVE  OneOutcome' /\ AnswersKeptApart' /\ OwnVerdict'
<1>1. /\ stage' = [stage EXCEPT ![q] = "done"] /\ logged' = [logged EXCEPT ![q] = @ + 1]
      /\ \E b \in {a, Answer("failed")} : answer' = [answer EXCEPT ![q] = b]
  BY DEF EndWith, Goto
<1>2. Answer("failed").kind = "failed"
  BY DEF Answer
<1>3. stage \in [Queries -> Stages] /\ answer \in [Queries -> Answers] /\ logged \in [Queries -> Nat]
  BY DEF TypeOK
<1>4. OneOutcome'
  BY <1>1, <1>2, <1>3 DEF OneOutcome
<1>5. AnswersKeptApart'
  BY <1>1, <1>2, <1>3, KeyFrame DEF AnswersKeptApart
<1>6. OwnVerdict'
  BY <1>1, <1>2, <1>3, KeyFrame DEF OwnVerdict
<1> QED
  BY <1>4, <1>5, <1>6

(* A step that answers nobody keeps the promises on answers.               *)
LEMMA QuietKeeps ==
  ASSUME TypeOK, OneOutcome, AnswersKeptApart, OwnVerdict,
         NEW q \in Queries, stage[q] # "done", NEW s \in Stages \ {"done"},
         stage' = [stage EXCEPT ![q] = s], UNCHANGED <<answer, logged>>,
         \A x \in Queries \ {q} : /\ ask'[x] = ask[x] /\ filter'[x] = filter[x]
                                  /\ active'[x] = active[x] /\ joined'[x] = joined[x]
  PROVE  OneOutcome' /\ AnswersKeptApart' /\ OwnVerdict'
<1>1. answer[q].kind = "none" /\ stage \in [Queries -> Stages]
  BY DEF OneOutcome, TypeOK
<1>2. OneOutcome'
  BY <1>1 DEF OneOutcome
<1>3. AnswersKeptApart'
  BY <1>1, KeyFrame DEF AnswersKeptApart
<1>4. OwnVerdict'
  BY <1>1, KeyFrame DEF OwnVerdict
<1> QED
  BY <1>2, <1>3, <1>4

-----------------------------------------------------------------------------
(* A cache whose entries are of the right type and under their own keys. *)
CacheSound(c) == /\ c \in [Keys -> Entries \cup {None}]
                 /\ \A j \in Keys : c[j] # None => c[j].data = j

(* c has only the raised flags of the cache, and none at k. *)
FlagsOf(c, k) == \A j \in Keys : c[j] # None /\ c[j].refreshing =>
                    j # k /\ cache[j] # None /\ cache[j].refreshing

(* finish_refresh lowers one flag and changes nothing else.                *)
LEMMA FlagClearedSound ==
  ASSUME TypeOK, CacheKeyed, NEW k \in Keys
  PROVE  CacheSound(FlagCleared(k)) /\ FlagsOf(FlagCleared(k), k)
<1>1. CASE cache[k] = None
  BY <1>1 DEF TypeOK, CacheKeyed, CacheSound, FlagsOf, FlagCleared
<1>2. CASE cache[k] # None
  <2>1. cache[k] \in Entries
    BY <1>2 DEF TypeOK
  <2> DEFINE e == [cache[k] EXCEPT !.refreshing = FALSE]
  <2>2. e \in Entries /\ e.data = cache[k].data /\ ~ e.refreshing
    BY <2>1 DEF Entries
  <2>3. FlagCleared(k) = [cache EXCEPT ![k] = e]
    BY <1>2 DEF FlagCleared
  <2> HIDE DEF e
  <2> QED
    BY <1>2, <2>2, <2>3 DEF TypeOK, CacheKeyed, CacheSound, FlagsOf
<1> QED
  BY <1>1, <1>2

(* A stored answer is fresh and without a flag; whatever is evicted, the   *)
(* other entries stay as they are.                                         *)
LEMMA StoredSound ==
  ASSUME TypeOK, CacheKeyed, NEW k \in Keys, NEW c \in Stored(k, k)
  PROVE  CacheSound(c) /\ FlagsOf(c, k)
<1> DEFINE e == [data |-> k, age |-> "fresh", hits |-> 0, refreshing |-> FALSE]
           filled == [cache EXCEPT ![k] = e]
<1>1. e \in Entries /\ e.data = k /\ ~ e.refreshing
  BY PipelineAssumption DEF Entries, Ages
<1>2. PICK R : c = [j \in Keys |-> IF j \in R THEN filled[j] ELSE None]
  BY DEF Stored
<1> HIDE DEF e
<1>3. \A j \in Keys : c[j] # None => (IF j = k THEN c[j] = e ELSE c[j] = cache[j])
  BY <1>2 DEF TypeOK
<1>4. c \in [Keys -> Entries \cup {None}]
  BY <1>1, <1>2 DEF TypeOK
<1> QED
  BY <1>1, <1>3, <1>4 DEF CacheKeyed, CacheSound, FlagsOf

(* A query that holds the flag of a key or runs its refresh. *)
Owner(q, k) == /\ ask[q] # None /\ CacheKey(q) = k
               /\ owns[q] \/ refresh[q] \in {"queued", "running"}

(* Flags keep an owner if none is raised and every owner stays one, except *)
(* the one that has just lowered the flag of its key.                      *)
LEMMA FlagsKept ==
  ASSUME RefreshFlagOwned, NEW k, FlagsOf(cache', k),
         \A j \in Keys, x \in Queries : j # k /\ Owner(x, j) => Owner(x, j)'
  PROVE  RefreshFlagOwned'
BY DEF RefreshFlagOwned, FlagsOf, Owner

(* A step that leaves the cache alone keeps them with their owners.        *)
LEMMA FlagsUntouched ==
  ASSUME RefreshFlagOwned, UNCHANGED cache,
         \A j \in Keys, x \in Queries : Owner(x, j) => Owner(x, j)'
  PROVE  RefreshFlagOwned'
BY DEF RefreshFlagOwned, Owner

-----------------------------------------------------------------------------
(* A query that arrives has no part in the coalescing yet.                 *)
LEMMA ArrivalCoalesced ==
  ASSUME TypeOK, Coalesced, NEW q \in Queries, stage[q] = "new", NEW s \in {"decide", "done"},
         stage' = [stage EXCEPT ![q] = s], UNCHANGED <<pending, joined, followers, todo>>,
         \A x \in Queries \ {q} : ask'[x] = ask[x] /\ filter'[x] = filter[x]
  PROVE  Coalesced'
<1> USE DEF Coalesced
<1>1. \A x \in Queries \ {q} : CacheKey(x)' = CacheKey(x)
  BY KeyFrame
<1>2. \A x \in Queries : Waiting(x)' = Waiting(x)
  BY DEF Waiting
<1>3. stage \in [Queries -> Stages] /\ joined \in [Queries -> Queries \cup {None}] /\ None \notin Queries
  BY PipelineAssumption DEF TypeOK
<1>4. joined[q] = None /\ \A x \in Queries : joined[x] # q
  BY <1>3 DEF JoinedSame, Early
<1>5. PendingLeads'
  <2> SUFFICES ASSUME NEW k \in Keys, pending[k] # None
               PROVE  /\ stage'[pending[k]] \in {"forward", "finish"}
                      /\ joined[pending[k]] = pending[k] /\ CacheKey(pending[k])' = k
    BY DEF PendingLeads
  <2>1. PICK l \in Queries : l = pending[k]
    BY DEF TypeOK
  <2>2. stage[l] \in {"forward", "finish"} /\ joined[l] = l /\ CacheKey(l) = k
    BY <2>1 DEF PendingLeads
  <2>3. l # q
    BY <2>2
  <2> QED
    BY <1>1, <1>3, <2>1, <2>2, <2>3
<1>6. JoinedSame'
  BY <1>1, <1>3, <1>4 DEF JoinedSame, Early
<1>7. ListPlaced' /\ WaitingFollow' /\ FollowersWait'
  BY <1>2, <1>3, <1>4 DEF ListPlaced, WaitingFollow, FollowersWait, JoinedSame
<1> QED
  BY <1>5, <1>6, <1>7

(* What arriving does to the rest of the invariant: nothing.               *)
LEMMA ArrivalKeeps ==
  ASSUME IInv, TypeOK', NEW q \in Queries, NEW a \in Asks, stage[q] = "new",
         ask' = [ask EXCEPT ![q] = a], NEW s \in {"decide", "done"}, stage' = [stage EXCEPT ![q] = s],
         \A x \in Queries \ {q} : filter'[x] = filter[x],
         UNCHANGED <<shared, active, joined, followers, todo, result, verdict, owns, refresh>>,
         \A x \in Queries \ {q} : answer'[x] = answer[x]
  PROVE  /\ Arrivals' /\ CacheKeyed' /\ ResultOwn' /\ Judged' /\ Coalesced'
         /\ OwnsAtHit' /\ RefreshFlagOwned'
<1> USE DEF IInv
<1>1. /\ stage \in [Queries -> Stages] /\ ask \in [Queries -> Asks \cup {None}]
      /\ None \notin Asks
  BY PipelineAssumption DEF TypeOK
<1>2. Coalesced'
  BY <1>1, ArrivalCoalesced DEF Coalesced, shared
<1>3. Arrivals'
  BY <1>1 DEF Arrivals
<1>4. CacheKeyed' /\ OwnsAtHit'
  BY <1>1 DEF CacheKeyed, OwnsAtHit, Arrivals, shared
<1>5. ResultOwn' /\ Judged'
  <2>1. result[q] = None /\ ~ verdict[q]
    BY DEF Judged, Unanswered
  <2>2. ResultOwn'
    BY <1>1, <2>1, KeyFrame DEF ResultOwn
  <2>3. Judged'
    BY <1>1, <2>1, KeyFrame DEF Judged, Unanswered
  <2> QED
    BY <2>2, <2>3
<1>6. RefreshFlagOwned'
  <2>1. \A j \in Keys, x \in Queries : Owner(x, j) => x # q /\ Owner(x, j)'
    BY <1>1, KeyFrame DEF Owner, Arrivals
  <2> QED
    BY <2>1, FlagsUntouched DEF shared
<1> QED
  BY <1>2, <1>3, <1>4, <1>5, <1>6

(* A query that is turned away.                                            *)
LEMMA DenyKeeps ==
  ASSUME IInv, NEW q \in Queries, NEW a \in Asks, Deny(q, a)
  PROVE  IInv'
<1> USE DEF IInv
<1>1. stage' = [stage EXCEPT ![q] = "done"] /\ answer' = [answer EXCEPT ![q] = Answer("denied")]
  BY DEF Deny, Goto
<1>2. Answer("denied") \in Answers /\ Answer("denied").kind = "denied"
  BY DEF Answer, Answers
<1>3. TypeOK'
  BY <1>1, <1>2 DEF Deny, TypeOK, Stages, shared
<1>4. /\ Arrivals' /\ CacheKeyed' /\ ResultOwn' /\ Judged' /\ Coalesced'
      /\ OwnsAtHit' /\ RefreshFlagOwned'
  BY <1>1, <1>3, ArrivalKeeps DEF Deny, TypeOK
<1>5. OneOutcome'
  BY <1>1, <1>2 DEF Deny, OneOutcome, TypeOK
<1>6. \A x \in Queries \ {q} : ask'[x] = ask[x] /\ UNCHANGED <<filter, active, joined>>
  BY DEF Deny, TypeOK
<1>7. AnswersKeptApart' /\ OwnVerdict'
  BY <1>1, <1>2, <1>6, KeyFrame DEF AnswersKeptApart, OwnVerdict, TypeOK
<1> QED
  BY <1>3, <1>4, <1>5, <1>7 DEF Coalesced

(* A query that is admitted, or answered at once from the rewrites.        *)
LEMMA AdmitKeeps ==
  ASSUME IInv, NEW q \in Queries, NEW a \in Asks, Admit(q, a)
  PROVE  IInv'
<1> USE DEF IInv
<1>1. Answer("local") \in Answers /\ Answer("local").kind = "local"
  BY DEF Answer, Answers
<1>2. PICK s \in {"decide", "done"} :
        /\ stage' = [stage EXCEPT ![q] = s]
        /\ \/ s = "done" /\ EndWith(q, Answer("local"))
           \/ s = "decide" /\ UNCHANGED <<answer, logged>>
  BY DEF Admit, EndWith, Goto
<1>3. TypeOK'
  <2>1. answer' \in [Queries -> Answers] /\ logged' \in [Queries -> Nat]
    BY <1>1, <1>2, EndingTyped DEF TypeOK
  <2> QED
    BY <1>2, <2>1 DEF Admit, TypeOK, Stages, shared
<1>4. \A x \in Queries \ {q} : /\ ask'[x] = ask[x] /\ filter'[x] = filter[x] /\ answer'[x] = answer[x]
                               /\ active'[x] = active[x] /\ joined'[x] = joined[x]
  BY <1>1, <1>2, EndingTyped DEF Admit, TypeOK
<1>5. /\ Arrivals' /\ CacheKeyed' /\ ResultOwn' /\ Judged' /\ Coalesced'
      /\ OwnsAtHit' /\ RefreshFlagOwned'
  BY <1>2, <1>3, <1>4, ArrivalKeeps DEF Admit
<1>6. OneOutcome' /\ AnswersKeptApart' /\ OwnVerdict'
  <2>1. stage[q] = "new"
    BY DEF Admit
  <2>2. CASE s = "done"
    BY <1>1, <1>2, <1>3, <1>4, <2>1, <2>2, EndingKeeps
  <2>3. CASE s = "decide"
    BY <1>2, <1>4, <2>1, <2>3, QuietKeeps DEF Stages
  <2> QED
    BY <2>2, <2>3
<1> QED
  BY <1>3, <1>5, <1>6 DEF Coalesced

-----------------------------------------------------------------------------
(* A query at work goes on asking what it asks.                            *)
LEMMA WorkArrivals ==
  ASSUME TypeOK, Arrivals, NEW q \in Queries, stage[q] # "new", NEW s \in Stages \ {"new"},
         stage' = [stage EXCEPT ![q] = s], UNCHANGED ask,
         \A x \in Queries \ {q} : /\ owns'[x] = owns[x] /\ refresh'[x] = refresh[x]
                                  /\ answer'[x] = answer[x]
  PROVE  Arrivals'
BY DEF TypeOK, Arrivals

(* The owners of flags stay if no flag, task or snapshot changes.          *)
LEMMA OwnersStay ==
  ASSUME UNCHANGED <<ask, filter, owns, refresh>>
  PROVE  \A j \in Keys, x \in Queries : Owner(x, j) => Owner(x, j)'
BY KeyFrame DEF Owner

(* Blocked, rewritten and local names end here; the others go on.          *)
LEMMA DecideKeeps ==
  ASSUME IInv, NEW q \in Queries, Decide(q)
  PROVE  IInv'
<1> USE DEF IInv
<1>1. PICK a \in {Answer("blocked"), Answer("local")}, s \in {"lookup", "done"} :
        /\ stage' = [stage EXCEPT ![q] = s]
        /\ \/ s = "done" /\ EndWith(q, a)
           \/ s = "lookup" /\ UNCHANGED <<answer, logged>>
  BY DEF Decide, EndWith, Goto
<1>2. a \in Answers /\ a.kind \in {"blocked", "local"}
  BY DEF Answer, Answers
<1>3. /\ stage[q] = "decide" /\ active' = [active EXCEPT ![q] = FilteringActive(q)]
      /\ UNCHANGED <<shared, ask, filter, joined, followers, todo, result, verdict, owns, refresh>>
  BY DEF Decide
<1>4. TypeOK'
  <2>1. answer' \in [Queries -> Answers] /\ logged' \in [Queries -> Nat]
    BY <1>1, <1>2, EndingTyped DEF TypeOK
  <2>2. active' \in [Queries -> BOOLEAN]
    BY <1>3 DEF TypeOK, FilteringActive
  <2> QED
    BY <1>1, <1>3, <2>1, <2>2 DEF TypeOK, Stages, shared
<1>5. \A x \in Queries \ {q} : answer'[x] = answer[x] /\ active'[x] = active[x]
  BY <1>1, <1>2, <1>3, EndingTyped DEF TypeOK
<1>6. Arrivals'
  BY <1>1, <1>3, <1>5, WorkArrivals DEF Stages
<1>7. CacheKeyed' /\ ResultOwn'
  BY <1>1, <1>3, KeyFrame DEF TypeOK, CacheKeyed, ResultOwn, shared
<1>8. Judged'
  BY <1>1, <1>3, <1>5, KeyFrame DEF TypeOK, Judged, Unanswered
<1>9. Coalesced'
  BY <1>1, <1>3, CoalescedFrame DEF Coalesced, Stages, shared
<1>10. OneOutcome' /\ AnswersKeptApart' /\ OwnVerdict'
  <2>1. CASE s = "done"
    BY <1>1, <1>2, <1>3, <1>4, <1>5, <2>1, EndingKeeps
  <2>2. CASE s = "lookup"
    BY <1>1, <1>3, <1>5, <2>2, QuietKeeps DEF Stages
  <2> QED
    BY <2>1, <2>2
<1>11. OwnsAtHit' /\ RefreshFlagOwned'
  BY <1>1, <1>3, OwnersStay, FlagsUntouched DEF TypeOK, OwnsAtHit, shared
<1> QED
  BY <1>4, <1>6, <1>7, <1>8, <1>9, <1>10, <1>11 DEF Coalesced

(* A hit counts itself, and raises the flag of the entry only for itself.  *)
LEMMA HitSound ==
  ASSUME NEW e \in Entries
  PROVE  /\ Hit(e) \in Entries /\ Hit(e).data = e.data
         /\ Hit(e).refreshing => e.refreshing \/ ClaimsRefresh(e)
<1>1. WantsRefresh(e) \in BOOLEAN
  BY DEF WantsRefresh
<1>2. PICK h \in 0..PrefetchHits : h = (IF e.hits < PrefetchHits THEN e.hits + 1 ELSE e.hits)
  BY PipelineAssumption DEF Entries
<1>3. PICK r \in BOOLEAN : r = (e.refreshing \/ WantsRefresh(e))
  BY <1>1 DEF Entries
<1>4. Hit(e) = [e EXCEPT !.hits = h, !.refreshing = r]
  BY <1>2, <1>3 DEF Hit, Entries
<1> QED
  BY <1>3, <1>4 DEF Entries, ClaimsRefresh

(* A lookup that hits serves the data of its own key.                      *)
LEMMA LookupKeeps ==
  ASSUME IInv, NEW q \in Queries, Lookup(q)
  PROVE  IInv'
<1> USE DEF IInv
<1>1. /\ stage[q] = "lookup"
      /\ UNCHANGED <<filter_runtime, paused, pending, ask, filter, active, joined, followers, todo,
                     verdict, refresh, answer, logged>>
  BY DEF Lookup
<1>2. PICK k \in Keys : k = CacheKey(q) /\ Fetched(q) = k
  BY <1>1, KeyIsKey
<1>3. PICK s \in {"forward", "begin", "hit"} :
        /\ stage' = [stage EXCEPT ![q] = s]
        /\ \/ s # "hit" /\ UNCHANGED <<cache, owns, result>>
           \/ /\ cache[k] # None /\ cache' = [cache EXCEPT ![k] = Hit(cache[k])]
              /\ \/ s # "hit" /\ Name(q) \in Oversize /\ UNCHANGED <<owns, result>>
                 \/ /\ s = "hit" /\ owns' = [owns EXCEPT ![q] = ClaimsRefresh(cache[k])]
                    /\ result' = [result EXCEPT ![q] = cache[k].data]
  BY <1>2 DEF Lookup, Goto, Servable
<1>4. cache[k] # None => /\ cache[k] \in Entries /\ cache[k].data = k /\ Hit(cache[k]) \in Entries
                         /\ Hit(cache[k]).data = k
                         /\ Hit(cache[k]).refreshing => cache[k].refreshing \/ ClaimsRefresh(cache[k])
  BY <1>2, HitSound DEF TypeOK, CacheKeyed
<1>5. /\ cache' \in [Keys -> Entries \cup {None}] /\ owns' \in [Queries -> BOOLEAN]
      /\ result' \in [Queries -> Keys \cup {None}]
  <2>1. cache' \in [Keys -> Entries \cup {None}]
    BY <1>2, <1>3, <1>4 DEF TypeOK
  <2>2. ClaimsRefresh(cache[k]) \in BOOLEAN
    BY DEF ClaimsRefresh
  <2>3. owns' \in [Queries -> BOOLEAN]
    BY <1>3, <2>2 DEF TypeOK
  <2>4. result' = result \/ result' = [result EXCEPT ![q] = k]
    BY <1>3, <1>4
  <2>5. result' \in [Queries -> Keys \cup {None}]
    BY <2>4 DEF TypeOK
  <2> QED
    BY <2>1, <2>3, <2>5
<1>6. TypeOK'
  BY <1>1, <1>3, <1>5 DEF TypeOK, Stages
<1>7. Arrivals'
  BY <1>1, <1>3, WorkArrivals DEF TypeOK, Stages
<1>8. CacheKeyed'
  BY <1>2, <1>3, <1>4 DEF TypeOK, CacheKeyed
<1>9. ResultOwn' /\ Judged'
  <2>1. ResultOwn'
    BY <1>1, <1>2, <1>3, <1>4, KeyFrame DEF TypeOK, ResultOwn
  <2>2. Judged'
    BY <1>1, <1>3, KeyFrame DEF TypeOK, Judged, Unanswered
  <2> QED
    BY <2>1, <2>2
<1>10. Coalesced'
  BY <1>1, <1>3, CoalescedFrame DEF Coalesced, Stages
<1>11. OneOutcome' /\ AnswersKeptApart' /\ OwnVerdict'
  BY <1>1, <1>3, QuietKeeps DEF Stages
<1>12. OwnsAtHit'
  BY <1>1, <1>3 DEF TypeOK, OwnsAtHit
<1>13. RefreshFlagOwned'
  <2>1. ASSUME NEW j \in Keys, NEW x \in Queries, Owner(x, j) PROVE Owner(x, j)'
    <3>1. ~ owns[q]
      BY <1>1 DEF OwnsAtHit
    <3>2. x # q => owns'[x] = owns[x]
      BY <1>3 DEF TypeOK
    <3> QED
      BY <1>1, <2>1, <3>1, <3>2, KeyFrame DEF Owner
  <2>2. ASSUME NEW j \in Keys, j.name \notin Oversize, cache'[j] # None, cache'[j].refreshing
        PROVE  \E x \in Queries : Owner(x, j)'
    <3>1. CASE cache[j] # None /\ cache[j].refreshing
      BY <2>1, <2>2, <3>1 DEF RefreshFlagOwned, Owner
    <3>2. CASE ~ (cache[j] # None /\ cache[j].refreshing)
      <4>1. j = k /\ cache[k] # None /\ ClaimsRefresh(cache[k])
        BY <1>2, <1>3, <1>4, <2>2, <3>2 DEF TypeOK
      <4>2. Name(q) \notin Oversize
        BY <1>2, <2>2, <4>1 DEF CacheKey
      <4>3. owns'[q]
        BY <1>3, <2>2, <3>2, <4>1, <4>2 DEF TypeOK
      <4>4. Owner(q, k)'
        BY <1>1, <1>2, <4>3, KeyFrame, PipelineAssumption DEF Owner, Arrivals
      <4> QED
        BY <4>1, <4>4
    <3> QED
      BY <3>1, <3>2
  <2> QED
    BY <2>2 DEF RefreshFlagOwned, Owner
<1> QED
  BY <1>6, <1>7, <1>8, <1>9, <1>10, <1>11, <1>12, <1>13 DEF Coalesced

(* A hit is judged again and served; its flag goes to the refresh task or  *)
(* back to the entry.                                                      *)
LEMMA ServeHitKeeps ==
  ASSUME IInv, NEW q \in Queries, ServeHit(q)
  PROVE  IInv'
<1> USE DEF IInv
<1> DEFINE a == IF HitBlocked(q) THEN Answer("blocked") ELSE DataAnswer(result[q])
<1>1. /\ stage[q] = "hit" /\ EndWith(q, a) /\ owns' = [owns EXCEPT ![q] = FALSE]
      /\ UNCHANGED <<filter_runtime, paused, pending, ask, filter, active, joined, followers, todo,
                     result, verdict>>
  BY DEF ServeHit
<1>2. PICK k \in Keys : k = CacheKey(q) /\ Fetched(q) = k
  BY <1>1, KeyIsKey
<1>3. \/ owns[q] /\ UNCHANGED cache /\ refresh' = [refresh EXCEPT ![q] = "queued"]
      \/ owns[q] /\ cache' = FlagCleared(k) /\ UNCHANGED refresh
      \/ ~ owns[q] /\ UNCHANGED <<cache, refresh>>
  BY <1>2 DEF ServeHit
<1>4. /\ a \in Answers /\ a.kind \in {"blocked", "data"}
      /\ a.kind = "data" => a.data = result[q] /\ ~ HitBlocked(q)
  BY DEF TypeOK, Answer, DataAnswer, Answers
<1>5. stage' = [stage EXCEPT ![q] = "done"] /\ \A x \in Queries \ {q} : answer'[x] = answer[x]
  BY <1>1, <1>4, EndingTyped
<1>6. CacheSound(cache')
  BY <1>3, FlagClearedSound DEF CacheSound, TypeOK, CacheKeyed
<1>7. TypeOK'
  <2>1. answer' \in [Queries -> Answers] /\ logged' \in [Queries -> Nat] /\ stage' \in [Queries -> Stages]
    BY <1>1, <1>4, EndingTyped
  <2>2. refresh' \in [Queries -> {"none", "queued", "running", "done"}]
    BY <1>3 DEF TypeOK
  <2> QED
    BY <1>1, <1>6, <2>1, <2>2 DEF TypeOK, CacheSound
<1>8. Arrivals'
  BY <1>1, <1>3, <1>5, WorkArrivals DEF TypeOK, Stages
<1>9. CacheKeyed' /\ ResultOwn'
  BY <1>1, <1>5, <1>6, KeyFrame DEF TypeOK, CacheSound, CacheKeyed, ResultOwn
<1>10. Judged'
  BY <1>1, <1>5, KeyFrame DEF TypeOK, Judged, Unanswered
<1>11. Coalesced'
  BY <1>1, <1>5, CoalescedFrame DEF Coalesced, Stages
<1>12. OneOutcome' /\ AnswersKeptApart' /\ OwnVerdict'
  <2>1. a.kind = "data" => /\ a.data = Fetched(q)'
                           /\ active'[q] => ~ ProtectionBlocks(filter[q], q)'
    BY <1>1, <1>4, KeyFrame DEF ResultOwn, HitBlocked
  <2> HIDE DEF a
  <2> QED
    BY <1>1, <1>4, <1>7, <2>1, EndingKeeps
<1>13. OwnsAtHit'
  BY <1>1, <1>5 DEF TypeOK, OwnsAtHit
<1>14. RefreshFlagOwned'
  <2>1. ASSUME NEW j \in Keys, NEW x \in Queries, Owner(x, j), x # q PROVE Owner(x, j)'
    <3>1. owns'[x] = owns[x] /\ refresh'[x] = refresh[x]
      BY <1>1, <1>3, <2>1 DEF TypeOK
    <3> QED
      BY <1>1, <2>1, <3>1, KeyFrame DEF Owner
  <2>2. CASE owns[q] /\ UNCHANGED cache /\ refresh' = [refresh EXCEPT ![q] = "queued"]
    <3>1. ASSUME NEW j \in Keys, Owner(q, j) PROVE Owner(q, j)'
      BY <1>1, <2>2, <3>1, KeyFrame DEF Owner, TypeOK
    <3> QED
      BY <2>1, <2>2, <3>1, FlagsUntouched
  <2>3. CASE cache' = FlagCleared(k) /\ UNCHANGED refresh
    <3>1. ASSUME NEW j \in Keys, j # k PROVE ~ Owner(q, j)
      BY <1>2, <3>1 DEF Owner
    <3>2. FlagsOf(cache', k)
      BY <2>3, FlagClearedSound
    <3> QED
      BY <2>1, <3>1, <3>2, FlagsKept
  <2>4. CASE ~ owns[q] /\ UNCHANGED <<cache, refresh>>
    <3>1. owns' = owns
      BY <1>1, <2>4 DEF TypeOK
    <3> QED
      BY <1>1, <2>4, <3>1, OwnersStay, FlagsUntouched
  <2> QED
    BY <1>3, <2>2, <2>3, <2>4
<1> QED
  BY <1>7, <1>8, <1>9, <1>10, <1>11, <1>12, <1>13, <1>14 DEF Coalesced

-----------------------------------------------------------------------------
(* The part of the invariant that the coalescing does not touch. *)
Uncoalesced == /\ Arrivals /\ CacheKeyed /\ ResultOwn /\ Judged
               /\ OneOutcome /\ AnswersKeptApart /\ OwnVerdict
               /\ OwnsAtHit /\ RefreshFlagOwned

(* Stages of a query that holds the outcome of its forward. *)
Forwarded == {"finish", "take", "deliver", "store", "reply"}

(* A step of the coalescing moves one query on and leaves that part alone. *)
LEMMA CoalescingKeeps ==
  ASSUME TypeOK, Uncoalesced, NEW q \in Queries, NEW s \in Stages, stage' = [stage EXCEPT ![q] = s],
         \/ stage[q] \in Unanswered \ {"new"} /\ s \in Unanswered \ {"new"}
         \/ stage[q] \in Forwarded /\ s \in Forwarded,
         UNCHANGED <<cache, ask, filter, active, result, verdict, owns, refresh, answer, logged>>,
         \A x \in Queries \ {q} : joined'[x] = joined[x]
  PROVE  Uncoalesced'
<1> USE DEF Uncoalesced
<1>1. stage \in [Queries -> Stages] /\ stage[q] \notin {"new", "hit", "done"} /\ s \notin {"new", "hit", "done"}
  BY DEF TypeOK, Unanswered, Forwarded
<1>2. Arrivals'
  BY <1>1, WorkArrivals
<1>3. CacheKeyed' /\ ResultOwn'
  BY <1>1, KeyFrame DEF CacheKeyed, ResultOwn
<1>4. Judged'
  BY <1>1, KeyFrame DEF Judged, Unanswered, Forwarded
<1>5. OneOutcome' /\ AnswersKeptApart' /\ OwnVerdict'
  BY <1>1, QuietKeeps
<1>6. OwnsAtHit' /\ RefreshFlagOwned'
  BY <1>1, OwnersStay, FlagsUntouched DEF OwnsAtHit
<1> QED
  BY <1>2, <1>3, <1>4, <1>5, <1>6

(* The first query for a key registers as its leader; another one for the  *)
(* same key shares the leader's state.                                     *)
LEMMA BeginKeeps ==
  ASSUME IInv, NEW q \in Queries, Begin(q)
  PROVE  IInv'
<1> USE DEF IInv
<1>1. /\ stage[q] = "begin"
      /\ UNCHANGED <<filter_runtime, paused, cache, ask, filter, active, todo, result, verdict, owns,
                     refresh, answer, logged>>
  BY DEF Begin
<1>2. PICK k \in Keys : k = CacheKey(q)
  BY <1>1, KeyIsKey
<1>3. \/ /\ pending[k] = None /\ pending' = [pending EXCEPT ![k] = q]
         /\ followers' = [followers EXCEPT ![q] = <<>>] /\ joined' = [joined EXCEPT ![q] = q]
         /\ stage' = [stage EXCEPT ![q] = "forward"]
      \/ /\ pending[k] # None /\ joined' = [joined EXCEPT ![q] = pending[k]]
         /\ stage' = [stage EXCEPT ![q] = "join"] /\ UNCHANGED <<pending, followers>>
  BY <1>2 DEF Begin, Goto
<1>4. /\ stage \in [Queries -> Stages] /\ joined \in [Queries -> Queries \cup {None}]
      /\ pending \in [Keys -> Queries \cup {None}] /\ followers \in [Queries -> Seq(Queries) \cup {None}]
      /\ None \notin Queries /\ <<>> \in Seq(Queries) /\ None # <<>>
  <2>1. <<>> \in Seq(Queries)
    OBVIOUS
  <2>2. None \notin Queries /\ None # <<>>
    BY <2>1, PipelineAssumption
  <2> QED
    BY <2>1, <2>2 DEF TypeOK
<1>5. /\ joined[q] = None /\ followers[q] = None /\ todo[q] = <<>>
      /\ \A x \in Queries : joined[x] # q
  BY <1>1, <1>4 DEF JoinedSame, ListPlaced, Early
<1>6. TypeOK'
  <2>1. pending' \in [Keys -> Queries \cup {None}] /\ joined' \in [Queries -> Queries \cup {None}]
    BY <1>2, <1>3, <1>4
  <2>2. followers' \in [Queries -> Seq(Queries) \cup {None}]
    BY <1>3, <1>4
  <2>3. stage' \in [Queries -> Stages]
    BY <1>3, <1>4 DEF Stages
  <2> QED
    BY <1>1, <2>1, <2>2, <2>3 DEF TypeOK
<1>7. Uncoalesced'
  BY <1>1, <1>3, <1>4, CoalescingKeeps DEF Uncoalesced, Unanswered, Stages
<1>8. \A x \in Queries : CacheKey(x)' = CacheKey(x) /\ Waiting(x)' = Waiting(x)
  BY <1>1, <1>3, <1>4, <1>5, KeyFrame DEF Waiting
<1>9. PendingLeads'
  BY <1>1, <1>2, <1>3, <1>4, <1>8 DEF PendingLeads
<1>10. JoinedSame'
  <2>1. CASE pending[k] = None
    BY <1>1, <1>3, <1>4, <1>5, <1>8, <2>1 DEF JoinedSame, Early
  <2>2. CASE pending[k] # None
    <3>1. PICK l \in Queries : /\ l = pending[k] /\ l # q /\ joined[l] = l /\ CacheKey(l) = k
      BY <1>1, <1>4, <2>2 DEF PendingLeads
    <3> QED
      BY <1>1, <1>2, <1>3, <1>4, <1>5, <1>8, <2>2, <3>1 DEF JoinedSame, Early
  <2> QED
    BY <2>1, <2>2
<1>11. ListPlaced'
  BY <1>1, <1>3, <1>4, <1>5 DEF ListPlaced
<1>12. WaitingFollow' /\ FollowersWait'
  <2>1. \A x \in Queries : stage[x] = "following" =>
          stage'[x] = "following" /\ joined'[x] = joined[x] /\ joined[x] \in Queries
    BY <1>1, <1>3, <1>4 DEF JoinedSame
  <2>2. \A x \in Queries : stage'[x] = "following" => stage[x] = "following"
    BY <1>3, <1>4 DEF Stages
  <2>3. \A l \in Queries : \A i \in DOMAIN Waiting(l) : Waiting(l)[i] \in Queries
    BY DEF TypeOK, Waiting
  <2> QED
    BY <1>8, <2>1, <2>2, <2>3 DEF WaitingFollow, FollowersWait
<1> QED
  BY <1>6, <1>7, <1>9, <1>10, <1>11, <1>12 DEF Uncoalesced

(* A duplicate is put on the list of its leader, once, or forwards on its  *)
(* own.                                                                    *)
LEMMA JoinKeeps ==
  ASSUME IInv, NEW q \in Queries, Join(q)
  PROVE  IInv'
<1> USE DEF IInv
<1>1. /\ stage[q] = "join"
      /\ UNCHANGED <<shared, ask, filter, active, todo, result, verdict, owns, refresh, answer, logged>>
  BY DEF Join
<1>2. /\ stage \in [Queries -> Stages] /\ joined \in [Queries -> Queries \cup {None}]
      /\ followers \in [Queries -> Seq(Queries) \cup {None}] /\ todo \in [Queries -> Seq(Queries)]
      /\ None \notin Queries /\ None \notin Seq(Queries)
  BY PipelineAssumption DEF TypeOK
<1>3. PICK l \in Queries : l = joined[q] /\ l # q /\ joined[l] = l /\ CacheKey(l) = CacheKey(q)
  BY <1>1, <1>2 DEF JoinedSame
<1>4. \A x \in Queries : joined[x] # q
  BY <1>2, <1>3 DEF JoinedSame
<1>5. \A x \in Queries : CacheKey(x)' = CacheKey(x)
  BY <1>1, KeyFrame
<1>6. CASE /\ followers[l] # None /\ followers' = [followers EXCEPT ![l] = Append(@, q)]
           /\ stage' = [stage EXCEPT ![q] = "following"] /\ UNCHANGED joined
  <2>1. PICK f \in Seq(Queries) : f = followers[l]
    BY <1>2, <1>6
  <2>2. /\ Append(f, q) \in Seq(Queries) /\ Append(f, q) # None
        /\ followers' = [followers EXCEPT ![l] = Append(f, q)]
    <3>1. Append(f, q) \in Seq(Queries)
      OBVIOUS
    <3> QED
      BY <1>2, <1>6, <2>1, <3>1
  <2>3. TypeOK'
    <3>1. followers' \in [Queries -> Seq(Queries) \cup {None}] /\ stage' \in [Queries -> Stages]
      BY <1>2, <1>6, <2>2 DEF Stages
    <3> QED
      BY <1>1, <1>6, <3>1 DEF TypeOK, shared
  <2>4. Uncoalesced'
    BY <1>1, <1>2, <1>6, CoalescingKeeps DEF Uncoalesced, Unanswered, Stages, shared
  <2>5. PendingLeads' /\ JoinedSame'
    BY <1>1, <1>2, <1>3, <1>4, <1>5, <1>6 DEF TypeOK, PendingLeads, JoinedSame, Early, shared
  <2>6. ListPlaced'
    BY <1>1, <1>2, <1>3, <1>6, <2>2 DEF ListPlaced
  <2>7. /\ Waiting(l) = f /\ Waiting(l)' = Append(f, q)
        /\ \A x \in Queries \ {l} : Waiting(x)' = Waiting(x)
    BY <1>1, <1>2, <1>6, <2>1, <2>2 DEF Waiting
  <2>8. \A x \in Queries : Waiting(x) \in Seq(Queries)
    BY <1>2 DEF Waiting
  <2>9. \A x \in Queries : \A i \in DOMAIN Waiting(x) : Waiting(x)[i] # q
    BY <1>1 DEF WaitingFollow
  <2>10. WaitingFollow'
    <3>1. ASSUME NEW x \in Queries \ {l}
          PROVE  /\ \A i \in DOMAIN Waiting(x)' : /\ stage'[Waiting(x)'[i]] = "following"
                                                  /\ joined'[Waiting(x)'[i]] = x
                 /\ \A i, j \in DOMAIN Waiting(x)' : Waiting(x)'[i] = Waiting(x)'[j] => i = j
      <4>1. PICK w \in Seq(Queries) : w = Waiting(x) /\ w = Waiting(x)'
        BY <2>7, <2>8
      <4>2. \A i \in DOMAIN w : stage[w[i]] = "following" /\ joined[w[i]] = x /\ w[i] \in Queries /\ w[i] # q
        <5>1. \A i \in DOMAIN w : w[i] \in Queries
          BY <4>1
        <5>2. \A i \in DOMAIN Waiting(x) : stage[Waiting(x)[i]] = "following" /\ joined[Waiting(x)[i]] = x
          BY DEF WaitingFollow
        <5> QED
          BY <2>9, <4>1, <5>1, <5>2
      <4>3. \A i, j \in DOMAIN w : w[i] = w[j] => i = j
        BY <4>1 DEF WaitingFollow
      <4> QED
        BY <1>2, <1>6, <4>1, <4>2, <4>3
    <3>2. /\ \A i \in DOMAIN Append(f, q) : /\ stage'[Append(f, q)[i]] = "following"
                                            /\ joined'[Append(f, q)[i]] = l
          /\ \A i, j \in DOMAIN Append(f, q) : Append(f, q)[i] = Append(f, q)[j] => i = j
      <4>1. /\ \A i \in 1..Len(f) : /\ f[i] \in Queries /\ f[i] # q
                                    /\ stage[f[i]] = "following" /\ joined[f[i]] = l
            /\ \A i, j \in 1..Len(f) : f[i] = f[j] => i = j
        BY <2>7, <2>8, <2>9 DEF WaitingFollow
      <4>2. /\ DOMAIN Append(f, q) = 1..(Len(f) + 1) /\ Append(f, q)[Len(f) + 1] = q
            /\ \A i \in 1..Len(f) : Append(f, q)[i] = f[i]
            /\ Len(f) \in Nat
        OBVIOUS
      <4>3. stage'[q] = "following" /\ joined'[q] = l
        BY <1>2, <1>3, <1>6
      <4>4. \A i \in 1..Len(f) : stage'[f[i]] = "following" /\ joined'[f[i]] = l
        BY <1>2, <1>6, <4>1
      <4> QED
        BY <4>1, <4>2, <4>3, <4>4
    <3> QED
      BY <2>7, <3>1, <3>2 DEF WaitingFollow
  <2>11. FollowersWait'
    <3>1. ASSUME NEW x \in Queries, stage[x] = "following"
          PROVE  \E i \in DOMAIN Waiting(joined[x])' : Waiting(joined[x])'[i] = x
      <4>1. PICK y \in Queries : y = joined[x]
        BY <1>2, <3>1 DEF JoinedSame
      <4>2. PICK i \in DOMAIN Waiting(y) : Waiting(y)[i] = x
        BY <3>1, <4>1 DEF FollowersWait
      <4>5. joined'[x] = y
        BY <1>1, <1>2, <1>6, <3>1, <4>1
      <4>3. CASE y = l
        <5>1. i \in 1..Len(f) /\ f[i] = x /\ Waiting(l)' = Append(f, q)
          BY <2>7, <4>2, <4>3
        <5>2. i \in DOMAIN Append(f, q) /\ Append(f, q)[i] = x
          BY <2>1, <5>1
        <5> QED
          BY <4>5, <4>3, <5>1, <5>2 DEF Waiting
      <4>4. CASE y # l
        <5>1. Waiting(y)' = Waiting(y)
          BY <2>7, <4>4
        <5> QED
          BY <4>5, <4>2, <5>1 DEF Waiting
      <4> QED
        BY <4>3, <4>4
    <3>2. Append(f, q)[Len(f) + 1] = q /\ Len(f) + 1 \in DOMAIN Append(f, q)
      BY <2>1
    <3> QED
      BY <1>2, <1>3, <1>6, <2>7, <3>1, <3>2 DEF FollowersWait
  <2> QED
    BY <2>3, <2>4, <2>5, <2>6, <2>10, <2>11 DEF Uncoalesced
<1>7. CASE /\ joined' = [joined EXCEPT ![q] = None] /\ UNCHANGED followers
           /\ stage' = [stage EXCEPT ![q] = "forward"]
  <2>1. TypeOK'
    BY <1>1, <1>2, <1>7 DEF TypeOK, Stages, shared
  <2>2. Uncoalesced'
    BY <1>1, <1>2, <1>7, CoalescingKeeps DEF Uncoalesced, Unanswered, Stages, shared
  <2>3. PendingLeads' /\ JoinedSame'
    BY <1>1, <1>2, <1>3, <1>4, <1>5, <1>7 DEF TypeOK, PendingLeads, JoinedSame, Early, shared
  <2>4. ListPlaced'
    BY <1>1, <1>2, <1>3, <1>7 DEF ListPlaced
  <2>5. \A x \in Queries : Waiting(x)' = Waiting(x)
    BY <1>1, <1>7 DEF Waiting
  <2>6. \A x \in Queries : stage[x] = "following" =>
          joined'[x] = joined[x] /\ joined[x] \in Queries /\ stage'[x] = "following"
    BY <1>1, <1>2, <1>7 DEF JoinedSame
  <2>7. WaitingFollow'
    <3>1. \A x \in Queries : \A i \in DOMAIN Waiting(x) : Waiting(x)[i] \in Queries
      BY DEF TypeOK, Waiting
    <3> QED
      BY <2>5, <2>6, <3>1 DEF WaitingFollow
  <2>8. FollowersWait'
    BY <1>2, <1>7, <2>5, <2>6 DEF FollowersWait
  <2> QED
    BY <2>1, <2>2, <2>3, <2>4, <2>7, <2>8 DEF Uncoalesced
<1> QED
  BY <1>3, <1>6, <1>7 DEF Join, MayFollow, Goto

(* A forwarded answer is the query's own and is judged by its own filter.  *)
LEMMA ForwardKeeps ==
  ASSUME IInv, NEW q \in Queries, Forward(q)
  PROVE  IInv'
<1> USE DEF IInv
<1>1. PICK s \in {"finish", "store"} :
        stage' = [stage EXCEPT ![q] = s] /\ s = (IF joined[q] = q THEN "finish" ELSE "store")
  BY DEF Forward, Goto, Leads
<1>2. /\ stage[q] = "forward"
      /\ UNCHANGED <<shared, ask, filter, active, joined, followers, todo, owns, refresh, answer, logged>>
  BY DEF Forward
<1>3. \/ /\ result' = [result EXCEPT ![q] = Fetched(q)]
         /\ verdict' = [verdict EXCEPT ![q] = active[q] /\ ProtectionBlocks(filter[q], q)]
      \/ UNCHANGED <<result, verdict>>
  BY DEF Forward
<1>4. Fetched(q) \in Keys
  BY <1>2, KeyIsKey
<1>5. result[q] = None /\ ~ verdict[q] /\ stage \in [Queries -> Stages] /\ result \in [Queries -> Keys \cup {None}]
      /\ verdict \in [Queries -> BOOLEAN] /\ active \in [Queries -> BOOLEAN]
  BY <1>2 DEF TypeOK, Judged, Unanswered
<1>6. TypeOK'
  <2>1. result' \in [Queries -> Keys \cup {None}]
    BY <1>3, <1>4, <1>5
  <2>2. (active[q] /\ ProtectionBlocks(filter[q], q)) \in BOOLEAN
    OBVIOUS
  <2>3. verdict' \in [Queries -> BOOLEAN]
    BY <1>3, <1>5, <2>2
  <2> QED
    BY <1>1, <1>2, <2>1, <2>3 DEF TypeOK, Stages, shared
<1>7. Arrivals'
  BY <1>1, <1>2, WorkArrivals DEF Stages
<1>8. CacheKeyed' /\ ResultOwn'
  BY <1>1, <1>2, <1>3, <1>5, KeyFrame DEF CacheKeyed, ResultOwn, shared
<1>9. Judged'
  <2>1. ASSUME NEW x \in Queries \ {q}
        PROVE  stage'[x] = stage[x] /\ result'[x] = result[x] /\ verdict'[x] = verdict[x]
    BY <1>1, <1>3, <1>5
  <2>2. stage'[q] \in {"finish", "store"}
    BY <1>1, <1>5
  <2>3. result'[q] # None => verdict'[q] = (active[q] /\ ProtectionBlocks(filter[q], q))
    BY <1>3, <1>5
  <2> QED
    BY <1>2, <2>1, <2>2, <2>3, KeyFrame DEF Judged, Unanswered
<1>10. Coalesced'
  BY <1>1, <1>2, CoalescedFrame DEF Coalesced, Stages, shared
<1>11. OneOutcome' /\ AnswersKeptApart' /\ OwnVerdict'
  BY <1>1, <1>2, QuietKeeps DEF Stages
<1>12. OwnsAtHit' /\ RefreshFlagOwned'
  BY <1>1, <1>2, <1>5, OwnersStay, FlagsUntouched DEF OwnsAtHit, shared
<1> QED
  BY <1>6, <1>7, <1>8, <1>9, <1>10, <1>11, <1>12 DEF Coalesced

(* The leader is taken out of the table before its list is closed.         *)
LEMMA FinishPendingKeeps ==
  ASSUME IInv, NEW q \in Queries, FinishPending(q)
  PROVE  IInv'
<1> USE DEF IInv
<1>1. /\ stage[q] = "finish" /\ stage' = [stage EXCEPT ![q] = "take"]
      /\ UNCHANGED <<filter_runtime, paused, cache, ask, filter, active, joined, followers, todo,
                     result, verdict, owns, refresh, answer, logged>>
  BY DEF FinishPending, Goto
<1>2. PICK k \in Keys : k = CacheKey(q)
  BY <1>1, KeyIsKey
<1>3. pending' = IF pending[k] = q THEN [pending EXCEPT ![k] = None] ELSE pending
  BY <1>2 DEF FinishPending
<1>4. /\ stage \in [Queries -> Stages] /\ joined \in [Queries -> Queries \cup {None}]
      /\ pending \in [Keys -> Queries \cup {None}] /\ None \notin Queries
  BY PipelineAssumption DEF TypeOK
<1>5. TypeOK'
  BY <1>1, <1>2, <1>3, <1>4 DEF TypeOK, Stages
<1>6. Uncoalesced'
  BY <1>1, CoalescingKeeps DEF Uncoalesced, Forwarded, Stages
<1>7. \A x \in Queries : CacheKey(x)' = CacheKey(x) /\ Waiting(x)' = Waiting(x)
  BY <1>1, KeyFrame DEF Waiting
<1>8. PendingLeads'
  <2>1. ASSUME NEW j \in Keys, pending'[j] # None PROVE pending'[j] = pending[j] /\ pending[j] # q
    BY <1>2, <1>3, <1>4, <2>1 DEF PendingLeads
  <2> QED
    BY <1>1, <1>4, <1>7, <2>1 DEF PendingLeads
<1>9. JoinedSame'
  BY <1>1, <1>4, <1>7 DEF JoinedSame, Early
<1>10. ListPlaced'
  BY <1>1, <1>4 DEF ListPlaced
<1>11. WaitingFollow' /\ FollowersWait'
  BY <1>1, <1>4, <1>7 DEF WaitingFollow, FollowersWait, JoinedSame
<1> QED
  BY <1>5, <1>6, <1>8, <1>9, <1>10, <1>11 DEF Uncoalesced

(* The list moves from the shared state to the leader's stack.             *)
LEMMA TakeKeeps ==
  ASSUME IInv, NEW q \in Queries, Take(q)
  PROVE  IInv'
<1> USE DEF IInv
<1>1. /\ stage[q] = "take" /\ stage' = [stage EXCEPT ![q] = "deliver"]
      /\ todo' = [todo EXCEPT ![q] = followers[q]] /\ followers' = [followers EXCEPT ![q] = None]
      /\ UNCHANGED <<shared, ask, filter, active, joined, result, verdict, owns, refresh, answer, logged>>
  BY DEF Take, Goto
<1>2. /\ stage \in [Queries -> Stages] /\ joined \in [Queries -> Queries \cup {None}]
      /\ followers \in [Queries -> Seq(Queries) \cup {None}] /\ todo \in [Queries -> Seq(Queries)]
      /\ None \notin Queries
  BY PipelineAssumption DEF TypeOK
<1>3. followers[q] # None /\ followers[q] \in Seq(Queries) /\ joined[q] = q
  BY <1>1, <1>2 DEF ListPlaced
<1>4. TypeOK'
  <2>1. todo' \in [Queries -> Seq(Queries)]
    BY <1>1, <1>2, <1>3
  <2>2. followers' \in [Queries -> Seq(Queries) \cup {None}]
    BY <1>1, <1>2
  <2> QED
    BY <1>1, <2>1, <2>2 DEF TypeOK, Stages, shared
<1>5. Uncoalesced'
  BY <1>1, CoalescingKeeps DEF Uncoalesced, Forwarded, Stages, shared
<1>6. \A x \in Queries : CacheKey(x)' = CacheKey(x) /\ Waiting(x)' = Waiting(x)
  BY <1>1, <1>2, <1>3, KeyFrame DEF Waiting
<1>7. PendingLeads' /\ JoinedSame'
  BY <1>1, <1>2, <1>6 DEF TypeOK, PendingLeads, JoinedSame, Early, shared
<1>8. ListPlaced'
  BY <1>1, <1>2, <1>3 DEF ListPlaced
<1>9. WaitingFollow' /\ FollowersWait'
  BY <1>1, <1>2, <1>6 DEF WaitingFollow, FollowersWait, JoinedSame
<1> QED
  BY <1>4, <1>5, <1>7, <1>8, <1>9 DEF Uncoalesced

(* Without its head, a list has the other entries, one place earlier.      *)
LEMMA TailEntries ==
  ASSUME NEW S, NEW f \in Seq(S), f # <<>>
  PROVE  /\ Head(f) = f[1] /\ 1 \in DOMAIN f /\ Head(f) \in S /\ Tail(f) \in Seq(S)
         /\ \A i \in DOMAIN Tail(f) : i \in Nat /\ i + 1 \in DOMAIN f /\ Tail(f)[i] = f[i + 1] /\ i + 1 # 1
         /\ \A i \in DOMAIN f : i # 1 => i - 1 \in DOMAIN Tail(f) /\ Tail(f)[i - 1] = f[i]
OBVIOUS

(* The leader gives its outcome to the first follower on its list, which   *)
(* asked for the same key.                                                 *)
LEMMA DeliverKeeps ==
  ASSUME IInv, NEW q \in Queries, Deliver(q)
  PROVE  IInv'
<1> USE DEF IInv
<1>1. /\ stage[q] = "deliver"
      /\ UNCHANGED <<shared, ask, filter, active, joined, followers, result, verdict, owns, refresh>>
  BY DEF Deliver
<1>2. /\ stage \in [Queries -> Stages] /\ joined \in [Queries -> Queries \cup {None}]
      /\ followers \in [Queries -> Seq(Queries) \cup {None}] /\ todo \in [Queries -> Seq(Queries)]
      /\ None \notin Queries
  BY PipelineAssumption DEF TypeOK
<1>3. CASE todo[q] = <<>>
  <2>1. stage' = [stage EXCEPT ![q] = "store"] /\ UNCHANGED <<todo, answer, logged>>
    BY <1>3 DEF Deliver, Goto
  <2>2. TypeOK'
    BY <1>1, <2>1 DEF TypeOK, Stages, shared
  <2>3. Uncoalesced'
    BY <1>1, <2>1, CoalescingKeeps DEF Uncoalesced, Forwarded, Stages, shared
  <2>4. Coalesced'
    BY <1>1, <1>3, <2>1, CoalescedFrame DEF Coalesced, Stages, shared
  <2> QED
    BY <2>2, <2>3, <2>4 DEF Uncoalesced, Coalesced
<1>4. CASE todo[q] # <<>>
  <2>1. PICK t \in Seq(Queries) : t = todo[q] /\ t # <<>>
    BY <1>2, <1>4
  <2>2. PICK f \in Queries : f = Head(t)
    BY <2>1, TailEntries
  <2>3. EndWith(f, Outcome(q)) /\ todo' = [todo EXCEPT ![q] = Tail(t)]
    BY <1>4, <2>1, <2>2 DEF Deliver
  <2>4. followers[q] = None /\ Waiting(q) = t
    BY <1>1, <2>1 DEF ListPlaced, Waiting
  <2>5. stage[f] = "following" /\ joined[f] = q /\ f # q
    BY <1>1, <2>1, <2>2, <2>4, TailEntries DEF WaitingFollow
  <2>6. /\ Outcome(q) \in Answers /\ Outcome(q).kind \in {"blocked", "nothing", "data"}
        /\ Outcome(q).kind = "data" => result[q] # None /\ Outcome(q).data = result[q]
    BY DEF TypeOK, Outcome, Answer, DataAnswer, Answers
  <2>7. /\ stage' = [stage EXCEPT ![f] = "done"]
        /\ \A x \in Queries \ {f} : answer'[x] = answer[x]
    BY <2>3, <2>6, EndingTyped
  <2>8. TypeOK'
    <3>1. answer' \in [Queries -> Answers] /\ logged' \in [Queries -> Nat] /\ stage' \in [Queries -> Stages]
      BY <2>3, <2>6, EndingTyped
    <3>2. Tail(t) \in Seq(Queries)
      BY <2>1, TailEntries
    <3>3. todo' \in [Queries -> Seq(Queries)]
      BY <1>2, <2>3, <3>2
    <3> QED
      BY <1>1, <3>1, <3>3 DEF TypeOK, shared
  <2>9. Arrivals'
    BY <1>1, <2>5, <2>7, WorkArrivals DEF Stages
  <2>10. CacheKeyed' /\ ResultOwn'
    BY <1>1, <1>2, <2>7, KeyFrame DEF CacheKeyed, ResultOwn, shared
  <2>11. Judged'
    BY <1>1, <1>2, <2>7, KeyFrame DEF Judged, Unanswered
  <2>12. OneOutcome' /\ AnswersKeptApart' /\ OwnVerdict'
    <3>1. CacheKey(q) = CacheKey(f) /\ Fetched(q) = Fetched(f)
      BY <1>1, <1>2, <2>5, KeyIsKey DEF JoinedSame
    <3>2. Outcome(q).kind = "data" => Outcome(q).data = Fetched(f)'
      BY <1>1, <2>6, <3>1, KeyFrame DEF ResultOwn
    <3>3. joined'[f] \notin {None, f}
      BY <1>1, <1>2, <2>5
    <3> QED
      BY <1>1, <2>3, <2>5, <2>6, <2>8, <3>2, <3>3, EndingKeeps
  <2>13. OwnsAtHit' /\ RefreshFlagOwned'
    BY <1>1, <1>2, <2>5, <2>7, OwnersStay, FlagsUntouched DEF OwnsAtHit, shared
  <2>14. \A x \in Queries : CacheKey(x)' = CacheKey(x)
    BY <1>1, KeyFrame
  <2>15. PendingLeads' /\ JoinedSame'
    BY <1>1, <1>2, <2>5, <2>7, <2>14 DEF TypeOK, PendingLeads, JoinedSame, Early, shared
  <2>16. ListPlaced'
    BY <1>1, <1>2, <2>3, <2>5, <2>7 DEF ListPlaced
  <2>17. Waiting(q)' = Tail(t) /\ \A x \in Queries \ {q} : Waiting(x)' = Waiting(x)
    BY <1>1, <1>2, <2>3, <2>4 DEF Waiting
  <2>18. \A x \in Queries : \A i \in DOMAIN Waiting(x) : Waiting(x)[i] \in Queries
    BY DEF TypeOK, Waiting
  <2>19. WaitingFollow'
    <3>1. ASSUME NEW x \in Queries \ {q}
          PROVE  /\ \A i \in DOMAIN Waiting(x)' : /\ stage'[Waiting(x)'[i]] = "following"
                                                  /\ joined'[Waiting(x)'[i]] = x
                 /\ \A i, j \in DOMAIN Waiting(x)' : Waiting(x)'[i] = Waiting(x)'[j] => i = j
      BY <1>1, <1>2, <2>5, <2>7, <2>17, <2>18 DEF WaitingFollow
    <3>2. /\ \A i \in DOMAIN t : /\ t[i] \in Queries /\ stage[t[i]] = "following" /\ joined[t[i]] = q
          /\ \A i, j \in DOMAIN t : t[i] = t[j] => i = j
      BY <2>4, <2>18 DEF WaitingFollow
    <3>3. ASSUME NEW i \in DOMAIN Tail(t)
          PROVE  /\ Tail(t)[i] \in Queries /\ Tail(t)[i] # f
                 /\ stage[Tail(t)[i]] = "following" /\ joined[Tail(t)[i]] = q
      BY <2>1, <2>2, <3>2, TailEntries
    <3>4. \A i, j \in DOMAIN Tail(t) : Tail(t)[i] = Tail(t)[j] => i = j
      BY <2>1, <3>2, TailEntries
    <3>5. \A i \in DOMAIN Tail(t) : stage'[Tail(t)[i]] = "following" /\ joined'[Tail(t)[i]] = q
      BY <1>1, <1>2, <2>7, <3>3
    <3> QED
      BY <2>17, <3>1, <3>4, <3>5 DEF WaitingFollow
  <2>20. FollowersWait'
    <3>1. ASSUME NEW x \in Queries, stage'[x] = "following"
          PROVE  \E i \in DOMAIN Waiting(joined[x])' : Waiting(joined[x])'[i] = x
      <4>1. stage[x] = "following" /\ x # f
        BY <1>2, <2>7, <3>1
      <4>2. PICK y \in Queries : y = joined[x]
        BY <1>2, <4>1 DEF JoinedSame
      <4>3. PICK i \in DOMAIN Waiting(y) : Waiting(y)[i] = x
        BY <4>1, <4>2 DEF FollowersWait
      <4>4. CASE y = q
        <5>1. i # 1
          BY <2>1, <2>2, <2>4, <4>1, <4>3, <4>4, TailEntries
        <5>2. i - 1 \in DOMAIN Tail(t) /\ Tail(t)[i - 1] = x
          BY <2>1, <2>4, <4>3, <4>4, <5>1, TailEntries
        <5> QED
          BY <1>1, <2>17, <4>2, <4>4, <5>2
      <4>5. CASE y # q
        BY <1>1, <2>17, <4>2, <4>3, <4>5
      <4> QED
        BY <4>4, <4>5
    <3> QED
      BY <1>1, <3>1 DEF FollowersWait
  <2> QED
    BY <2>8, <2>9, <2>10, <2>11, <2>12, <2>13, <2>15, <2>16, <2>19, <2>20
<1> QED
  BY <1>3, <1>4

(* What is cached is stored under the key it was fetched for.              *)
LEMMA StoreKeeps ==
  ASSUME IInv, NEW q \in Queries, Store(q)
  PROVE  IInv'
<1> USE DEF IInv
<1>1. /\ stage[q] = "store" /\ stage' = [stage EXCEPT ![q] = "reply"]
      /\ UNCHANGED <<filter_runtime, paused, pending, ask, filter, active, joined, followers, todo,
                     result, verdict, owns, refresh, answer, logged>>
  BY DEF Store, Goto
<1>2. PICK k \in Keys : k = CacheKey(q) /\ Fetched(q) = k
  BY <1>1, KeyIsKey
<1>3. UNCHANGED cache \/ cache' \in Stored(k, k)
  BY <1>2 DEF Store, ResultOwn
<1>4. CacheSound(cache')
  BY <1>3, StoredSound DEF CacheSound, TypeOK, CacheKeyed
<1>5. TypeOK'
  BY <1>1, <1>4 DEF TypeOK, CacheSound, Stages
<1>6. Arrivals'
  BY <1>1, WorkArrivals DEF Stages
<1>7. CacheKeyed' /\ ResultOwn' /\ Judged'
  BY <1>1, <1>4, KeyFrame DEF TypeOK, CacheSound, CacheKeyed, ResultOwn, Judged, Unanswered
<1>8. Coalesced'
  BY <1>1, CoalescedFrame DEF Coalesced, Stages
<1>9. OneOutcome' /\ AnswersKeptApart' /\ OwnVerdict'
  BY <1>1, QuietKeeps DEF Stages
<1>10. OwnsAtHit'
  BY <1>1 DEF TypeOK, OwnsAtHit
<1>11. RefreshFlagOwned'
  BY <1>1, <1>3, StoredSound, OwnersStay, FlagsKept, FlagsUntouched
<1> QED
  BY <1>5, <1>6, <1>7, <1>8, <1>9, <1>10, <1>11 DEF Coalesced

(* The query's own client gets the outcome its own filter allows.          *)
LEMMA ReplyKeeps ==
  ASSUME IInv, NEW q \in Queries, Reply(q)
  PROVE  IInv'
<1> USE DEF IInv
<1>1. /\ stage[q] = "reply" /\ EndWith(q, Outcome(q))
      /\ UNCHANGED <<shared, ask, filter, active, joined, followers, todo, result, verdict, owns, refresh>>
  BY DEF Reply
<1>2. /\ Outcome(q) \in Answers /\ Outcome(q).kind \in {"blocked", "nothing", "data"}
      /\ Outcome(q).kind = "data" => result[q] # None /\ ~ verdict[q] /\ Outcome(q).data = result[q]
  BY DEF TypeOK, Outcome, Answer, DataAnswer, Answers
<1>3. stage' = [stage EXCEPT ![q] = "done"] /\ \A x \in Queries \ {q} : answer'[x] = answer[x]
  BY <1>1, <1>2, EndingTyped
<1>4. TypeOK'
  BY <1>1, <1>2, EndingTyped DEF TypeOK, shared
<1>5. Arrivals'
  BY <1>1, <1>3, WorkArrivals DEF Stages
<1>6. CacheKeyed' /\ ResultOwn' /\ Judged'
  BY <1>1, <1>3, KeyFrame DEF TypeOK, CacheKeyed, ResultOwn, Judged, Unanswered, shared
<1>7. Coalesced'
  BY <1>1, <1>3, CoalescedFrame DEF Coalesced, Stages, shared
<1>8. OneOutcome' /\ AnswersKeptApart' /\ OwnVerdict'
  <2>1. Outcome(q).kind = "data" => /\ Outcome(q).data = Fetched(q)'
                                    /\ active'[q] => ~ ProtectionBlocks(filter[q], q)'
    BY <1>1, <1>2, KeyFrame DEF ResultOwn, Judged
  <2> QED
    BY <1>1, <1>2, <1>4, <2>1, EndingKeeps
<1>9. OwnsAtHit' /\ RefreshFlagOwned'
  BY <1>1, <1>3, OwnersStay, FlagsUntouched DEF TypeOK, OwnsAtHit, shared
<1> QED
  BY <1>4, <1>5, <1>6, <1>7, <1>8, <1>9 DEF Coalesced

-----------------------------------------------------------------------------
(* A step that touches no query, and leaves a sound cache whose flags have *)
(* owners, keeps the invariant.                                            *)
LEMMA AroundKeeps ==
  ASSUME IInv, filter_runtime' \in Filters, paused' \in BOOLEAN, CacheSound(cache'), RefreshFlagOwned',
         refresh' \in [Queries -> {"none", "queued", "running", "done"}],
         \A x \in Queries : stage[x] = "new" => refresh'[x] = refresh[x],
         UNCHANGED <<pending, stage, ask, filter, active, joined, followers, todo, result, verdict, owns,
                     answer, logged>>
  PROVE  IInv'
<1> USE DEF IInv
<1>1. TypeOK' /\ Arrivals' /\ CacheKeyed'
  BY DEF TypeOK, Arrivals, CacheSound, CacheKeyed
<1>2. ResultOwn' /\ Judged'
  BY KeyFrame DEF ResultOwn, Judged
<1>3. \A x \in Queries : CacheKey(x)' = CacheKey(x) /\ Waiting(x)' = Waiting(x)
  BY KeyFrame DEF Waiting
<1>4. PendingLeads' /\ JoinedSame' /\ ListPlaced'
  BY <1>3, PipelineAssumption DEF TypeOK, PendingLeads, JoinedSame, ListPlaced
<1>5. WaitingFollow' /\ FollowersWait'
  BY <1>3 DEF TypeOK, WaitingFollow, FollowersWait, JoinedSame
<1>6. OneOutcome' /\ AnswersKeptApart' /\ OwnVerdict' /\ OwnsAtHit'
  BY KeyFrame DEF OneOutcome, AnswersKeptApart, OwnVerdict, OwnsAtHit
<1> QED
  BY <1>1, <1>2, <1>4, <1>5, <1>6

(* A refresh task lowers its flag, or replaces the entry.                  *)
LEMMA RefreshKeeps ==
  ASSUME IInv, NEW q \in Queries, RefreshTask(q)
  PROVE  IInv'
<1> USE DEF IInv
<1>1. /\ refresh[q] \in {"queued", "running"}
      /\ UNCHANGED <<filter_runtime, paused, pending, stage, ask, filter, active, joined, followers, todo,
                     result, verdict, owns, answer, logged>>
  BY DEF RefreshTask, StartRefresh, FinishRefresh
<1>2. stage[q] # "new"
  BY <1>1 DEF Arrivals
<1>3. PICK k \in Keys : k = CacheKey(q) /\ Fetched(q) = k
  BY <1>2, KeyIsKey
<1>4. \/ UNCHANGED cache /\ refresh' = [refresh EXCEPT ![q] = "running"]
      \/ /\ cache' = FlagCleared(k) \/ cache' \in Stored(k, k)
         /\ refresh' = [refresh EXCEPT ![q] = "done"]
  BY <1>3 DEF RefreshTask, StartRefresh, FinishRefresh, Refreshed
<1>5. CacheSound(cache')
  BY <1>4, FlagClearedSound, StoredSound DEF CacheSound, TypeOK, CacheKeyed
<1>6. refresh' \in [Queries -> {"none", "queued", "running", "done"}] /\
      \A x \in Queries \ {q} : refresh'[x] = refresh[x]
  BY <1>4 DEF TypeOK
<1>7. ASSUME NEW j \in Keys, NEW x \in Queries, Owner(x, j), x # q PROVE Owner(x, j)'
  BY <1>1, <1>6, <1>7, KeyFrame DEF Owner
<1>8. RefreshFlagOwned'
  <2>1. CASE UNCHANGED cache /\ refresh' = [refresh EXCEPT ![q] = "running"]
    <3>1. ASSUME NEW j \in Keys, Owner(q, j) PROVE Owner(q, j)'
      BY <1>1, <2>1, <3>1, KeyFrame DEF Owner, TypeOK
    <3> QED
      BY <1>7, <2>1, <3>1, FlagsUntouched
  <2>2. CASE cache' = FlagCleared(k) \/ cache' \in Stored(k, k)
    <3>1. FlagsOf(cache', k)
      BY <2>2, FlagClearedSound, StoredSound
    <3>2. ASSUME NEW j \in Keys, j # k PROVE ~ Owner(q, j)
      BY <1>3, <3>2 DEF Owner
    <3> QED
      BY <1>7, <3>1, <3>2, FlagsKept
  <2> QED
    BY <1>4, <2>1, <2>2
<1> QED
  BY <1>1, <1>2, <1>5, <1>6, <1>8, AroundKeeps DEF TypeOK

(* New filters, the pause, a cleared cache and time touch no query.        *)
LEMMA EnvironmentKeeps ==
  ASSUME IInv, Environment
  PROVE  IInv'
<1> USE DEF IInv
<1>1. /\ filter_runtime' \in Filters /\ paused' \in BOOLEAN
      /\ UNCHANGED <<pending, stage, ask, filter, active, joined, followers, todo, result, verdict, owns,
                     refresh, answer, logged>>
  BY DEF Environment, ReplaceFilter, TogglePause, ClearCache, Age, TypeOK
<1>2. \A j \in Keys, x \in Queries : Owner(x, j) => Owner(x, j)'
  BY <1>1, OwnersStay
<1>3. CASE UNCHANGED cache
  BY <1>1, <1>2, <1>3, FlagsUntouched, AroundKeeps DEF TypeOK, CacheKeyed, CacheSound
<1>4. CASE ClearCache
  <2>1. CacheSound(cache') /\ RefreshFlagOwned'
    BY <1>4 DEF ClearCache, CacheSound, RefreshFlagOwned
  <2> QED
    BY <1>1, <2>1, AroundKeeps DEF TypeOK
<1>5. ASSUME NEW k \in Keys, Age(k) PROVE IInv'
  <2>1. cache[k] \in Entries /\ cache[k] # None /\ cache[k].age \in {"fresh", "expiring", "stale"}
    BY <1>5 DEF Age, TypeOK, Entries, Ages
  <2>2. PICK g \in Ages : cache' = [cache EXCEPT ![k].age = g]
    BY <1>5, <2>1 DEF Age, Ages
  <2> DEFINE e == [cache[k] EXCEPT !.age = g]
  <2>3. e \in Entries /\ e.data = cache[k].data /\ e.refreshing = cache[k].refreshing
    BY <2>1 DEF Entries
  <2>4. cache' = [cache EXCEPT ![k] = e]
    BY <2>2
  <2> HIDE DEF e
  <2>5. CacheSound(cache')
    BY <2>1, <2>3, <2>4 DEF CacheSound, CacheKeyed, TypeOK
  <2>6. \A j \in Keys : cache'[j] # None /\ cache'[j].refreshing => cache[j] # None /\ cache[j].refreshing
    BY <2>1, <2>3, <2>4 DEF TypeOK
  <2>7. RefreshFlagOwned'
    BY <1>2, <2>6 DEF RefreshFlagOwned, Owner
  <2> QED
    BY <1>1, <2>5, <2>7, AroundKeeps DEF TypeOK
<1> QED
  BY <1>3, <1>4, <1>5 DEF Environment, ReplaceFilter, TogglePause

-----------------------------------------------------------------------------
(* Every step keeps the invariant.                                         *)
LEMMA Inductive == IInv /\ [Next]_vars => IInv'
<1> SUFFICES ASSUME IInv, [Next]_vars PROVE IInv'
  OBVIOUS
<1>1. ASSUME NEW q \in Queries, Arrive(q) PROVE IInv'
  BY <1>1, DenyKeeps, AdmitKeeps DEF Arrive
<1>2. ASSUME NEW q \in Queries, Work(q) PROVE IInv'
  BY <1>2, DecideKeeps, LookupKeeps, ServeHitKeeps, BeginKeeps, JoinKeeps, ForwardKeeps,
     FinishPendingKeeps, TakeKeeps, DeliverKeeps, StoreKeeps, ReplyKeeps DEF Work
<1>3. ASSUME NEW q \in Queries, RefreshTask(q) PROVE IInv'
  BY <1>3, RefreshKeeps
<1>4. CASE Environment
  BY <1>4, EnvironmentKeeps
<1>5. CASE UNCHANGED vars
  <2>1. RefreshFlagOwned'
    BY <1>5, OwnersStay, FlagsUntouched DEF vars, IInv
  <2> QED
    BY <1>5, <2>1, AroundKeeps DEF vars, IInv, TypeOK, CacheKeyed, CacheSound
<1> QED
  BY <1>1, <1>2, <1>3, <1>4, <1>5 DEF Next

(* The invariant holds in every reachable state.                           *)
THEOREM Invariant == Spec => []IInv
BY InitInv, Inductive, PTL DEF Spec

(* The variables of the pipeline keep their types.                         *)
THEOREM TypeCorrect == Spec => []TypeOK
<1>1. IInv => TypeOK
  BY DEF IInv
<1> QED
  BY <1>1, Invariant, PTL

(* No client ever gets data that was fetched for another name, through     *)
(* another upstream pool or under another filtering policy: not from the   *)
(* cache, not as a follower, not after any hot replacement.                *)
THEOREM AnswersApart == Spec => []AnswersKeptApart
<1>1. IInv => AnswersKeptApart
  BY DEF IInv
<1> QED
  BY <1>1, Invariant, PTL

(* A query that forwards or hits the cache while filtering is active never *)
(* gets an answer that its own filter snapshot blocks.                     *)
THEOREM VerdictOwn == Spec => []OwnVerdict
<1>1. IInv => OwnVerdict
  BY DEF IInv
<1> QED
  BY <1>1, Invariant, PTL

(* Coalescing leaves no released query without a leader that will answer   *)
(* it, and gives no query two outcomes.                                    *)
THEOREM CoalescingCorrect == Spec => []CoalescingSound
<1>1. IInv => FollowersHaveLeader
  <2> SUFFICES ASSUME IInv, NEW q \in Queries, stage[q] = "following"
               PROVE  \E l \in Queries :
                         \/ /\ stage[l] \in {"forward", "finish", "take"} /\ followers[l] # None
                            /\ \E i \in DOMAIN followers[l] : followers[l][i] = q
                         \/ stage[l] = "deliver" /\ \E i \in DOMAIN todo[l] : todo[l][i] = q
    BY DEF FollowersHaveLeader
  <2>1. PICK l \in Queries : l = joined[q]
    BY DEF IInv, TypeOK, JoinedSame
  <2>2. PICK i \in DOMAIN Waiting(l) : Waiting(l)[i] = q
    BY <2>1 DEF IInv, FollowersWait
  <2>3. CASE followers[l] # None
    BY <2>2, <2>3 DEF IInv, Waiting, ListPlaced
  <2>4. CASE followers[l] = None
    <3>1. todo[l] # <<>>
      BY <2>2, <2>4 DEF Waiting
    <3> QED
      BY <2>2, <2>4, <3>1 DEF IInv, Waiting, ListPlaced
  <2> QED
    BY <2>3, <2>4
<1>2. IInv => CoalescingSound
  BY <1>1 DEF IInv, CoalescingSound
<1> QED
  BY <1>2, Invariant, PTL

(* A raised refresh flag always has a query or a task that will lower it.  *)
THEOREM RefreshFlagsOwned == Spec => []RefreshFlagOwned
<1>1. IInv => RefreshFlagOwned
  BY DEF IInv
<1> QED
  BY <1>1, Invariant, PTL
=============================================================================
