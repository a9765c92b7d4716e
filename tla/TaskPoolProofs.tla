--------------------------- MODULE TaskPoolProofs ---------------------------
(***************************************************************************)
(* Proofs about TaskPool for every number of tasks, submitters and         *)
(* threads and every value of min_threads, max_threads and queue_capacity. *)
(*                                                                         *)
(* WorkerCountExact, IdleCountExact and NoLostWakeup equate a counter or a *)
(* queue length with the size of a set of threads, so every step comes     *)
(* down to how many threads it moves into and out of that set: the         *)
(* lemmas WorkerMove and SubmitterMove.                                    *)
(*                                                                         *)
(* GrowsToDemand speaks of the moments when nobody submits.  DemandMet     *)
(* holds at all others as well, because it counts with the free threads    *)
(* each submitter that will still start one.                               *)
(***************************************************************************)
EXTENDS TaskPool, FiniteSetTheorems, TLAPS

Live == WorkerStates \ {"dead"}
Asleep == {"waiting", "woken", "timedout"}
Awake == {"ready", "locked", "woken", "timedout", "expired"}

(* The mutex field names the one worker inside a critical section. *)
LockHeld ==
    \A w \in Workers : worker[w] \in {"locked", "expired"} <=> lock = w

(* A worker that runs has a task. *)
RunningHasTask ==
    \A w \in Workers : worker[w] = "running" => running[w] \in Tasks

(* The inductive invariant. *)
IInv ==
    /\ TypeOK
    /\ LockHeld
    /\ RunningHasTask
    /\ WorkerCountExact
    /\ IdleCountExact
    /\ NoLostWakeup

(* A step in which one thread changes its control state. *)
WorkerGoes(w, v) == worker' = [worker EXCEPT ![w] = v]
SubmitterGoes(s, v) == submitter' = [submitter EXCEPT ![s] = v]

(* Changing one value of a function changes the number of arguments whose  *)
(* value lies in P by at most one.                                         *)
LEMMA CountMove ==
    ASSUME NEW W, IsFiniteSet(W), NEW S, NEW f \in [W -> S],
           NEW x \in W, NEW v \in S, NEW P
    PROVE  LET old == {y \in W : f[y] \in P}
               new == {y \in W : [f EXCEPT ![x] = v][y] \in P}
           IN  /\ Cardinality(old) \in Nat
               /\ Cardinality(new) \in Nat
               /\ f[x] \in P /\ v \in P => Cardinality(new) = Cardinality(old)
               /\ f[x] \notin P /\ v \notin P =>
                     Cardinality(new) = Cardinality(old)
               /\ f[x] \notin P /\ v \in P =>
                     Cardinality(new) = Cardinality(old) + 1
               /\ f[x] \in P /\ v \notin P =>
                     Cardinality(new) = Cardinality(old) - 1
<1> DEFINE old == {y \in W : f[y] \in P}
           new == {y \in W : [f EXCEPT ![x] = v][y] \in P}
<1>1. IsFiniteSet(old) /\ IsFiniteSet(new)
  BY FS_Subset
<1>2. Cardinality(old) \in Nat /\ Cardinality(new) \in Nat
  BY <1>1, FS_CardinalityType
<1>3. (f[x] \in P <=> v \in P) => new = old
  OBVIOUS
<1>4. f[x] \notin P /\ v \in P => new = old \cup {x} /\ x \notin old
  OBVIOUS
<1>5. f[x] \in P /\ v \notin P => new = old \ {x} /\ x \in old
  OBVIOUS
<1>6. f[x] \notin P /\ v \in P => Cardinality(new) = Cardinality(old) + 1
  BY <1>1, <1>4, FS_AddElement
<1>7. f[x] \in P /\ v \notin P => Cardinality(new) = Cardinality(old) - 1
  BY <1>1, <1>5, FS_RemoveElement
<1> QED
  BY <1>2, <1>3, <1>6, <1>7

(* How a step of one worker changes the number of workers in P. *)
LEMMA WorkerMove ==
    ASSUME TypeOK, NEW w \in Workers, NEW v \in WorkerStates,
           WorkerGoes(w, v), NEW P
    PROVE  /\ Cardinality(InState(P)) \in Nat
           /\ Cardinality(InState(P)') \in Nat
           /\ worker[w] \in P /\ v \in P =>
                 Cardinality(InState(P)') = Cardinality(InState(P))
           /\ worker[w] \notin P /\ v \notin P =>
                 Cardinality(InState(P)') = Cardinality(InState(P))
           /\ worker[w] \notin P /\ v \in P =>
                 Cardinality(InState(P)') = Cardinality(InState(P)) + 1
           /\ worker[w] \in P /\ v \notin P =>
                 Cardinality(InState(P)') = Cardinality(InState(P)) - 1
<1>1. worker \in [Workers -> WorkerStates] /\ IsFiniteSet(Workers)
  BY PoolAssumption DEF TypeOK
<1>2. InState(P)' = {y \in Workers : [worker EXCEPT ![w] = v][y] \in P}
  BY DEF InState, WorkerGoes
<1>3. InState(P) = {y \in Workers : worker[y] \in P}
  BY DEF InState
<1> QED
  BY <1>1, <1>2, <1>3, CountMove

(* How a step of one submitter changes the number of submitters in P. *)
LEMMA SubmitterMove ==
    ASSUME TypeOK, NEW s \in Submitters, NEW v \in SubmitterStates,
           SubmitterGoes(s, v), NEW P
    PROVE  /\ Cardinality(Submitting(P)) \in Nat
           /\ Cardinality(Submitting(P)') \in Nat
           /\ submitter[s] \in P /\ v \in P =>
                 Cardinality(Submitting(P)') = Cardinality(Submitting(P))
           /\ submitter[s] \notin P /\ v \notin P =>
                 Cardinality(Submitting(P)') = Cardinality(Submitting(P))
           /\ submitter[s] \notin P /\ v \in P =>
                 Cardinality(Submitting(P)') = Cardinality(Submitting(P)) + 1
           /\ submitter[s] \in P /\ v \notin P =>
                 Cardinality(Submitting(P)') = Cardinality(Submitting(P)) - 1
<1>1. submitter \in [Submitters -> SubmitterStates] /\ IsFiniteSet(Submitters)
  BY PoolAssumption DEF TypeOK
<1>2. Submitting(P)' =
        {y \in Submitters : [submitter EXCEPT ![s] = v][y] \in P}
  BY DEF Submitting, SubmitterGoes
<1>3. Submitting(P) = {y \in Submitters : submitter[y] \in P}
  BY DEF Submitting
<1> QED
  BY <1>1, <1>2, <1>3, CountMove, SMTT(30)

(* The sizes of the thread sets are natural numbers. *)
LEMMA CountsAreNat ==
    ASSUME NEW P
    PROVE  Cardinality(InState(P)) \in Nat /\ Cardinality(Submitting(P)) \in Nat
<1>1. IsFiniteSet(InState(P)) /\ IsFiniteSet(Submitting(P))
  BY FS_Subset, PoolAssumption DEF InState, Submitting
<1> QED
  BY <1>1, FS_CardinalityType

(* The counters start exact and no thread is asleep. *)
LEMMA InitIInv == Init => IInv
<1> SUFFICES ASSUME Init PROVE IInv
  OBVIOUS
<1>1. PICK S \in SUBSET Workers :
         /\ Cardinality(S) <= MinThreads
         /\ worker = [w \in Workers |-> IF w \in S THEN "ready" ELSE "dead"]
         /\ worker_count = Cardinality(S)
         /\ failures = MinThreads - Cardinality(S)
  BY DEF Init
<1>2. IsFiniteSet(S) /\ Cardinality(S) \in Nat
  BY PoolAssumption, FS_Subset, FS_CardinalityType
<1>3. TypeOK
  BY <1>1, <1>2, PoolAssumption DEF Init, TypeOK, WorkerStates, SubmitterStates
<1>4. LockHeld /\ RunningHasTask
  BY <1>1, PoolAssumption DEF Init, LockHeld, RunningHasTask
<1>5. InState(Live) = S /\ Submitting({"starting"}) = {}
  BY <1>1 DEF Init, InState, Submitting, Live, WorkerStates
<1>6. InState(Asleep) = {} /\ InState({"waiting"}) = {}
  BY <1>1 DEF InState, Asleep
<1>7. WorkerCountExact
  <2>1. Cardinality(Submitting({"starting"})) = 0
    BY <1>5, FS_EmptySet
  <2>2. worker_count <= MaxThreads
    BY <1>1, <1>2, PoolAssumption
  <2>3. worker_count = Cardinality(InState(Live))
                         + Cardinality(Submitting({"starting"}))
    BY <1>1, <1>2, <1>5, <2>1
  <2> QED
    BY <2>2, <2>3 DEF WorkerCountExact, Live
<1>8. IdleCountExact
  BY <1>6, FS_EmptySet DEF Init, IdleCountExact, Asleep
<1>9. NoLostWakeup
  BY <1>6 DEF NoLostWakeup
<1> QED
  BY <1>3, <1>4, <1>7, <1>8, <1>9 DEF IInv

(* The counts of IInv restated with the sets named above. *)
LEMMA CountsOfIInv ==
    ASSUME IInv
    PROVE  /\ worker_count = Cardinality(InState(Live))
                               + Cardinality(Submitting({"starting"}))
           /\ idle_workers = Cardinality(InState(Asleep))
BY DEF IInv, WorkerCountExact, IdleCountExact, Live, Asleep

(* A step that moves no thread. *)
LEMMA SubmittersOnly ==
    ASSUME TypeOK, UNCHANGED worker, NEW P
    PROVE  InState(P)' = InState(P)
BY DEF InState

LEMMA WorkersOnly ==
    ASSUME TypeOK, UNCHANGED submitter, NEW P
    PROVE  Submitting(P)' = Submitting(P)
BY DEF Submitting

(* Type correctness is preserved; the counters stay natural because they   *)
(* are exact, so a step that decrements one finds it positive.             *)
LEMMA TypeStep ==
    ASSUME IInv, Next PROVE TypeOK'
<1> USE DEF IInv, WorkerStates, SubmitterStates
<1>1. ASSUME NEW s \in Submitters, NEW t \in Tasks, Reject(s, t)
      PROVE  TypeOK'
  BY <1>1 DEF TypeOK, Reject
<1>2. ASSUME NEW s \in Submitters, NEW t \in Tasks, Push(s, t)
      PROVE  TypeOK'
  BY <1>2 DEF TypeOK, Push
<1>3. ASSUME NEW s \in Submitters, Notify(s)
      PROVE  TypeOK'
  BY <1>3 DEF TypeOK, Notify, InState
<1>4. ASSUME NEW s \in Submitters, CheckIdle(s)
      PROVE  TypeOK'
  BY <1>4 DEF TypeOK, CheckIdle
<1>5. ASSUME NEW s \in Submitters, Reserve(s)
      PROVE  TypeOK'
  <2>1. CASE CanGrow
    <3>1. /\ worker_count' = worker_count + 1
          /\ submitter' = [submitter EXCEPT ![s] = "starting"]
      BY <1>5, <2>1 DEF Reserve
    <3> QED
      BY <1>5, <3>1 DEF TypeOK, Reserve
  <2>2. CASE ~CanGrow
    BY <1>5, <2>2 DEF TypeOK, Reserve
  <2> QED
    BY <2>1, <2>2
<1>6. ASSUME NEW s \in Submitters, NEW w \in Workers, StartThread(s, w)
      PROVE  TypeOK'
  BY <1>6 DEF TypeOK, StartThread
<1>7. ASSUME NEW s \in Submitters, StartFails(s)
      PROVE  TypeOK'
  <2>1. s \in Submitting({"starting"}) /\ IsFiniteSet(Submitting({"starting"}))
    BY <1>7, FS_Subset, PoolAssumption DEF StartFails, Submitting
  <2>2. Cardinality(Submitting({"starting"})) > 0
    BY <2>1, FS_EmptySet, FS_CardinalityType
  <2>3. worker_count - 1 \in Nat
    BY <2>2, CountsOfIInv, CountsAreNat
  <2> QED
    BY <1>7, <2>3 DEF TypeOK, StartFails
<1>8. ASSUME NEW w \in Workers, Lock(w)
      PROVE  TypeOK'
  BY <1>8 DEF TypeOK, Lock
<1>9. ASSUME NEW w \in Workers, Take(w)
      PROVE  TypeOK'
  BY <1>9 DEF TypeOK, Take
<1>10. ASSUME NEW w \in Workers, Wait(w)
      PROVE  TypeOK'
  BY <1>10 DEF TypeOK, Wait, IdleCounted
<1>11. ASSUME NEW w \in Workers, TimeOut(w)
      PROVE  TypeOK'
  BY <1>11 DEF TypeOK, TimeOut
<1>12. ASSUME NEW w \in Workers, WakeSpuriously(w)
      PROVE  TypeOK'
  BY <1>12 DEF TypeOK, WakeSpuriously
<1>13. ASSUME NEW w \in Workers, Resume(w)
      PROVE  TypeOK'
  <2>1. Cardinality(InState(Asleep)) > 0
    <3>1. w \in InState(Asleep)
      BY <1>13 DEF Resume, InState, Asleep
    <3>2. IsFiniteSet(InState(Asleep))
      BY FS_Subset, PoolAssumption DEF InState
    <3> QED
      BY <3>1, <3>2, FS_EmptySet, FS_CardinalityType
  <2>2. idle_workers - 1 \in Nat
    BY <2>1, CountsOfIInv, CountsAreNat
  <2> QED
    BY <1>13, <2>2 DEF TypeOK, Resume, IdleReleased
<1>14. ASSUME NEW w \in Workers, Retire(w)
      PROVE  TypeOK'
  BY <1>14, PoolAssumption DEF TypeOK, Retire, CanRetire
<1>15. ASSUME NEW w \in Workers, Stay(w)
      PROVE  TypeOK'
  BY <1>15 DEF TypeOK, Stay
<1>16. ASSUME NEW w \in Workers, Finish(w)
      PROVE  TypeOK'
  BY <1>16 DEF TypeOK, Finish, RunningHasTask
<1> QED
  BY <1>1, <1>2, <1>3, <1>4, <1>5, <1>6, <1>7, <1>8, <1>9, <1>10, <1>11,
     <1>12, <1>13, <1>14, <1>15, <1>16
     DEF Next, Submit, SubmitterStep, WorkerStep

(* Exactly the holder of the mutex is inside a critical section. *)
LEMMA LockStep ==
    ASSUME IInv, Next PROVE LockHeld' /\ RunningHasTask'
<1> USE DEF IInv
<1>1. ASSUME NEW s \in Submitters, NEW t \in Tasks, Reject(s, t) \/ Push(s, t)
      PROVE  LockHeld' /\ RunningHasTask'
  BY <1>1 DEF LockHeld, RunningHasTask, Reject, Push
<1>2. ASSUME NEW s \in Submitters, Notify(s)
      PROVE  LockHeld' /\ RunningHasTask'
  <2>1. CASE UNCHANGED worker
    BY <1>2, <2>1 DEF Notify, LockHeld, RunningHasTask
  <2>2. CASE \E w \in InState({"waiting"}) :
                worker' = [worker EXCEPT ![w] = "woken"]
    BY <1>2, <2>2, PoolAssumption
       DEF Notify, InState, LockHeld, RunningHasTask, TypeOK
  <2> QED
    BY <1>2, <2>1, <2>2 DEF Notify
<1>3. ASSUME NEW s \in Submitters, CheckIdle(s) \/ Reserve(s) \/ StartFails(s)
      PROVE  LockHeld' /\ RunningHasTask'
  BY <1>3 DEF LockHeld, RunningHasTask, CheckIdle, Reserve, StartFails
<1>4. ASSUME NEW s \in Submitters, NEW w \in Workers, StartThread(s, w)
      PROVE  LockHeld' /\ RunningHasTask'
  BY <1>4, PoolAssumption DEF LockHeld, RunningHasTask, StartThread, TypeOK
<1>5. ASSUME NEW w \in Workers, Lock(w)
      PROVE  LockHeld' /\ RunningHasTask'
  BY <1>5, PoolAssumption DEF LockHeld, RunningHasTask, Lock, TypeOK
<1>6. ASSUME NEW w \in Workers, Take(w)
      PROVE  LockHeld' /\ RunningHasTask'
  BY <1>6, PoolAssumption DEF LockHeld, RunningHasTask, Take, TypeOK
<1>7. ASSUME NEW w \in Workers, Wait(w)
      PROVE  LockHeld' /\ RunningHasTask'
  BY <1>7, PoolAssumption DEF LockHeld, RunningHasTask, Wait, TypeOK
<1>8. ASSUME NEW w \in Workers, TimeOut(w)
      PROVE  LockHeld' /\ RunningHasTask'
  BY <1>8, PoolAssumption DEF LockHeld, RunningHasTask, TimeOut, TypeOK
<1>9. ASSUME NEW w \in Workers, WakeSpuriously(w)
      PROVE  LockHeld' /\ RunningHasTask'
  BY <1>9, PoolAssumption DEF LockHeld, RunningHasTask, WakeSpuriously, TypeOK
<1>10. ASSUME NEW w \in Workers, Resume(w)
      PROVE  LockHeld' /\ RunningHasTask'
  BY <1>10, PoolAssumption DEF LockHeld, RunningHasTask, Resume, TypeOK
<1>11. ASSUME NEW w \in Workers, Retire(w)
      PROVE  LockHeld' /\ RunningHasTask'
  BY <1>11, PoolAssumption DEF LockHeld, RunningHasTask, Retire, TypeOK
<1>12. ASSUME NEW w \in Workers, Stay(w)
      PROVE  LockHeld' /\ RunningHasTask'
  BY <1>12, PoolAssumption DEF LockHeld, RunningHasTask, Stay, TypeOK
<1>13. ASSUME NEW w \in Workers, Finish(w)
      PROVE  LockHeld' /\ RunningHasTask'
  BY <1>13, PoolAssumption DEF LockHeld, RunningHasTask, Finish, TypeOK
<1> QED
  BY <1>1, <1>2, <1>3, <1>4, <1>5, <1>6, <1>7, <1>8, <1>9, <1>10, <1>11, <1>12, <1>13
     DEF Next, Submit, SubmitterStep, WorkerStep

(* The counters keep counting: each action moves a thread between the sets *)
(* that worker_count and idle_workers measure exactly when it changes the  *)
(* counter.                                                                *)
LEMMA CounterStep ==
    ASSUME IInv, Next PROVE WorkerCountExact' /\ IdleCountExact'
<1> DEFINE Exact ==
             /\ worker_count = Cardinality(InState(Live))
                                + Cardinality(Submitting({"starting"}))
             /\ worker_count <= MaxThreads
             /\ idle_workers = Cardinality(InState(Asleep))
<1>0. /\ Exact' => WorkerCountExact' /\ IdleCountExact'
      /\ Exact /\ TypeOK
  BY DEF IInv, WorkerCountExact, IdleCountExact, Live, Asleep
<1>c. /\ Cardinality(InState(Live)) \in Nat
      /\ Cardinality(InState(Asleep)) \in Nat
      /\ Cardinality(Submitting({"starting"})) \in Nat
  BY CountsAreNat
<1>d. worker_count \in Nat /\ idle_workers \in Nat
  BY <1>0 DEF TypeOK
<1>m. \A v \in WorkerStates : /\ v \in Live <=> v # "dead"
                              /\ v \in Asleep <=> v \in {"waiting", "woken", "timedout"}
  BY DEF WorkerStates, Live, Asleep
<1>1. ASSUME NEW s \in Submitters, NEW t \in Tasks, Reject(s, t)
      PROVE  Exact'
  BY <1>0, <1>1 DEF Reject, InState, Submitting
<1>2. ASSUME NEW s \in Submitters, NEW t \in Tasks, Push(s, t)
      PROVE  Exact'
  <2>1. SubmitterGoes(s, "pushed") /\ submitter[s] = "idle"
    BY <1>2 DEF Push, SubmitterGoes
  <2>2. Cardinality(Submitting({"starting"})') =
        Cardinality(Submitting({"starting"}))
    BY <1>0, <2>1, SubmitterMove DEF SubmitterStates
  <2> QED
    BY <1>0, <1>2, <2>2, SubmittersOnly DEF Push
<1>3. ASSUME NEW s \in Submitters, Notify(s)
      PROVE  Exact'
  <2>1. SubmitterGoes(s, "notified") /\ submitter[s] = "pushed"
    BY <1>3 DEF Notify, SubmitterGoes
  <2>2. Cardinality(Submitting({"starting"})') =
        Cardinality(Submitting({"starting"}))
    BY <1>0, <2>1, SubmitterMove DEF SubmitterStates
  <2>3. /\ Cardinality(InState(Live)') = Cardinality(InState(Live))
        /\ Cardinality(InState(Asleep)') = Cardinality(InState(Asleep))
    <3>1. CASE UNCHANGED worker
      BY <1>0, <3>1, SubmittersOnly
    <3>2. CASE \E w \in InState({"waiting"}) :
                  WorkerGoes(w, "woken")
      <4>1. PICK w \in Workers : /\ worker[w] = "waiting"
                                 /\ WorkerGoes(w, "woken")
        BY <3>2 DEF InState, WorkerGoes
      <4> QED
        BY <1>0, <1>m, <4>1, WorkerMove DEF WorkerStates
    <3> QED
      BY <1>3, <3>1, <3>2 DEF Notify, WorkerGoes
  <2> QED
    BY <1>0, <1>3, <2>2, <2>3 DEF Notify
<1>4. ASSUME NEW s \in Submitters, CheckIdle(s)
      PROVE  Exact'
  <2>1. /\ submitter[s] = "notified"
        /\ \/ SubmitterGoes(s, "growing")
           \/ SubmitterGoes(s, "idle")
    BY <1>4 DEF CheckIdle, SubmitterGoes
  <2>2. Cardinality(Submitting({"starting"})') =
        Cardinality(Submitting({"starting"}))
    BY <1>0, <2>1, SubmitterMove DEF SubmitterStates
  <2> QED
    BY <1>0, <1>4, <2>2, SubmittersOnly DEF CheckIdle
<1>5. ASSUME NEW s \in Submitters, Reserve(s)
      PROVE  Exact'
  <2>1. CASE CanGrow
    <3>1. /\ submitter[s] = "growing"
          /\ SubmitterGoes(s, "starting")
          /\ worker_count' = worker_count + 1
          /\ worker_count < MaxThreads
      BY <1>5, <2>1 DEF Reserve, CanGrow, SubmitterGoes
    <3>2. Cardinality(Submitting({"starting"})') =
          Cardinality(Submitting({"starting"})) + 1
      BY <1>0, <3>1, SubmitterMove DEF SubmitterStates
    <3>3. InState(Live)' = InState(Live) /\ InState(Asleep)' = InState(Asleep)
      BY <1>0, <1>5, SubmittersOnly DEF Reserve
    <3>4. worker_count' <= MaxThreads
      BY <1>d, <3>1, PoolAssumption
    <3> QED
      BY <1>0, <1>c, <1>5, <3>1, <3>2, <3>3, <3>4 DEF Reserve
  <2>2. CASE ~CanGrow
    <3>1. /\ submitter[s] = "growing"
          /\ SubmitterGoes(s, "idle")
          /\ worker_count' = worker_count
      BY <1>5, <2>2 DEF Reserve, SubmitterGoes
    <3>2. Cardinality(Submitting({"starting"})') =
          Cardinality(Submitting({"starting"}))
      BY <1>0, <3>1, SubmitterMove DEF SubmitterStates
    <3> QED
      BY <1>0, <1>5, <3>1, <3>2, SubmittersOnly DEF Reserve
  <2> QED
    BY <2>1, <2>2
<1>6. ASSUME NEW s \in Submitters, NEW w \in Workers, StartThread(s, w)
      PROVE  Exact'
  <2>1. /\ submitter[s] = "starting"
        /\ SubmitterGoes(s, "idle")
        /\ worker[w] = "dead"
        /\ WorkerGoes(w, "ready")
    BY <1>6 DEF StartThread, SubmitterGoes, WorkerGoes
  <2>2. Cardinality(Submitting({"starting"})') =
        Cardinality(Submitting({"starting"})) - 1
    BY <1>0, <2>1, SubmitterMove DEF SubmitterStates
  <2>3. /\ Cardinality(InState(Live)') = Cardinality(InState(Live)) + 1
        /\ Cardinality(InState(Asleep)') = Cardinality(InState(Asleep))
    BY <1>0, <1>m, <2>1, WorkerMove DEF WorkerStates
  <2> QED
    BY <1>0, <1>c, <1>6, <2>2, <2>3 DEF StartThread
<1>7. ASSUME NEW s \in Submitters, StartFails(s)
      PROVE  Exact'
  <2>1. /\ submitter[s] = "starting"
        /\ SubmitterGoes(s, "idle")
        /\ worker_count' = worker_count - 1
    BY <1>7 DEF StartFails, SubmitterGoes
  <2>2. Cardinality(Submitting({"starting"})') =
        Cardinality(Submitting({"starting"})) - 1
    BY <1>0, <2>1, SubmitterMove DEF SubmitterStates
  <2>3. InState(Live)' = InState(Live) /\ InState(Asleep)' = InState(Asleep)
    BY <1>0, <1>7, SubmittersOnly DEF StartFails
  <2>4. worker_count' <= MaxThreads
    BY <1>0, <1>d, <2>1, PoolAssumption
  <2> QED
    BY <1>0, <1>c, <1>7, <2>1, <2>2, <2>3, <2>4 DEF StartFails
<1>8. ASSUME NEW w \in Workers, Lock(w)
      PROVE  Exact'
  <2>1. /\ worker[w] = "ready"
        /\ WorkerGoes(w, "locked")
    BY <1>8 DEF Lock, WorkerGoes
  <2>2. /\ Cardinality(InState(Live)') = Cardinality(InState(Live))
        /\ Cardinality(InState(Asleep)') = Cardinality(InState(Asleep))
    BY <1>0, <1>m, <2>1, WorkerMove DEF WorkerStates
  <2>3. Submitting({"starting"})' = Submitting({"starting"})
    BY <1>0, <1>8, WorkersOnly DEF Lock
  <2> QED
    BY <1>0, <1>c, <1>8, <2>1, <2>2, <2>3 DEF Lock
<1>9. ASSUME NEW w \in Workers, Take(w)
      PROVE  Exact'
  <2>1. /\ worker[w] = "locked"
        /\ WorkerGoes(w, "running")
    BY <1>9 DEF Take, WorkerGoes
  <2>2. /\ Cardinality(InState(Live)') = Cardinality(InState(Live))
        /\ Cardinality(InState(Asleep)') = Cardinality(InState(Asleep))
    BY <1>0, <1>m, <2>1, WorkerMove DEF WorkerStates
  <2>3. Submitting({"starting"})' = Submitting({"starting"})
    BY <1>0, <1>9, WorkersOnly DEF Take
  <2> QED
    BY <1>0, <1>c, <1>9, <2>1, <2>2, <2>3 DEF Take
<1>10. ASSUME NEW w \in Workers, Wait(w)
      PROVE  Exact'
  <2>1. /\ worker[w] = "locked"
        /\ WorkerGoes(w, "waiting")
        /\ idle_workers' = idle_workers + 1
    BY <1>10 DEF Wait, IdleCounted, WorkerGoes
  <2>2. /\ Cardinality(InState(Live)') = Cardinality(InState(Live))
        /\ Cardinality(InState(Asleep)') = Cardinality(InState(Asleep)) + 1
    BY <1>0, <1>m, <2>1, WorkerMove DEF WorkerStates
  <2>3. Submitting({"starting"})' = Submitting({"starting"})
    BY <1>0, <1>10, WorkersOnly DEF Wait
  <2> QED
    BY <1>0, <1>c, <1>10, <2>1, <2>2, <2>3 DEF Wait
<1>11. ASSUME NEW w \in Workers, TimeOut(w)
      PROVE  Exact'
  <2>1. /\ worker[w] = "waiting"
        /\ WorkerGoes(w, "timedout")
    BY <1>11 DEF TimeOut, WorkerGoes
  <2>2. /\ Cardinality(InState(Live)') = Cardinality(InState(Live))
        /\ Cardinality(InState(Asleep)') = Cardinality(InState(Asleep))
    BY <1>0, <1>m, <2>1, WorkerMove DEF WorkerStates
  <2>3. Submitting({"starting"})' = Submitting({"starting"})
    BY <1>0, <1>11, WorkersOnly DEF TimeOut
  <2> QED
    BY <1>0, <1>c, <1>11, <2>1, <2>2, <2>3 DEF TimeOut
<1>12. ASSUME NEW w \in Workers, WakeSpuriously(w)
      PROVE  Exact'
  <2>1. /\ worker[w] = "waiting"
        /\ WorkerGoes(w, "woken")
    BY <1>12 DEF WakeSpuriously, WorkerGoes
  <2>2. /\ Cardinality(InState(Live)') = Cardinality(InState(Live))
        /\ Cardinality(InState(Asleep)') = Cardinality(InState(Asleep))
    BY <1>0, <1>m, <2>1, WorkerMove DEF WorkerStates
  <2>3. Submitting({"starting"})' = Submitting({"starting"})
    BY <1>0, <1>12, WorkersOnly DEF WakeSpuriously
  <2> QED
    BY <1>0, <1>c, <1>12, <2>1, <2>2, <2>3 DEF WakeSpuriously
<1>13. ASSUME NEW w \in Workers, Resume(w)
      PROVE  Exact'
  <2>1. /\ worker[w] \in {"woken", "timedout"}
        /\ \/ WorkerGoes(w, "expired")
           \/ WorkerGoes(w, "locked")
        /\ idle_workers' = idle_workers - 1
    BY <1>13 DEF Resume, IdleReleased, WorkerGoes
  <2>2. /\ Cardinality(InState(Live)') = Cardinality(InState(Live))
        /\ Cardinality(InState(Asleep)') = Cardinality(InState(Asleep)) - 1
    BY <1>0, <1>m, <2>1, WorkerMove DEF WorkerStates
  <2>3. Submitting({"starting"})' = Submitting({"starting"})
    BY <1>0, <1>13, WorkersOnly DEF Resume
  <2> QED
    BY <1>0, <1>c, <1>13, <2>1, <2>2, <2>3 DEF Resume
<1>14. ASSUME NEW w \in Workers, Retire(w)
      PROVE  Exact'
  <2>1. /\ worker[w] = "expired"
        /\ WorkerGoes(w, "dead")
        /\ worker_count' = worker_count - 1
    BY <1>14 DEF Retire, WorkerGoes
  <2>2. /\ Cardinality(InState(Live)') = Cardinality(InState(Live)) - 1
        /\ Cardinality(InState(Asleep)') = Cardinality(InState(Asleep))
    BY <1>0, <1>m, <2>1, WorkerMove DEF WorkerStates
  <2>3. Submitting({"starting"})' = Submitting({"starting"})
    BY <1>0, <1>14, WorkersOnly DEF Retire
  <2>4. worker_count' <= MaxThreads
    BY <1>0, <1>d, <2>1, PoolAssumption
  <2> QED
    BY <1>0, <1>c, <1>14, <2>1, <2>2, <2>3, <2>4 DEF Retire
<1>15. ASSUME NEW w \in Workers, Stay(w)
      PROVE  Exact'
  <2>1. /\ worker[w] = "expired"
        /\ WorkerGoes(w, "locked")
    BY <1>15 DEF Stay, WorkerGoes
  <2>2. /\ Cardinality(InState(Live)') = Cardinality(InState(Live))
        /\ Cardinality(InState(Asleep)') = Cardinality(InState(Asleep))
    BY <1>0, <1>m, <2>1, WorkerMove DEF WorkerStates
  <2>3. Submitting({"starting"})' = Submitting({"starting"})
    BY <1>0, <1>15, WorkersOnly DEF Stay
  <2> QED
    BY <1>0, <1>c, <1>15, <2>1, <2>2, <2>3 DEF Stay
<1>16. ASSUME NEW w \in Workers, Finish(w)
      PROVE  Exact'
  <2>1. /\ worker[w] = "running"
        /\ WorkerGoes(w, "ready")
    BY <1>16 DEF Finish, WorkerGoes
  <2>2. /\ Cardinality(InState(Live)') = Cardinality(InState(Live))
        /\ Cardinality(InState(Asleep)') = Cardinality(InState(Asleep))
    BY <1>0, <1>m, <2>1, WorkerMove DEF WorkerStates
  <2>3. Submitting({"starting"})' = Submitting({"starting"})
    BY <1>0, <1>16, WorkersOnly DEF Finish
  <2> QED
    BY <1>0, <1>c, <1>16, <2>1, <2>2, <2>3 DEF Finish
<1> QED
  BY <1>0, <1>1, <1>2, <1>3, <1>4, <1>5, <1>6, <1>7, <1>8, <1>9, <1>10, <1>11,
     <1>12, <1>13, <1>14, <1>15, <1>16
     DEF Next, Submit, SubmitterStep, WorkerStep

(* While somebody sleeps, every queued task is matched by a thread that is *)
(* awake or by a notification that is still to come.                       *)
LEMMA WakeupStep ==
    ASSUME IInv, Next PROVE NoLostWakeup'
<1> DEFINE Sleeper == \E w \in Workers : worker[w] = "waiting"
           Covered == Len(queue) <= Cardinality(InState(Awake))
                                      + Cardinality(Submitting({"pushed"}))
<1>0. /\ (Sleeper => Covered)' => NoLostWakeup'
      /\ Sleeper => Covered
      /\ TypeOK
  BY DEF IInv, NoLostWakeup, InState, Awake
<1>c. /\ Cardinality(InState(Awake)) \in Nat
      /\ Cardinality(Submitting({"pushed"})) \in Nat
      /\ Cardinality(InState(Awake)') \in Nat
      /\ Cardinality(Submitting({"pushed"})') \in Nat
      /\ Len(queue) \in Nat
  <2>1. /\ Cardinality(InState(Awake)) \in Nat
        /\ Cardinality(Submitting({"pushed"})) \in Nat
        /\ Len(queue) \in Nat
    BY <1>0, CountsAreNat DEF TypeOK
  <2>2. /\ IsFiniteSet(InState(Awake)')
        /\ IsFiniteSet(Submitting({"pushed"})')
    BY FS_Subset, PoolAssumption DEF InState, Submitting
  <2> QED
    BY <2>1, <2>2, FS_CardinalityType
<1>m. \A v \in WorkerStates : v \in Awake <=>
          v \in {"ready", "locked", "woken", "timedout", "expired"}
  BY DEF Awake
<1>1. ASSUME NEW s \in Submitters, NEW t \in Tasks, Reject(s, t)
      PROVE  (Sleeper => Covered)'
  BY <1>0, <1>1 DEF Reject, InState, Submitting
<1>2. ASSUME NEW s \in Submitters, NEW t \in Tasks, Push(s, t)
      PROVE  (Sleeper => Covered)'
  <2>1. submitter[s] = "idle" /\ SubmitterGoes(s, "pushed")
    BY <1>2 DEF Push, SubmitterGoes
  <2>2. Cardinality(Submitting({"pushed"})') =
        Cardinality(Submitting({"pushed"})) + 1
    BY <1>0, <2>1, SubmitterMove DEF SubmitterStates
  <2>3. Len(queue') = Len(queue) + 1
    BY <1>0, <1>2 DEF Push, TypeOK
  <2>4. InState(Awake)' = InState(Awake) /\ (Sleeper' => Sleeper)
    BY <1>0, <1>2, SubmittersOnly DEF Push
  <2> QED
    BY <1>0, <1>c, <2>2, <2>3, <2>4
<1>3. ASSUME NEW s \in Submitters, Notify(s)
      PROVE  (Sleeper => Covered)'
  <2>1. submitter[s] = "pushed" /\ SubmitterGoes(s, "notified")
    BY <1>3 DEF Notify, SubmitterGoes
  <2>2. Cardinality(Submitting({"pushed"})') =
        Cardinality(Submitting({"pushed"})) - 1
    BY <1>0, <2>1, SubmitterMove DEF SubmitterStates
  <2>3. CASE InState({"waiting"}) = {} /\ UNCHANGED worker
    <3>1. ~Sleeper'
      BY <2>3 DEF InState
    <3> QED
      BY <3>1
  <2>4. CASE \E w \in InState({"waiting"}) :
                worker' = [worker EXCEPT ![w] = "woken"]
    <3>1. PICK w \in Workers : worker[w] = "waiting" /\ WorkerGoes(w, "woken")
      BY <2>4 DEF InState, WorkerGoes
    <3>2. Cardinality(InState(Awake)') = Cardinality(InState(Awake)) + 1
      BY <1>0, <1>m, <3>1, WorkerMove DEF WorkerStates
    <3>3. Len(queue') = Len(queue) /\ Covered
      BY <1>0, <1>3, <3>1 DEF Notify
    <3> QED
      BY <1>c, <2>2, <3>2, <3>3
  <2> QED
    BY <1>3, <2>3, <2>4 DEF Notify
<1>4. ASSUME NEW s \in Submitters, CheckIdle(s) \/ Reserve(s) \/ StartFails(s)
      PROVE  (Sleeper => Covered)'
  <2>1. /\ submitter[s] \in {"notified", "growing", "starting"}
        /\ \E v \in {"growing", "idle", "starting"} : SubmitterGoes(s, v)
    BY <1>4 DEF CheckIdle, Reserve, StartFails, SubmitterGoes
  <2>2. Cardinality(Submitting({"pushed"})') =
        Cardinality(Submitting({"pushed"}))
    BY <1>0, <2>1, SubmitterMove DEF SubmitterStates
  <2>3. UNCHANGED <<worker, queue>>
    BY <1>4 DEF CheckIdle, Reserve, StartFails
  <2>4. InState(Awake)' = InState(Awake) /\ (Sleeper' => Sleeper)
    BY <1>0, <2>3, SubmittersOnly
  <2> QED
    BY <1>0, <1>c, <2>2, <2>3, <2>4
<1>5. ASSUME NEW s \in Submitters, NEW w \in Workers, StartThread(s, w)
      PROVE  (Sleeper => Covered)'
  <2>1. /\ submitter[s] = "starting" /\ SubmitterGoes(s, "idle")
        /\ worker[w] = "dead" /\ WorkerGoes(w, "ready")
    BY <1>5 DEF StartThread, SubmitterGoes, WorkerGoes
  <2>2. Cardinality(Submitting({"pushed"})') =
        Cardinality(Submitting({"pushed"}))
    BY <1>0, <2>1, SubmitterMove DEF SubmitterStates
  <2>3. Cardinality(InState(Awake)') = Cardinality(InState(Awake)) + 1
    BY <1>0, <1>m, <2>1, WorkerMove DEF WorkerStates
  <2>4. Len(queue') = Len(queue) /\ (Sleeper' => Sleeper)
    BY <1>0, <1>5 DEF StartThread, TypeOK
  <2> QED
    BY <1>0, <1>c, <2>2, <2>3, <2>4
<1>6. ASSUME NEW w \in Workers, Lock(w)
      PROVE  (Sleeper => Covered)'
  <2>1. /\ worker[w] = "ready"
        /\ WorkerGoes(w, "locked")
    BY <1>6 DEF Lock, WorkerGoes
  <2>2. Cardinality(InState(Awake)') = Cardinality(InState(Awake))
    BY <1>0, <1>m, <2>1, WorkerMove DEF WorkerStates
  <2>3. Submitting({"pushed"})' = Submitting({"pushed"})
    BY <1>0, <1>6, WorkersOnly DEF Lock
  <2>4. Len(queue') = Len(queue) /\ (Sleeper' => Sleeper)
    BY <1>0, <1>6 DEF Lock, TypeOK
  <2> QED
    BY <1>0, <1>c, <2>2, <2>3, <2>4
<1>7. ASSUME NEW w \in Workers, Take(w)
      PROVE  (Sleeper => Covered)'
  <2>1. /\ worker[w] = "locked"
        /\ WorkerGoes(w, "running")
    BY <1>7 DEF Take, WorkerGoes
  <2>2. Cardinality(InState(Awake)') = Cardinality(InState(Awake)) - 1
    BY <1>0, <1>m, <2>1, WorkerMove DEF WorkerStates
  <2>3. Submitting({"pushed"})' = Submitting({"pushed"})
    BY <1>0, <1>7, WorkersOnly DEF Take
  <2>4. Len(queue') = Len(queue) - 1 /\ (Sleeper' => Sleeper)
    BY <1>0, <1>7 DEF Take, TypeOK
  <2> QED
    BY <1>0, <1>c, <2>2, <2>3, <2>4
<1>8. ASSUME NEW w \in Workers, Wait(w)
      PROVE  (Sleeper => Covered)'
  <2>1. Len(queue') = 0
    BY <1>8 DEF Wait
  <2> QED
    BY <1>c, <2>1
<1>9. ASSUME NEW w \in Workers, TimeOut(w)
      PROVE  (Sleeper => Covered)'
  <2>1. /\ worker[w] = "waiting"
        /\ WorkerGoes(w, "timedout")
    BY <1>9 DEF TimeOut, WorkerGoes
  <2>2. Cardinality(InState(Awake)') = Cardinality(InState(Awake)) + 1
    BY <1>0, <1>m, <2>1, WorkerMove DEF WorkerStates
  <2>3. Submitting({"pushed"})' = Submitting({"pushed"})
    BY <1>0, <1>9, WorkersOnly DEF TimeOut
  <2>4. Len(queue') = Len(queue) /\ (Sleeper' => Sleeper)
    BY <1>0, <1>9 DEF TimeOut, TypeOK
  <2> QED
    BY <1>0, <1>c, <2>2, <2>3, <2>4
<1>10. ASSUME NEW w \in Workers, WakeSpuriously(w)
      PROVE  (Sleeper => Covered)'
  <2>1. /\ worker[w] = "waiting"
        /\ WorkerGoes(w, "woken")
    BY <1>10 DEF WakeSpuriously, WorkerGoes
  <2>2. Cardinality(InState(Awake)') = Cardinality(InState(Awake)) + 1
    BY <1>0, <1>m, <2>1, WorkerMove DEF WorkerStates
  <2>3. Submitting({"pushed"})' = Submitting({"pushed"})
    BY <1>0, <1>10, WorkersOnly DEF WakeSpuriously
  <2>4. Len(queue') = Len(queue) /\ (Sleeper' => Sleeper)
    BY <1>0, <1>10 DEF WakeSpuriously, TypeOK
  <2> QED
    BY <1>0, <1>c, <2>2, <2>3, <2>4
<1>11. ASSUME NEW w \in Workers, Resume(w)
      PROVE  (Sleeper => Covered)'
  <2>1. /\ worker[w] \in {"woken", "timedout"}
        /\ WorkerGoes(w, "expired") \/ WorkerGoes(w, "locked")
    BY <1>11 DEF Resume, WorkerGoes
  <2>2. Cardinality(InState(Awake)') = Cardinality(InState(Awake))
    BY <1>0, <1>m, <2>1, WorkerMove DEF WorkerStates
  <2>3. Submitting({"pushed"})' = Submitting({"pushed"})
    BY <1>0, <1>11, WorkersOnly DEF Resume
  <2>4. Len(queue') = Len(queue) /\ (Sleeper' => Sleeper)
    BY <1>0, <1>11 DEF Resume, TypeOK
  <2> QED
    BY <1>0, <1>c, <2>2, <2>3, <2>4
<1>12. ASSUME NEW w \in Workers, Retire(w)
      PROVE  (Sleeper => Covered)'
  <2>1. Len(queue') = 0
    BY <1>12 DEF Retire, CanRetire
  <2> QED
    BY <1>c, <2>1
<1>13. ASSUME NEW w \in Workers, Stay(w)
      PROVE  (Sleeper => Covered)'
  <2>1. /\ worker[w] = "expired"
        /\ WorkerGoes(w, "locked")
    BY <1>13 DEF Stay, WorkerGoes
  <2>2. Cardinality(InState(Awake)') = Cardinality(InState(Awake))
    BY <1>0, <1>m, <2>1, WorkerMove DEF WorkerStates
  <2>3. Submitting({"pushed"})' = Submitting({"pushed"})
    BY <1>0, <1>13, WorkersOnly DEF Stay
  <2>4. Len(queue') = Len(queue) /\ (Sleeper' => Sleeper)
    BY <1>0, <1>13 DEF Stay, TypeOK
  <2> QED
    BY <1>0, <1>c, <2>2, <2>3, <2>4
<1>14. ASSUME NEW w \in Workers, Finish(w)
      PROVE  (Sleeper => Covered)'
  <2>1. /\ worker[w] = "running"
        /\ WorkerGoes(w, "ready")
    BY <1>14 DEF Finish, WorkerGoes
  <2>2. Cardinality(InState(Awake)') = Cardinality(InState(Awake)) + 1
    BY <1>0, <1>m, <2>1, WorkerMove DEF WorkerStates
  <2>3. Submitting({"pushed"})' = Submitting({"pushed"})
    BY <1>0, <1>14, WorkersOnly DEF Finish
  <2>4. Len(queue') = Len(queue) /\ (Sleeper' => Sleeper)
    BY <1>0, <1>14 DEF Finish, TypeOK
  <2> QED
    BY <1>0, <1>c, <2>2, <2>3, <2>4
<1> QED
  BY <1>0, <1>1, <1>2, <1>3, <1>4, <1>5, <1>6, <1>7, <1>8, <1>9, <1>10, <1>11,
     <1>12, <1>13, <1>14
     DEF Next, Submit, SubmitterStep, WorkerStep

(* IInv is inductive. *)
THEOREM Invariance == Spec => []IInv
<1>1. ASSUME IInv, UNCHANGED vars PROVE IInv'
  BY <1>1 DEF IInv, vars, TypeOK, LockHeld, RunningHasTask, WorkerCountExact,
     IdleCountExact, NoLostWakeup, InState, Submitting
<1>2. ASSUME IInv, Next PROVE IInv'
  BY <1>2, TypeStep, LockStep, CounterStep, WakeupStep DEF IInv
<1>3. IInv /\ [Next]_vars => IInv'
  BY <1>1, <1>2
<1> QED
  BY InitIInv, <1>3, PTL DEF Spec

(* Every variable keeps its type; in particular worker_count and           *)
(* idle_workers never wrap below zero when they are decremented.           *)
THEOREM TypeCorrect == Spec => []TypeOK
BY Invariance, PTL DEF IInv

(* worker_count equals the live threads plus the threads being created and *)
(* stays within max_threads, for any number of racing submitters and       *)
(* retiring workers (spawn_worker, try_retire_worker).                     *)
THEOREM WorkerCountCorrect == Spec => []WorkerCountExact
BY Invariance, PTL DEF IInv

(* idle_workers equals the number of threads inside wait_timeout.          *)
THEOREM IdleCountCorrect == Spec => []IdleCountExact
BY Invariance, PTL DEF IInv

(* No queued task is left to sleeping threads that nobody will notify.     *)
THEOREM WakeupsNotLost == Spec => []NoLostWakeup
BY Invariance, PTL DEF IInv

-----------------------------------------------------------------------------
(* Elastic growth.  GrowsToDemand speaks of the moment at which no call of *)
(* try_spawn is under way; what carries it there counts, besides the       *)
(* threads that are free, the submitters that will still add one: those    *)
(* that have decided to, and those that would if they looked now.  A       *)
(* submitter that decides leaves or stays in that set exactly as it        *)
(* decides, and one that finds its task covered when it is queued is       *)
(* covered by threads that wait.                                           *)
Free == WorkerStates \ {"dead", "running"}

Willing == {s \in Submitters : \/ submitter[s] \in {"growing", "starting"}
                               \/ submitter[s] \in {"pushed", "notified"} /\ ShouldGrow(s)}

DemandMet ==
    \/ Len(queue) <= Cardinality(InState(Free)) + Cardinality(Willing)
    \/ worker_count = MaxThreads
    \/ failures > 0

(* The willing are finitely many, before and after any step. *)
LEMMA WillingCounts ==
    /\ IsFiniteSet(Willing) /\ Cardinality(Willing) \in Nat
    /\ IsFiniteSet(Willing') /\ Cardinality(Willing') \in Nat
<1>1. IsFiniteSet(Willing) /\ IsFiniteSet(Willing')
  BY FS_Subset, PoolAssumption DEF Willing
<1> QED
  BY <1>1, FS_CardinalityType

(* Threads that wait are free. *)
LEMMA IdleAreFree ==
    ASSUME IInv PROVE idle_workers <= Cardinality(InState(Free))
<1>1. InState(Asleep) \subseteq InState(Free) /\ IsFiniteSet(InState(Free))
  BY FS_Subset, PoolAssumption DEF InState, Asleep, Free, WorkerStates
<1>2. Cardinality(InState(Asleep)) <= Cardinality(InState(Free))
  BY <1>1, FS_Subset
<1> QED
  BY <1>2, CountsOfIInv

(* Fewer waiting threads make nobody less willing. *)
LEMMA WillingGrows ==
    ASSUME Willing \subseteq Willing'
    PROVE  Cardinality(Willing) <= Cardinality(Willing')
BY WillingCounts, FS_Subset

LEMMA DemandStep ==
    ASSUME IInv, DemandMet, Next PROVE DemandMet'
<1> DEFINE Covered == Len(queue) <= Cardinality(InState(Free)) + Cardinality(Willing)
<1>0. TypeOK /\ TypeOK'
  BY TypeStep DEF IInv
<1>c. /\ Len(queue) \in Nat /\ Len(queue') \in Nat
      /\ Cardinality(InState(Free)) \in Nat /\ Cardinality(InState(Free)') \in Nat
      /\ Cardinality(Willing) \in Nat /\ Cardinality(Willing') \in Nat
  <2>1. IsFiniteSet(InState(Free)')
    BY FS_Subset, PoolAssumption DEF InState
  <2> QED
    BY <1>0, <2>1, CountsAreNat, WillingCounts, FS_CardinalityType DEF TypeOK
<1>m. \A v \in WorkerStates : v \in Free <=> v \notin {"dead", "running"}
  BY DEF Free
<1> HIDE DEF Covered
<1>1. ASSUME UNCHANGED <<worker_count, failures>>, Covered => Covered'
      PROVE  DemandMet'
  BY <1>1 DEF DemandMet, Covered
<1>2. ASSUME Covered'
      PROVE  DemandMet'
  BY <1>2 DEF DemandMet, Covered
<1> USE DEF Covered
<1>3. ASSUME NEW s \in Submitters, NEW t \in Tasks, Reject(s, t)
      PROVE  DemandMet'
  BY <1>1, <1>3 DEF Reject, InState, Willing, ShouldGrow
<1>4. ASSUME NEW s \in Submitters, NEW t \in Tasks, Push(s, t)
      PROVE  DemandMet'
  <2>1. Len(queue') = Len(queue) + 1 /\ queued'[s] = Len(queue) + 1
    BY <1>0, <1>4 DEF Push, TypeOK
  <2>2. InState(Free)' = InState(Free) /\ UNCHANGED <<worker_count, failures, idle_workers>>
    BY <1>0, <1>4, SubmittersOnly DEF Push
  <2>3. CASE Len(queue) + 1 > idle_workers
    <3>1. Willing' = Willing \cup {s} /\ s \notin Willing
      BY <1>0, <1>4, <2>1, <2>2, <2>3 DEF Push, TypeOK, Willing, ShouldGrow
    <3>2. Cardinality(Willing') = Cardinality(Willing) + 1
      BY <3>1, WillingCounts, FS_AddElement
    <3> QED
      BY <1>1, <1>c, <2>1, <2>2, <3>2
  <2>4. CASE ~(Len(queue) + 1 > idle_workers)
    <3>1. Len(queue') <= Cardinality(InState(Free)')
      BY <1>0, <1>c, <2>1, <2>2, <2>4, IdleAreFree DEF TypeOK
    <3> QED
      BY <1>2, <1>c, <3>1
  <2> QED
    BY <2>3, <2>4
<1>5. ASSUME NEW s \in Submitters, Notify(s)
      PROVE  DemandMet'
  <2>1. UNCHANGED <<worker_count, failures, queue, idle_workers, queued>>
    BY <1>5 DEF Notify
  <2>2. Willing' = Willing
    BY <1>0, <1>5, <2>1 DEF Notify, TypeOK, Willing, ShouldGrow
  <2>3. CASE UNCHANGED worker
    BY <1>0, <1>1, <2>1, <2>2, <2>3, SubmittersOnly
  <2>4. CASE \E w \in InState({"waiting"}) :
                worker' = [worker EXCEPT ![w] = "woken"]
    <3>1. PICK w \in Workers : worker[w] = "waiting" /\ WorkerGoes(w, "woken")
      BY <2>4 DEF InState, WorkerGoes
    <3>2. Cardinality(InState(Free)') = Cardinality(InState(Free))
      BY <1>0, <1>m, <3>1, WorkerMove DEF WorkerStates
    <3> QED
      BY <1>1, <2>1, <2>2, <3>2
  <2> QED
    BY <1>5, <2>3, <2>4 DEF Notify
<1>6. ASSUME NEW s \in Submitters, CheckIdle(s)
      PROVE  DemandMet'
  <2>1. Willing' = Willing
    BY <1>0, <1>6 DEF CheckIdle, TypeOK, Willing, ShouldGrow
  <2>2. InState(Free)' = InState(Free) /\ UNCHANGED <<worker_count, failures, queue>>
    BY <1>0, <1>6, SubmittersOnly DEF CheckIdle
  <2> QED
    BY <1>1, <2>1, <2>2
<1>7. ASSUME NEW s \in Submitters, Reserve(s)
      PROVE  DemandMet'
  <2>1. InState(Free)' = InState(Free) /\ UNCHANGED <<failures, queue, idle_workers, queued>>
    BY <1>0, <1>7, SubmittersOnly DEF Reserve
  <2>2. CASE CanGrow
    <3>1. Willing' = Willing
      BY <1>0, <1>7, <2>1, <2>2 DEF Reserve, TypeOK, Willing, ShouldGrow
    <3>2. worker_count # MaxThreads
      BY <1>0, <2>2, PoolAssumption DEF CanGrow, TypeOK
    <3> QED
      BY <2>1, <3>1, <3>2 DEF DemandMet
  <2>3. CASE ~CanGrow
    <3>1. worker_count' = MaxThreads
      BY <1>0, <1>7, <2>3, PoolAssumption DEF Reserve, CanGrow, IInv, WorkerCountExact, TypeOK
    <3> QED
      BY <3>1 DEF DemandMet
  <2> QED
    BY <2>2, <2>3
<1>8. ASSUME NEW s \in Submitters, NEW w \in Workers, StartThread(s, w)
      PROVE  DemandMet'
  <2>1. worker[w] = "dead" /\ WorkerGoes(w, "ready")
        /\ UNCHANGED <<worker_count, failures, queue, idle_workers, queued>>
    BY <1>8 DEF StartThread, WorkerGoes
  <2>2. Cardinality(InState(Free)') = Cardinality(InState(Free)) + 1
    BY <1>0, <1>m, <2>1, WorkerMove DEF WorkerStates
  <2>3. Willing' = Willing \ {s} /\ s \in Willing
    BY <1>0, <1>8, <2>1 DEF StartThread, TypeOK, Willing, ShouldGrow
  <2>4. Cardinality(Willing') = Cardinality(Willing) - 1
    BY <2>3, WillingCounts, FS_RemoveElement
  <2> QED
    BY <1>1, <1>c, <2>1, <2>2, <2>4
<1>9. ASSUME NEW s \in Submitters, StartFails(s)
      PROVE  DemandMet'
  BY <1>0, <1>9 DEF StartFails, TypeOK, DemandMet
<1>10. ASSUME NEW w \in Workers, NEW v \in Free, worker[w] \in Free, WorkerGoes(w, v),
              UNCHANGED <<worker_count, failures, queue, submitter, queued>>,
              idle_workers' <= idle_workers
       PROVE  DemandMet'
  <2>1. Cardinality(InState(Free)') = Cardinality(InState(Free))
    BY <1>0, <1>m, <1>10, WorkerMove DEF WorkerStates, Free
  <2>2. Willing \subseteq Willing'
    BY <1>0, <1>10 DEF Willing, ShouldGrow, TypeOK
  <2> QED
    BY <1>1, <1>c, <1>10, <2>1, <2>2, WillingGrows
<1>11. ASSUME NEW w \in Workers, Lock(w) \/ TimeOut(w) \/ WakeSpuriously(w) \/ Stay(w)
       PROVE  DemandMet'
  <2>1. PICK v \in {"locked", "timedout", "woken"} :
           WorkerGoes(w, v) /\ worker[w] \in {"ready", "waiting", "expired"}
    BY <1>11 DEF Lock, TimeOut, WakeSpuriously, Stay, WorkerGoes
  <2>2. UNCHANGED <<worker_count, failures, queue, submitter, queued, idle_workers>>
    BY <1>11 DEF Lock, TimeOut, WakeSpuriously, Stay
  <2> QED
    BY <1>0, <1>10, <2>1, <2>2 DEF Free, WorkerStates, TypeOK
<1>12. ASSUME NEW w \in Workers, Resume(w)
       PROVE  DemandMet'
  <2>1. PICK v \in {"locked", "expired"} :
           WorkerGoes(w, v) /\ worker[w] \in {"woken", "timedout"}
    BY <1>12 DEF Resume, WorkerGoes
  <2>2. UNCHANGED <<worker_count, failures, queue, submitter, queued>>
    BY <1>12 DEF Resume
  <2>3. idle_workers' <= idle_workers
    BY <1>0, <1>12 DEF Resume, IdleReleased, TypeOK
  <2> QED
    BY <1>0, <1>10, <2>1, <2>2, <2>3 DEF Free, WorkerStates
<1>13. ASSUME NEW w \in Workers, Take(w)
       PROVE  DemandMet'
  <2>1. worker[w] = "locked" /\ WorkerGoes(w, "running")
        /\ UNCHANGED <<worker_count, failures>>
    BY <1>13 DEF Take, WorkerGoes
  <2>2. Cardinality(InState(Free)') = Cardinality(InState(Free)) - 1
    BY <1>0, <1>m, <2>1, WorkerMove DEF WorkerStates
  <2>3. Willing' = Willing
    BY <1>13 DEF Take, Willing, ShouldGrow
  <2>4. Len(queue') = Len(queue) - 1
    BY <1>0, <1>13 DEF Take, TypeOK
  <2> QED
    BY <1>1, <1>c, <2>1, <2>2, <2>3, <2>4
<1>14. ASSUME NEW w \in Workers, Wait(w) \/ Retire(w)
       PROVE  DemandMet'
  <2>1. Len(queue') = 0
    BY <1>14 DEF Wait, Retire, CanRetire
  <2> QED
    BY <1>2, <1>c, <2>1
<1>15. ASSUME NEW w \in Workers, Finish(w)
       PROVE  DemandMet'
  <2>1. worker[w] = "running" /\ WorkerGoes(w, "ready")
        /\ UNCHANGED <<worker_count, failures, queue>>
    BY <1>15 DEF Finish, WorkerGoes
  <2>2. Cardinality(InState(Free)') = Cardinality(InState(Free)) + 1
    BY <1>0, <1>m, <2>1, WorkerMove DEF WorkerStates
  <2>3. Willing' = Willing
    BY <1>15 DEF Finish, Willing, ShouldGrow
  <2> QED
    BY <1>1, <1>c, <2>1, <2>2, <2>3
<1> QED
  BY <1>3, <1>4, <1>5, <1>6, <1>7, <1>8, <1>9, <1>11, <1>12, <1>13, <1>14, <1>15
     DEF Next, Submit, SubmitterStep, WorkerStep

(* GrowsToDemand: when every try_spawn has returned, the pool has a free    *)
(* thread for each queued task, or as many threads as it may have, or a    *)
(* thread could not be created, however the reads of idle_workers, which   *)
(* take no lock, were interleaved with the workers.                        *)
THEOREM GrowthCorrect == Spec => []GrowsToDemand
<1>1. Init => DemandMet
  <2> SUFFICES ASSUME Init PROVE DemandMet
    OBVIOUS
  <2>1. Len(queue) = 0
    BY DEF Init
  <2> QED
    BY <2>1, CountsAreNat, WillingCounts DEF DemandMet
<1>2. IInv /\ DemandMet /\ [Next]_vars => DemandMet'
  <2>1. ASSUME DemandMet, UNCHANGED vars PROVE DemandMet'
    BY <2>1 DEF DemandMet, vars, InState, Willing, ShouldGrow
  <2> QED
    BY <2>1, DemandStep
<1>3. DemandMet => GrowsToDemand
  <2> SUFFICES ASSUME DemandMet, \A s \in Submitters : submitter[s] = "idle"
               PROVE  \/ Len(queue) <= Cardinality(InState(Free))
                      \/ worker_count = MaxThreads
                      \/ failures > 0
    BY DEF GrowsToDemand, Free
  <2>1. Willing = {}
    BY DEF Willing
  <2>2. Cardinality(Willing) = 0
    BY <2>1, FS_EmptySet
  <2> QED
    BY <2>2, CountsAreNat DEF DemandMet
<1> QED
  BY <1>1, <1>2, <1>3, Invariance, PTL DEF Spec

=============================================================================
