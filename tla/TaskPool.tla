------------------------------ MODULE TaskPool ------------------------------
(***************************************************************************)
(* The elastic thread pool of src-tauri/src/dns/task_pool.rs: a bounded    *)
(* FIFO of tasks behind a mutex, a condition variable, and two counters,   *)
(* worker_count and idle_workers, that are read and written outside the    *)
(* mutex.  Submitters run try_spawn, workers run worker_loop.              *)
(*                                                                         *)
(* A critical section of the mutex that touches no atomic counter is one   *)
(* step.  A worker that returns from Condvar::wait_timeout keeps the mutex *)
(* over several steps, because its counter updates are visible to the      *)
(* submitters that read the counters without the mutex.                    *)
(*                                                                         *)
(* Mutex poisoning is unreachable: tasks run outside the mutex and under   *)
(* catch_unwind, so no thread panics while it holds the mutex.             *)
(***************************************************************************)
EXTENDS Naturals, Sequences, FiniteSets

CONSTANTS
    Tasks,            \* the closures handed to try_spawn
    Submitters,       \* the threads that call try_spawn
    Workers,          \* identities of pool threads; a retired one is reused
    MinThreads,       \* min_threads
    MaxThreads,       \* max_threads
    QueueCapacity,    \* queue_capacity
    MaxSpawnFailures, \* bound on thread::Builder::spawn errors
    None              \* no thread, no task

ASSUME PoolAssumption ==
    /\ IsFiniteSet(Submitters)
    /\ IsFiniteSet(Workers)
    /\ MinThreads \in Nat \ {0}
    /\ MaxThreads \in Nat /\ MaxThreads >= MinThreads
    /\ Cardinality(Workers) >= MaxThreads
    /\ QueueCapacity \in Nat \ {0}
    /\ MaxSpawnFailures \in Nat
    /\ None \notin Workers \cup Tasks

VARIABLES
    queue,        \* TaskPoolState.queue
    lock,         \* the worker inside a multi-step critical section, or None
    worker_count, \* AtomicUsize
    idle_workers, \* AtomicUsize
    worker,       \* the control state of every worker thread
    running,      \* the task a worker executes
    submitter,    \* the control state of every submitter
    queued,       \* the queue length a submitter saw when it pushed
    unsubmitted,  \* tasks nobody has offered yet
    rejected,     \* tasks for which try_spawn returned false
    done,         \* tasks that ran
    failures      \* thread creations that have failed so far

vars == <<queue, lock, worker_count, idle_workers, worker, running,
          submitter, queued, unsubmitted, rejected, done, failures>>

(***************************************************************************)
(* Control states of a worker: "dead" (no thread), "ready" (about to take  *)
(* the mutex), "locked" (holds it, about to look at the queue), "waiting"  *)
(* (in wait_timeout), "woken" and "timedout" (wait_timeout has ended, the  *)
(* mutex is not yet reacquired), "expired" (holds it after a timeout),     *)
(* "running".                                                              *)
(***************************************************************************)
WorkerStates == {"dead", "ready", "locked", "waiting", "woken", "timedout",
                 "expired", "running"}
SubmitterStates == {"idle", "pushed", "notified", "growing", "starting"}

InState(P) == {w \in Workers : worker[w] \in P}
Submitting(P) == {s \in Submitters : submitter[s] \in P}

TypeOK ==
    /\ queue \in Seq(Tasks)
    /\ lock \in Workers \cup {None}
    /\ worker_count \in Nat
    /\ idle_workers \in Nat
    /\ worker \in [Workers -> WorkerStates]
    /\ running \in [Workers -> Tasks \cup {None}]
    /\ submitter \in [Submitters -> SubmitterStates]
    /\ queued \in [Submitters -> Nat]
    /\ unsubmitted \subseteq Tasks
    /\ rejected \subseteq Tasks
    /\ done \subseteq Tasks
    /\ failures \in Nat

(***************************************************************************)
(* TaskPool::new starts MinThreads workers; each thread creation may fail. *)
(***************************************************************************)
Init ==
    /\ queue = <<>>
    /\ lock = None
    /\ \E S \in SUBSET Workers :
          /\ Cardinality(S) <= MinThreads
          /\ MinThreads <= Cardinality(S) + MaxSpawnFailures
          /\ worker = [w \in Workers |-> IF w \in S THEN "ready" ELSE "dead"]
          /\ worker_count = Cardinality(S)
          /\ failures = MinThreads - Cardinality(S)
    /\ idle_workers = 0
    /\ running = [w \in Workers |-> None]
    /\ submitter = [s \in Submitters |-> "idle"]
    /\ queued = [s \in Submitters |-> 0]
    /\ unsubmitted = Tasks
    /\ rejected = {}
    /\ done = {}

-----------------------------------------------------------------------------
(* try_spawn *)

(* The queue is full: try_spawn returns false. *)
Reject(s, t) ==
    /\ submitter[s] = "idle"
    /\ t \in unsubmitted
    /\ lock = None
    /\ Len(queue) >= QueueCapacity
    /\ unsubmitted' = unsubmitted \ {t}
    /\ rejected' = rejected \cup {t}
    /\ UNCHANGED <<queue, lock, worker_count, idle_workers, worker, running,
                   submitter, queued, done, failures>>

(* The task is queued and its position remembered. *)
Push(s, t) ==
    /\ submitter[s] = "idle"
    /\ t \in unsubmitted
    /\ lock = None
    /\ Len(queue) < QueueCapacity
    /\ queue' = Append(queue, t)
    /\ queued' = [queued EXCEPT ![s] = Len(queue) + 1]
    /\ submitter' = [submitter EXCEPT ![s] = "pushed"]
    /\ unsubmitted' = unsubmitted \ {t}
    /\ UNCHANGED <<lock, worker_count, idle_workers, worker, running,
                   rejected, done, failures>>

(* A push that forgets to notify. *)
NotifyNobody(s) ==
    /\ submitter[s] = "pushed"
    /\ submitter' = [submitter EXCEPT ![s] = "notified"]
    /\ UNCHANGED <<queue, lock, worker_count, idle_workers, worker, running,
                   queued, unsubmitted, rejected, done, failures>>

(* ready.notify_one(): one waiter, if there is one. *)
Notify(s) ==
    /\ submitter[s] = "pushed"
    /\ submitter' = [submitter EXCEPT ![s] = "notified"]
    /\ \/ \E w \in InState({"waiting"}) :
             worker' = [worker EXCEPT ![w] = "woken"]
       \/ InState({"waiting"}) = {} /\ UNCHANGED worker
    /\ UNCHANGED <<queue, lock, worker_count, idle_workers, running, queued,
                   unsubmitted, rejected, done, failures>>

ShouldGrowLate(s) == queued[s] > idle_workers + 1

(* queued > idle_workers decides whether the pool should grow. *)
ShouldGrow(s) == queued[s] > idle_workers

CheckIdle(s) ==
    /\ submitter[s] = "notified"
    /\ submitter' = [submitter EXCEPT ![s] =
                        IF ShouldGrow(s) THEN "growing" ELSE "idle"]
    /\ UNCHANGED <<queue, lock, worker_count, idle_workers, worker, running,
                   queued, unsubmitted, rejected, done, failures>>

CanGrowPastMax == worker_count <= MaxThreads

CanGrow == worker_count < MaxThreads

(* spawn_worker reserves a slot in worker_count by compare-and-swap. *)
Reserve(s) ==
    /\ submitter[s] = "growing"
    /\ IF CanGrow
       THEN /\ worker_count' = worker_count + 1
            /\ submitter' = [submitter EXCEPT ![s] = "starting"]
       ELSE /\ submitter' = [submitter EXCEPT ![s] = "idle"]
            /\ UNCHANGED worker_count
    /\ UNCHANGED <<queue, lock, idle_workers, worker, running, queued,
                   unsubmitted, rejected, done, failures>>

(* The operating system creates the thread. *)
StartThread(s, w) ==
    /\ submitter[s] = "starting"
    /\ worker[w] = "dead"
    /\ worker' = [worker EXCEPT ![w] = "ready"]
    /\ submitter' = [submitter EXCEPT ![s] = "idle"]
    /\ UNCHANGED <<queue, lock, worker_count, idle_workers, running, queued,
                   unsubmitted, rejected, done, failures>>

(* The thread cannot be created: the reserved slot is given back. *)
StartFails(s) ==
    /\ submitter[s] = "starting"
    /\ failures < MaxSpawnFailures
    /\ failures' = failures + 1
    /\ worker_count' = worker_count - 1
    /\ submitter' = [submitter EXCEPT ![s] = "idle"]
    /\ UNCHANGED <<queue, lock, idle_workers, worker, running, queued,
                   unsubmitted, rejected, done>>

-----------------------------------------------------------------------------
(* worker_loop *)

Lock(w) ==
    /\ worker[w] = "ready"
    /\ lock = None
    /\ lock' = w
    /\ worker' = [worker EXCEPT ![w] = "locked"]
    /\ UNCHANGED <<queue, worker_count, idle_workers, running, submitter,
                   queued, unsubmitted, rejected, done, failures>>

(* queue.pop_front() succeeds; the task runs without the mutex. *)
Take(w) ==
    /\ worker[w] = "locked"
    /\ queue # <<>>
    /\ running' = [running EXCEPT ![w] = Head(queue)]
    /\ queue' = Tail(queue)
    /\ worker' = [worker EXCEPT ![w] = "running"]
    /\ lock' = None
    /\ UNCHANGED <<worker_count, idle_workers, submitter, queued, unsubmitted,
                   rejected, done, failures>>

IdleUncounted == idle_workers

IdleCounted == idle_workers + 1

(* Nothing to do: wait_timeout releases the mutex. *)
Wait(w) ==
    /\ worker[w] = "locked"
    /\ queue = <<>>
    /\ idle_workers' = IdleCounted
    /\ worker' = [worker EXCEPT ![w] = "waiting"]
    /\ lock' = None
    /\ UNCHANGED <<queue, worker_count, running, submitter, queued,
                   unsubmitted, rejected, done, failures>>

(* idle_timeout passes. *)
TimeOut(w) ==
    /\ worker[w] = "waiting"
    /\ worker' = [worker EXCEPT ![w] = "timedout"]
    /\ UNCHANGED <<queue, lock, worker_count, idle_workers, running,
                   submitter, queued, unsubmitted, rejected, done, failures>>

(* A condition variable may wake a thread without a notification. *)
WakeSpuriously(w) ==
    /\ worker[w] = "waiting"
    /\ worker' = [worker EXCEPT ![w] = "woken"]
    /\ UNCHANGED <<queue, lock, worker_count, idle_workers, running,
                   submitter, queued, unsubmitted, rejected, done, failures>>

IdleKept == idle_workers

IdleReleased == idle_workers - 1

(* wait_timeout returns with the mutex; the worker is no longer idle. *)
Resume(w) ==
    /\ worker[w] \in {"woken", "timedout"}
    /\ lock = None
    /\ lock' = w
    /\ idle_workers' = IdleReleased
    /\ worker' = [worker EXCEPT ![w] =
                     IF worker[w] = "timedout" THEN "expired" ELSE "locked"]
    /\ UNCHANGED <<queue, worker_count, running, submitter, queued,
                   unsubmitted, rejected, done, failures>>

CanRetireLate == queue = <<>> /\ worker_count > MinThreads + 1

(* timed_out() && queue.is_empty() && try_retire_worker(). *)
CanRetire == queue = <<>> /\ worker_count > MinThreads

Retire(w) ==
    /\ worker[w] = "expired"
    /\ CanRetire
    /\ worker_count' = worker_count - 1
    /\ worker' = [worker EXCEPT ![w] = "dead"]
    /\ lock' = None
    /\ UNCHANGED <<queue, idle_workers, running, submitter, queued,
                   unsubmitted, rejected, done, failures>>

Stay(w) ==
    /\ worker[w] = "expired"
    /\ ~CanRetire
    /\ worker' = [worker EXCEPT ![w] = "locked"]
    /\ UNCHANGED <<queue, lock, worker_count, idle_workers, running,
                   submitter, queued, unsubmitted, rejected, done, failures>>

(* A worker without catch_unwind: a panicking task takes its thread along. *)
FinishUnguarded(w) ==
    /\ worker[w] = "running"
    /\ done' = done \cup {running[w]}
    /\ running' = [running EXCEPT ![w] = None]
    /\ worker' = [worker EXCEPT ![w] = "dead"]
    /\ UNCHANGED <<queue, lock, worker_count, idle_workers, submitter, queued,
                   unsubmitted, rejected, failures>>

(* The task returns or panics; catch_unwind keeps the thread either way. *)
Finish(w) ==
    /\ worker[w] = "running"
    /\ done' = done \cup {running[w]}
    /\ running' = [running EXCEPT ![w] = None]
    /\ worker' = [worker EXCEPT ![w] = "ready"]
    /\ UNCHANGED <<queue, lock, worker_count, idle_workers, submitter, queued,
                   unsubmitted, rejected, failures>>

-----------------------------------------------------------------------------
Submit(s) == \E t \in Tasks : Reject(s, t) \/ Push(s, t)

SubmitterStep(s) ==
    \/ Notify(s)
    \/ CheckIdle(s)
    \/ Reserve(s)
    \/ \E w \in Workers : StartThread(s, w)
    \/ StartFails(s)

WorkerStep(w) ==
    \/ Lock(w) \/ Take(w) \/ Wait(w) \/ Resume(w)
    \/ Retire(w) \/ Stay(w) \/ Finish(w)

Next ==
    \/ \E s \in Submitters : Submit(s) \/ SubmitterStep(s)
    \/ \E w \in Workers : WorkerStep(w) \/ TimeOut(w) \/ WakeSpuriously(w)

Spec == Init /\ [][Next]_vars

(***************************************************************************)
(* Fairness.  A thread that can run is eventually scheduled; the mutex is  *)
(* held for a few instructions and the kernel hands it over, so a thread   *)
(* that keeps asking gets it (strong fairness of the lock steps); a worker *)
(* that keeps waiting is not woken spuriously for ever, so some wait lasts *)
(* idle_timeout.  Nothing obliges a caller to submit.                      *)
(***************************************************************************)
Fairness ==
    /\ \A s \in Submitters : WF_vars(SubmitterStep(s))
    /\ \A w \in Workers :
          /\ WF_vars(Take(w) \/ Wait(w) \/ Retire(w) \/ Stay(w) \/ Finish(w))
          /\ SF_vars(Lock(w) \/ Resume(w))
          /\ SF_vars(TimeOut(w))

FairSpec == Spec /\ Fairness

-----------------------------------------------------------------------------
(* Properties *)

(* worker_count is exactly the live threads plus the slots reserved by     *)
(* spawn_worker whose thread does not exist yet, and never exceeds         *)
(* max_threads, although it is updated by compare-and-swap from submitters *)
(* and from retiring workers without the mutex.                            *)
WorkerCountExact ==
    /\ worker_count = Cardinality(InState(WorkerStates \ {"dead"}))
                        + Cardinality(Submitting({"starting"}))
    /\ worker_count <= MaxThreads

(* idle_workers counts exactly the threads inside wait_timeout: a thread   *)
(* that holds a task or is about to take one is never counted idle, which  *)
(* is what try_spawn's decision to grow the pool relies on.                *)
IdleCountExact ==
    idle_workers = Cardinality(InState({"waiting", "woken", "timedout"}))

(* No lost wake-up: while a worker sleeps un-notified, every queued task   *)
(* has a worker that is awake and on its way to the queue, or a submitter  *)
(* that has pushed and is about to notify.                                 *)
NoLostWakeup ==
    InState({"waiting"}) # {} =>
        Len(queue) <= Cardinality(InState({"ready", "locked", "woken",
                                           "timedout", "expired"}))
                        + Cardinality(Submitting({"pushed"}))

(* Elastic growth: once every try_spawn has returned, either each queued   *)
(* task has a free worker of its own, or the pool is at max_threads, or a  *)
(* thread could not be created.  A burst of blocking tasks therefore runs  *)
(* in parallel up to max_threads.                                          *)
GrowsToDemand ==
    (\A s \in Submitters : submitter[s] = "idle") =>
        \/ Len(queue) <= Cardinality(InState(WorkerStates \ {"dead", "running"}))
        \/ worker_count = MaxThreads
        \/ failures > 0

(* Every task for which try_spawn returned true is eventually executed,    *)
(* unless threads could not be created and the pool is left without any.   *)
AcceptedTasksRun ==
    \A t \in Tasks :
        (\E i \in DOMAIN queue : queue[i] = t)
            ~> t \in done \/ (worker_count = 0 /\ failures > 0)

(* An idle pool shrinks back to min_threads; it has fewer only if a thread *)
(* could not be created.                                                   *)
ShrinksToMinimum ==
    <>[](unsubmitted = {} =>
            \/ worker_count = MinThreads
            \/ worker_count < MinThreads /\ failures > 0)

(* Every accepted task is run by worker_loop, panicking ones and bursts      *)
(* included, and an idle pool gives its threads back down to the minimum.    *)
PoolLiveness == AcceptedTasksRun /\ ShrinksToMinimum
=============================================================================
