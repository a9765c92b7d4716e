---------------------------- MODULE ServiceCore ----------------------------
(***************************************************************************)
(* The control plane of src-tauri/src/service_core.rs: the configuration   *)
(* in memory, in the database and in the running DNS server, the cached    *)
(* filter lists on disk, and the operations that keep the four together:   *)
(* saving a configuration, the quick rule of the query log, starting and   *)
(* stopping DNS, updating filter lists, the watchdog and the initial       *)
(* start.                                                                  *)
(*                                                                         *)
(* An operation that changes the runtime holds runtime_update_lock from    *)
(* Enter to its end.  Its steps are the points between which a crash       *)
(* leaves something different behind: database, list caches, memory and    *)
(* server.  Everything that touches a disk or a socket may fail; faults    *)
(* counts down the failures that a behaviour may still contain.            *)
(*                                                                         *)
(* A configuration is reduced to the fields that the operations tell       *)
(* apart: enabled, the fields whose change needs a restart (structure),    *)
(* the fields that are hot-swapped (rules), and the subscribed address of  *)
(* every filter list (None when the list is disabled).                     *)
(***************************************************************************)
EXTENDS Naturals, FiniteSets

CONSTANTS
    Clients,      \* threads that run the requests of users
    AutoUpdater,  \* the thread of spawn_filter_auto_update
    Operations,   \* the operations users ask for
    Structures, Rules, Lists, Urls,
    MaxDownloads, MaxFaults, MaxCrashes,
    None

ASSUME CoreAssumption ==
    /\ AutoUpdater \notin Clients
    /\ Operations \subseteq {"save", "rule", "start", "stop", "manual"}
    /\ IsFiniteSet(Lists)
    /\ MaxDownloads \in Nat /\ MaxFaults \in Nat /\ MaxCrashes \in Nat
    /\ None \notin Urls /\ None \notin Clients /\ None # AutoUpdater

VARIABLES
    config,              \* AppState.config
    saved,               \* the app_config row of the database
    server,              \* AppState.server: what the running server was built from
    cached,              \* the list files in the data directory
    runtime_update_lock, \* its holder, or None
    filter_update_lock,
    pc,                  \* where a thread is in its operation
    job,                 \* the local variables of the operation
    initialized,         \* initialize_runtime_blocking has run
    downloads, faults, crashes,
    broken,              \* a rollback has failed and the error says so
    intended             \* history: what the successful operations add up to

vars == <<config, saved, server, cached, runtime_update_lock,
          filter_update_lock, pc, job, initialized, downloads, faults,
          crashes, broken, intended>>

Threads == Clients \cup {AutoUpdater}

-----------------------------------------------------------------------------
Configs == [enabled : BOOLEAN, structure : Structures, rules : Rules,
            lists : [Lists -> Urls \cup {None}]]
Contents == [url : Urls, number : 1..MaxDownloads]
Caches == [Lists -> Contents \cup {None}]
Servers == [structure : Structures, rules : Rules, lists : Caches,
            alive : BOOLEAN]

NoJob == [op |-> None, next |-> None, previous |-> None, was_running |-> FALSE,
          start_required |-> FALSE, staged |-> None, before |-> None,
          todo |-> {}]
Jobs == [op : Operations \cup {"update", None},
         next : Configs \cup {None},
         previous : Configs \cup {None},
         was_running : BOOLEAN,
         start_required : BOOLEAN,
         staged : Caches \cup {None},
         before : Caches \cup {None},
         todo : SUBSET Lists]

TypeOK ==
    /\ config \in Configs
    /\ saved \in Configs
    /\ server \in Servers \cup {None}
    /\ cached \in Caches
    /\ runtime_update_lock \in Threads \cup {None}
    /\ filter_update_lock \in Threads \cup {None}
    /\ pc \in [Threads -> {"idle", "update_lock", "enter", "persist",
                           "publish", "apply", "undo_caches", "undo_save",
                           "undo_apply", "snapshot", "download"}]
    /\ job \in [Threads -> Jobs]
    /\ initialized \in BOOLEAN
    /\ downloads \in 0..MaxDownloads
    /\ faults \in 0..MaxFaults
    /\ crashes \in 0..MaxCrashes
    /\ broken \in BOOLEAN
    /\ intended \in Configs

Init ==
    /\ config \in Configs
    /\ saved = config
    /\ intended = config
    /\ server = None
    /\ cached = [l \in Lists |-> None]
    /\ runtime_update_lock = None
    /\ filter_update_lock = None
    /\ pc = [t \in Threads |-> "idle"]
    /\ job = [t \in Threads |-> NoJob]
    /\ initialized = FALSE
    /\ downloads = 0
    /\ faults = MaxFaults
    /\ crashes = 0
    /\ broken = FALSE

-----------------------------------------------------------------------------
(* What the operations are made of *)

(* server_needs_start, negated. *)
Running == server # None /\ server.alive

(* needs_dns_restart *)
NeedsRestart(p, n) == p.structure # n.structure

(* A comparison that overlooks that a list was switched on or off. *)
FilterChangedByRules(p, n) == p.rules # n.rules

(* filter_runtime_changed: a list counts when it is switched on or off, a  *)
(* new address alone does not change any rule.                             *)
FilterChanged(p, n) ==
    \/ p.rules # n.rules
    \/ \E l \in Lists : (p.lists[l] = None) # (n.lists[l] = None)

(* load_or_compile_rules: the cached files of the enabled lists. *)
Loaded(c, files) ==
    [l \in Lists |-> IF c.lists[l] = None THEN None ELSE files[l]]

(* A server that is given the subscriptions in place of their contents. *)
StartedUnloaded(c, files) == [structure |-> c.structure, rules |-> c.rules,
                              lists |-> c.lists, alive |-> TRUE]

(* The server that start_current makes of a configuration. *)
Started(c, files) == [structure |-> c.structure, rules |-> c.rules,
                      lists |-> Loaded(c, files), alive |-> TRUE]

Fault == faults > 0 /\ faults' = faults - 1

Goto(t, s) == pc' = [pc EXCEPT ![t] = s]

(* An operation returns; one that holds filter_update_lock gives it back. *)
Return(t) ==
    /\ Goto(t, "idle")
    /\ job' = [job EXCEPT ![t] = NoJob]
    /\ runtime_update_lock' =
          IF runtime_update_lock = t THEN None ELSE runtime_update_lock
    /\ filter_update_lock' =
          IF filter_update_lock = t THEN None ELSE filter_update_lock

(* An operation has succeeded; the save that precedes a manual update goes *)
(* on to the download.                                                     *)
Succeed(t) ==
    IF job[t].op = "manual"
    THEN /\ Goto(t, "snapshot")
         /\ job' = [job EXCEPT ![t] = [NoJob EXCEPT !.op = "update"]]
         /\ runtime_update_lock' = None
         /\ UNCHANGED filter_update_lock
    ELSE Return(t)

-----------------------------------------------------------------------------
(* Requests *)

(* save_config and update_filters come with a whole configuration. *)
Submit(t, op, c) ==
    /\ op \in {"save", "manual"} \cap Operations
    /\ t \in Clients /\ pc[t] = "idle"
    /\ Goto(t, IF op = "manual" THEN "update_lock" ELSE "enter")
    /\ job' = [job EXCEPT ![t] = [NoJob EXCEPT !.op = op, !.next = c]]
    /\ UNCHANGED <<config, saved, server, cached, runtime_update_lock,
                   filter_update_lock, initialized, downloads, faults,
                   crashes, broken, intended>>

(* apply_query_log_rule_blocking reads the configuration before it calls   *)
(* save_config_blocking; nothing is saved if the rule is there already.    *)
QueryLogRule(t, r) ==
    /\ "rule" \in Operations
    /\ t \in Clients /\ pc[t] = "idle"
    /\ r # config.rules
    /\ Goto(t, "enter")
    /\ job' = [job EXCEPT ![t] =
                  [NoJob EXCEPT !.op = "rule",
                                !.next = [config EXCEPT !.rules = r]]]
    /\ UNCHANGED <<config, saved, server, cached, runtime_update_lock,
                   filter_update_lock, initialized, downloads, faults,
                   crashes, broken, intended>>

StartOrStop(t, op) ==
    /\ op \in {"start", "stop"} \cap Operations
    /\ t \in Clients /\ pc[t] = "idle"
    /\ Goto(t, "enter")
    /\ job' = [job EXCEPT ![t] = [NoJob EXCEPT !.op = op]]
    /\ UNCHANGED <<config, saved, server, cached, runtime_update_lock,
                   filter_update_lock, initialized, downloads, faults,
                   crashes, broken, intended>>

(* A list has become due. *)
AutoUpdate ==
    /\ pc[AutoUpdater] = "idle"
    /\ downloads < MaxDownloads
    /\ \E l \in Lists : config.lists[l] # None
    /\ Goto(AutoUpdater, "update_lock")
    /\ job' = [job EXCEPT ![AutoUpdater] = [NoJob EXCEPT !.op = "update"]]
    /\ UNCHANGED <<config, saved, server, cached, runtime_update_lock,
                   filter_update_lock, initialized, downloads, faults,
                   crashes, broken, intended>>

-----------------------------------------------------------------------------
(* Downloading filter lists *)

(* One update at a time; a manual one saves the submitted configuration    *)
(* first.                                                                  *)
LockUpdate(t) ==
    /\ pc[t] = "update_lock"
    /\ filter_update_lock = None
    /\ filter_update_lock' = t
    /\ Goto(t, IF job[t].op = "manual" THEN "enter" ELSE "snapshot")
    /\ UNCHANGED <<config, saved, server, cached, runtime_update_lock, job,
                   initialized, downloads, faults, crashes, broken, intended>>

(* The lists to download are those of the configuration of the moment; the *)
(* download itself holds no other lock.                                    *)
Snapshot(t) ==
    /\ pc[t] = "snapshot"
    /\ job' = [job EXCEPT ![t].previous = config]
    /\ Goto(t, "download")
    /\ UNCHANGED <<config, saved, server, cached, runtime_update_lock,
                   filter_update_lock, initialized, downloads, faults,
                   crashes, broken, intended>>

(* Downloads land in a staging directory; some fail or are cancelled. *)
Download(t) ==
    LET base == job[t].previous IN
    /\ pc[t] = "download"
    /\ downloads < MaxDownloads
    /\ downloads' = downloads + 1
    /\ \E got \in SUBSET {l \in Lists : base.lists[l] # None} :
          job' = [job EXCEPT ![t].staged =
                     [l \in Lists |->
                        IF l \in got
                        THEN [url |-> base.lists[l], number |-> downloads']
                        ELSE None]]
    /\ Goto(t, "enter")
    /\ UNCHANGED <<config, saved, server, cached, runtime_update_lock,
                   filter_update_lock, initialized, faults, crashes, broken,
                   intended>>

(* An update that starts over for as long as the download fails. *)
DownloadRetried(t) ==
    /\ pc[t] = "download"
    /\ Goto(t, "snapshot")
    /\ UNCHANGED <<config, saved, server, cached, runtime_update_lock,
                   filter_update_lock, job, initialized, downloads, faults,
                   crashes, broken, intended>>

(* The directory or the download client cannot be set up. *)
DownloadFails(t) ==
    /\ pc[t] = "download"
    /\ Return(t)
    /\ UNCHANGED <<config, saved, server, cached, initialized, downloads,
                   faults, crashes, broken, intended>>

(* An update that is merged by the name of the list alone. *)
MergedByName(t) == {l \in Lists : /\ job[t].staged[l] # None
                                  /\ config.lists[l] # None}

(* merge_filter_update: a download counts if the list is still enabled     *)
(* under the address that it came from.                                    *)
Merged(t) == {l \in Lists : /\ job[t].staged[l] # None
                            /\ config.lists[l] = job[t].staged[l].url}

-----------------------------------------------------------------------------
(* Operations under runtime_update_lock *)

(* An update that saves the configuration its download started from. *)
WantedSnapshot(t) ==
    CASE job[t].op = "start"  -> [config EXCEPT !.enabled = TRUE]
      [] job[t].op = "stop"   -> [config EXCEPT !.enabled = FALSE]
      [] job[t].op = "update" -> job[t].previous
      [] OTHER                -> job[t].next

(* The configuration that an operation wants; an update keeps the latest. *)
Wanted(t) ==
    CASE job[t].op = "start"  -> [config EXCEPT !.enabled = TRUE]
      [] job[t].op = "stop"   -> [config EXCEPT !.enabled = FALSE]
      [] job[t].op = "update" -> config
      [] OTHER                -> job[t].next

StartRequired(n) ==
    n.enabled /\ (~config.enabled \/ NeedsRestart(config, n) \/ ~Running)

Enter(t) ==
    LET n == Wanted(t) IN
    /\ pc[t] = "enter"
    /\ runtime_update_lock = None
    /\ runtime_update_lock' = t
    /\ Goto(t, "persist")
    /\ job' = [job EXCEPT ![t].next = n,
                          ![t].previous = config,
                          ![t].was_running = Running,
                          ![t].start_required = StartRequired(n),
                          ![t].before = cached,
                          ![t].todo = IF job[t].op = "update"
                                      THEN Merged(t) ELSE {}]
    /\ UNCHANGED <<config, saved, server, cached, filter_update_lock,
                   initialized, downloads, faults, crashes, broken, intended>>

(* database.save_config *)
Persist(t) ==
    /\ pc[t] = "persist"
    /\ saved' = job[t].next
    /\ Goto(t, IF job[t].todo = {} THEN "apply" ELSE "publish")
    /\ UNCHANGED <<config, server, cached, runtime_update_lock,
                   filter_update_lock, job, initialized, downloads, faults,
                   crashes, broken, intended>>

(* The configuration is refused, the listeners cannot be bound in the      *)
(* preflight, a list cannot be read, or the database fails: nothing has    *)
(* changed.                                                                *)
Reject(t) ==
    /\ pc[t] = "persist"
    /\ Fault
    /\ Return(t)
    /\ UNCHANGED <<config, saved, server, cached, initialized, downloads,
                   crashes, broken, intended>>

(* publish_filter_cache_updates *)
Publish(t, l) ==
    /\ pc[t] = "publish"
    /\ l \in job[t].todo
    /\ cached' = [cached EXCEPT ![l] = job[t].staged[l]]
    /\ job' = [job EXCEPT ![t].todo = @ \ {l}]
    /\ Goto(t, IF job[t].todo = {l} THEN "apply" ELSE "publish")
    /\ UNCHANGED <<config, saved, server, runtime_update_lock,
                   filter_update_lock, initialized, downloads, faults,
                   crashes, broken, intended>>

(* A list cannot be written: the ones before it are taken back.  Memory    *)
(* and server have not been touched, which todo # {} records.              *)
PublishFails(t) ==
    /\ pc[t] = "publish"
    /\ Fault
    /\ Goto(t, "undo_caches")
    /\ UNCHANGED <<config, saved, server, cached, runtime_update_lock,
                   filter_update_lock, job, initialized, downloads, crashes,
                   broken, intended>>

(* What applying the new configuration does to the server. *)
Effect(t) ==
    LET j == job[t]
        changed == IF j.op = "update"
                   THEN \E l \in Lists : j.staged[l] # None
                   ELSE j.start_required \/ FilterChanged(j.previous, j.next)
    IN  CASE j.op = "start" -> "start"
          [] j.op # "start" /\ ~j.next.enabled ->
                IF j.op = "update" THEN "keep" ELSE "stop"
          [] j.op # "start" /\ j.next.enabled ->
                IF ~changed THEN "keep"
                ELSE IF ~NeedsRestart(j.previous, j.next) /\ Running
                THEN "swap" ELSE "start"

(* replace_config, then stop_current, try_hot_swap or start_current. *)
Apply(t) ==
    LET n == job[t].next IN
    /\ pc[t] = "apply"
    /\ config' = n
    /\ server' = CASE Effect(t) = "keep"  -> server
                   [] Effect(t) = "stop"  -> None
                   [] Effect(t) = "swap"  -> [server EXCEPT !.rules = n.rules,
                                                            !.lists = Loaded(n, cached)]
                   [] Effect(t) = "start" -> Started(n, cached)
    /\ intended' = CASE job[t].op = "rule"   -> [intended EXCEPT !.rules = n.rules]
                     [] job[t].op = "start"  -> [intended EXCEPT !.enabled = TRUE]
                     [] job[t].op = "stop"   -> [intended EXCEPT !.enabled = FALSE]
                     [] job[t].op = "update" -> intended
                     [] OTHER                -> n
    /\ Succeed(t)
    /\ UNCHANGED <<saved, cached, initialized, downloads, faults, crashes,
                   broken>>

(* start_current has stopped the old server and cannot start a new one. *)
ApplyFails(t) ==
    /\ pc[t] = "apply"
    /\ Effect(t) = "start"
    /\ Fault
    /\ config' = job[t].next
    /\ server' = None
    /\ Goto(t, IF job[t].op = "update" THEN "undo_caches" ELSE "undo_save")
    /\ UNCHANGED <<saved, cached, runtime_update_lock, filter_update_lock, job,
                   initialized, downloads, crashes, broken, intended>>

-----------------------------------------------------------------------------
(* Rollback *)

(* A rollback that leaves the new lists in place. *)
UndoCachesSkipped(t) ==
    /\ pc[t] = "undo_caches"
    /\ Goto(t, "undo_save")
    /\ UNCHANGED <<config, saved, server, cached, runtime_update_lock,
                   filter_update_lock, job, initialized, downloads, faults,
                   crashes, broken, intended>>

(* restore_filter_cache_updates; files that cannot be written stay new. *)
UndoCaches(t) ==
    /\ pc[t] = "undo_caches"
    /\ \/ cached' = job[t].before /\ UNCHANGED <<faults, broken>>
       \/ /\ Fault
          /\ broken' = TRUE
          /\ \E kept \in SUBSET {l \in Lists : cached[l] # job[t].before[l]} :
                cached' = [l \in Lists |-> IF l \in kept THEN cached[l]
                                           ELSE job[t].before[l]]
    /\ Goto(t, "undo_save")
    /\ UNCHANGED <<config, saved, server, runtime_update_lock,
                   filter_update_lock, job, initialized, downloads, crashes,
                   intended>>

(* The previous configuration goes back into the database.  An update that *)
(* failed while publishing is done then.                                   *)
UndoSave(t) ==
    /\ pc[t] = "undo_save"
    /\ \/ saved' = job[t].previous /\ UNCHANGED <<faults, broken>>
       \/ Fault /\ broken' = TRUE /\ UNCHANGED saved
    /\ IF job[t].todo # {}
       THEN Return(t)
       ELSE /\ Goto(t, "undo_apply")
            /\ UNCHANGED <<job, runtime_update_lock, filter_update_lock>>
    /\ UNCHANGED <<config, server, cached, initialized, downloads, crashes,
                   intended>>

(* restore_config_after_failure_with *)
UndoApply(t) ==
    /\ pc[t] = "undo_apply"
    /\ config' = job[t].previous
    /\ \/ /\ job[t].was_running
          /\ server' = Started(job[t].previous, cached)
          /\ UNCHANGED <<faults, broken>>
       \/ /\ job[t].was_running
          /\ Fault
          /\ server' = None
          /\ broken' = TRUE
       \/ /\ ~job[t].was_running
          /\ server' = None
          /\ UNCHANGED <<faults, broken>>
    /\ Return(t)
    /\ UNCHANGED <<saved, cached, initialized, downloads, crashes, intended>>

-----------------------------------------------------------------------------
(* Background threads and failures *)

(* start_current on behalf of the watchdog or the initial start. *)
StartCurrent ==
    \/ server' = Started(config, cached) /\ UNCHANGED faults
    \/ server' = None /\ Fault

(* A watchdog that restarts only a server that exists. *)
WatchdogNeedsServer ==
    /\ runtime_update_lock = None
    /\ config.enabled /\ ~Running /\ server # None
    /\ StartCurrent
    /\ UNCHANGED <<config, saved, cached, runtime_update_lock,
                   filter_update_lock, pc, job, initialized, downloads,
                   crashes, broken, intended>>

(* spawn_runtime_watchdog, with the watchdog switched on. *)
Watchdog ==
    /\ runtime_update_lock = None
    /\ config.enabled /\ ~Running
    /\ StartCurrent
    /\ UNCHANGED <<config, saved, cached, runtime_update_lock,
                   filter_update_lock, pc, job, initialized, downloads,
                   crashes, broken, intended>>

(* initialize_runtime_blocking, once per process. *)
Initialize ==
    /\ ~initialized
    /\ runtime_update_lock = None
    /\ initialized' = TRUE
    /\ IF config.enabled THEN StartCurrent ELSE UNCHANGED <<server, faults>>
    /\ UNCHANGED <<config, saved, cached, runtime_update_lock,
                   filter_update_lock, pc, job, downloads, crashes, broken,
                   intended>>

(* A thread of the server ends. *)
ThreadDies ==
    /\ Running
    /\ Fault
    /\ server' = [server EXCEPT !.alive = FALSE]
    /\ UNCHANGED <<config, saved, cached, runtime_update_lock,
                   filter_update_lock, pc, job, initialized, downloads,
                   crashes, broken, intended>>

(* The process dies and comes back with what is on disk. *)
Crash ==
    /\ crashes < MaxCrashes
    /\ crashes' = crashes + 1
    /\ config' = saved
    /\ intended' = saved
    /\ server' = None
    /\ runtime_update_lock' = None
    /\ filter_update_lock' = None
    /\ pc' = [t \in Threads |-> "idle"]
    /\ job' = [t \in Threads |-> NoJob]
    /\ initialized' = FALSE
    /\ broken' = FALSE
    /\ UNCHANGED <<saved, cached, downloads, faults>>

-----------------------------------------------------------------------------
Request(t) ==
    \/ \E op \in {"save", "manual"}, c \in Configs : Submit(t, op, c)
    \/ \E r \in Rules : QueryLogRule(t, r)
    \/ \E op \in {"start", "stop"} : StartOrStop(t, op)

Acquire(t) == LockUpdate(t) \/ Enter(t)

Step(t) ==
    \/ Snapshot(t) \/ Download(t) \/ DownloadFails(t)
    \/ Persist(t) \/ Reject(t)
    \/ \E l \in Lists : Publish(t, l)
    \/ PublishFails(t)
    \/ Apply(t) \/ ApplyFails(t)
    \/ UndoCaches(t) \/ UndoSave(t) \/ UndoApply(t)

Next ==
    \/ \E t \in Clients : Request(t)
    \/ AutoUpdate
    \/ \E t \in Threads : Acquire(t) \/ Step(t)
    \/ Watchdog \/ Initialize
    \/ ThreadDies \/ Crash

Spec == Init /\ [][Next]_vars

(* A thread that holds a lock keeps running.  The locks are free most of   *)
(* the time, so a thread that waits for one gets it eventually; the        *)
(* watchdog looks again and again.                                         *)
Fairness ==
    /\ \A t \in Threads : WF_vars(Step(t)) /\ SF_vars(Acquire(t))
    /\ SF_vars(Watchdog)

FairSpec == Spec /\ Fairness

-----------------------------------------------------------------------------
(* Properties *)

(* Whenever nobody is changing the runtime, the configuration in memory    *)
(* and in the database is what the successful operations add up to: a      *)
(* failed operation leaves no trace, and a list update loses no setting    *)
(* that was saved while it was downloading.                                *)
LastEditStands ==
    runtime_update_lock = None /\ ~broken =>
        config = intended /\ saved = intended

(* A server that is there serves the configuration in memory and the lists *)
(* on disk: a hot swap, a restart, a rollback and the watchdog all end in  *)
(* the state that a fresh start would build, and a disabled configuration  *)
(* leaves no server behind.                                                *)
ServerServesConfig ==
    runtime_update_lock = None /\ ~broken /\ server # None =>
        /\ config.enabled
        /\ server = [Started(config, cached) EXCEPT !.alive = server.alive]

(* A list update publishes a list only under the address it is subscribed  *)
(* at in the configuration that goes with it, however long the download    *)
(* took.                                                                   *)
PublishedAsSubscribed ==
    [][\A t \in Threads, l \in Lists :
          pc[t] = "publish" /\ cached'[l] # cached[l] =>
              cached'[l].url = saved.lists[l]]_vars

(* A rollback that reports no failure has put back the configuration in    *)
(* memory and in the database, the lists, and the server if it ran before. *)
RestoredExactly ==
    [][\A t \in Threads :
          LET j == job[t] IN
          /\ pc[t] \in {"undo_save", "undo_apply"}
          /\ pc'[t] = "idle"
          /\ crashes' = crashes
          /\ ~broken'
          => /\ config' = j.previous
             /\ saved' = j.previous
             /\ cached' = j.before
             /\ pc[t] = "undo_apply" =>
                   server' = IF j.was_running THEN Started(j.previous, j.before)
                             ELSE None]_vars

(* Every operation ends: nobody waits for ever on the two locks. *)
OperationsEnd == \A t \in Threads : pc[t] # "idle" ~> pc[t] = "idle"

(* The watchdog brings an enabled server back, unless the user disables it. *)
EnabledServes ==
    config.enabled /\ ~Running ~> Running \/ ~config.enabled

(* Nobody waits for ever on the two locks, and an enabled server comes back. *)
ServiceLiveness == OperationsEnd /\ EnabledServes
=============================================================================
