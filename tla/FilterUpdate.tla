---------------------------- MODULE FilterUpdate ----------------------------
(* filters.rs with its callers in service_core.rs: an update of the remote   *)
(* lists takes a snapshot of the configuration, downloads into a staging     *)
(* directory with a few threads, and publishes what is still wanted.  The    *)
(* user may cancel, edit and crash at any point; a thread starts an update   *)
(* by itself when a list is due.  Only the age of last_updated matters,      *)
(* which is kept up to the update interval.                                  *)
EXTENDS Integers, Sequences, FiniteSets

CONSTANTS FuLists,        \* subscriptions
          FuWorkers,      \* download threads
          FuInterval,     \* filter_update_interval_hours, in ticks
          FuMaxBackoff,   \* FILTER_AUTO_UPDATE_MAX_BACKOFF_SECONDS, in ticks
          FuNever,        \* last_updated of a list that never arrived
          FuNoList,       \* a thread holds no job, or a file is missing
          MaxFuFaults, MaxFuEdits   \* bounds

ASSUME FuConstants ==
    /\ IsFiniteSet(FuLists) /\ IsFiniteSet(FuWorkers) /\ FuWorkers # {}
    /\ FuInterval \in Nat \ {0} /\ FuMaxBackoff \in Nat \ {0}
    /\ FuNever \notin Nat /\ FuNoList \notin FuLists \cup Nat

VARIABLES fuRemote, fuEnabled,        \* the servers; what the user wants
          fuDisk, fuAge,              \* the filters directory and the database
          fuPc, fuAuto, fuChosen,     \* the update and its scope
          fuSnap, fuJobs, fuNext,     \* the snapshot and the jobs in order
          fuThread, fuStaged, fuChan, fuCount, \* threads, staging directory, outcomes
          fuBefore,                   \* what publication may have to restore
          fuCancel, fuShown, fuAsking,\* the flag, the progress shown, a request between its steps
          fuWait, fuBackoff,          \* the thread that updates by itself
          fuLate, fuTorn,             \* downloads begun after a cancel; a crash while publishing
          fuFaults, fuEdits           \* budgets

fuUpdate == <<fuPc, fuAuto, fuChosen, fuSnap, fuJobs, fuNext, fuThread, fuStaged, fuChan, fuCount, fuBefore, fuLate>>
fuStore == <<fuDisk, fuAge>>
fuTimer == <<fuWait, fuBackoff>>
fuUser == <<fuRemote, fuEnabled, fuEdits>>
fuFlag == <<fuCancel, fuShown, fuAsking>>
fuVars == <<fuUpdate, fuStore, fuTimer, fuUser, fuFlag, fuFaults, fuTorn>>

FuQuiet == [running |-> FALSE, cancel |-> FALSE, total |-> 0, completed |-> 0]
FuZero == [updated |-> 0, failed |-> 0]
FuIdle == [w \in FuWorkers |-> [at |-> "done", job |-> FuNoList]]

FuInit ==
    /\ fuRemote = [l \in FuLists |-> 1] /\ fuEnabled \in SUBSET FuLists /\ fuEdits = 0
    /\ fuDisk = [l \in FuLists |-> FuNoList] /\ fuAge = [l \in FuLists |-> FuNever]
    /\ fuPc = "idle" /\ fuAuto = FALSE /\ fuChosen = {} /\ fuSnap = {} /\ fuJobs = <<>> /\ fuNext = 1
    /\ fuThread = FuIdle /\ fuStaged = [l \in FuLists |-> FuNoList] /\ fuChan = <<>> /\ fuCount = FuZero
    /\ fuBefore = <<>> /\ fuLate = [w \in FuWorkers |-> 0]
    /\ fuCancel = FALSE /\ fuShown = FuQuiet /\ fuAsking = FALSE
    /\ fuWait = 0 /\ fuBackoff = 0 /\ fuFaults = 0 /\ fuTorn = FALSE

------------------------------------------------------------------------------
(* Mutant: a list that never arrived is not due. *)
FuDueOnceUpdated(l) == IF fuAge[l] = FuNever THEN FALSE ELSE fuAge[l] >= FuInterval

(* is_filter_due *)
FuDue(l) == fuAge[l] # FuNever => fuAge[l] >= FuInterval

(* has_due_filters *)
FuHasDue == \E l \in fuEnabled : FuDue(l)

(* update_filters_blocking: all lists, or the chosen ones; the lock admits   *)
(* one update.                                                               *)
FuStartManual ==
    /\ fuPc = "idle"
    /\ \E chosen \in {FuLists} \cup {{l} : l \in FuLists} : fuChosen' = chosen
    /\ fuEdits < MaxFuEdits /\ fuEdits' = fuEdits + 1
    /\ fuAuto' = FALSE /\ fuSnap' = fuEnabled /\ fuPc' = "begin"
    /\ UNCHANGED <<fuRemote, fuEnabled, fuStore, fuTimer, fuFlag, fuFaults, fuJobs, fuNext, fuThread,
                   fuStaged, fuChan, fuCount, fuBefore, fuLate>>

(* spawn_filter_auto_update, update_due_filters_blocking *)
FuStartAuto ==
    /\ fuPc = "idle" /\ fuWait = 0 /\ FuHasDue
    /\ fuAuto' = TRUE /\ fuChosen' = {l \in FuLists : FuDue(l)} /\ fuSnap' = fuEnabled /\ fuPc' = "begin"
    /\ UNCHANGED <<fuUser, fuStore, fuTimer, fuFlag, fuFaults, fuJobs, fuNext, fuThread, fuStaged, fuChan,
                   fuCount, fuBefore, fuLate>>

(* begin_filter_update: first the flag, then the progress. *)
FuBeginFlag ==
    /\ fuPc = "begin" /\ fuPc' = "show" /\ fuCancel' = FALSE
    /\ fuLate' = [w \in FuWorkers |-> 0]
    /\ UNCHANGED <<fuUser, fuStore, fuTimer, fuShown, fuAsking, fuFaults, fuAuto, fuChosen, fuSnap, fuJobs,
                   fuNext, fuThread, fuStaged, fuChan, fuCount, fuBefore>>
FuBeginShow ==
    /\ fuPc = "show" /\ fuPc' = "prepare" /\ fuShown' = [FuQuiet EXCEPT !.running = TRUE]
    /\ UNCHANGED <<fuUser, fuStore, fuTimer, fuCancel, fuAsking, fuFaults, fuAuto, fuChosen, fuSnap, fuJobs,
                   fuNext, fuThread, fuStaged, fuChan, fuCount, fuBefore, fuLate>>

(* FilterUpdateStaging::new, build_download_client, collect_download_jobs *)
FuCollect ==
    /\ fuPc = "prepare" /\ fuPc' = "download"
    /\ \E jobs \in [1..Cardinality(fuSnap \cap fuChosen) -> fuSnap \cap fuChosen] :
         /\ \A i, j \in DOMAIN jobs : i # j => jobs[i] # jobs[j]
         /\ fuJobs' = jobs
         /\ fuShown' = [fuShown EXCEPT !.total = Len(jobs), !.cancel = fuCancel]
    /\ fuNext' = 1 /\ fuCount' = FuZero /\ fuChan' = <<>> /\ fuStaged' = [l \in FuLists |-> FuNoList]
    /\ fuThread' = [w \in FuWorkers |-> [at |-> "check", job |-> FuNoList]]
    /\ UNCHANGED <<fuUser, fuStore, fuTimer, fuCancel, fuAsking, fuFaults, fuAuto, fuChosen, fuSnap, fuBefore,
                   fuLate>>
FuPrepareFails ==
    /\ fuPc = "prepare" /\ fuFaults < MaxFuFaults
    /\ fuFaults' = fuFaults + 1 /\ fuPc' = "failed"
    /\ UNCHANGED <<fuUser, fuStore, fuTimer, fuFlag, fuAuto, fuChosen, fuSnap, fuJobs, fuNext, fuThread,
                   fuStaged, fuChan, fuCount, fuBefore, fuLate>>

------------------------------------------------------------------------------
FuThread(w, at, job) == fuThread' = [fuThread EXCEPT ![w] = [at |-> at, job |-> job]]

(* Mutant: the flag is read only before the first job. *)
FuGoesOnRegardless(w) == ~fuCancel \/ fuNext > 1

(* update_matching_filters: the loop of a thread reads the flag, then takes  *)
(* the next job.                                                             *)
FuGoesOn(w) == ~fuCancel
FuCheck(w) ==
    /\ fuPc = "download" /\ fuThread[w].at = "check"
    /\ FuThread(w, IF FuGoesOn(w) THEN "take" ELSE "done", FuNoList)
    /\ UNCHANGED <<fuUser, fuStore, fuTimer, fuFlag, fuFaults, fuPc, fuAuto, fuChosen, fuSnap, fuJobs, fuNext,
                   fuStaged, fuChan, fuCount, fuBefore, fuLate>>

(* Mutant: the counter is advanced by the thread that comes back. *)
FuAfterTakeLater(n) == IF \E w \in FuWorkers : fuThread[w].at = "fetch" THEN n + 1 ELSE n

(* next_job.fetch_add *)
FuAfterTake(n) == n + 1
FuTake(w) ==
    /\ fuPc = "download" /\ fuThread[w].at = "take"
    /\ IF fuNext <= Len(fuJobs)
       THEN /\ FuThread(w, "fetch", fuJobs[fuNext])
            /\ fuLate' = [fuLate EXCEPT ![w] = @ + IF fuCancel THEN 1 ELSE 0]
       ELSE FuThread(w, "done", FuNoList) /\ UNCHANGED fuLate
    /\ fuNext' = FuAfterTake(fuNext)
    /\ UNCHANGED <<fuUser, fuStore, fuTimer, fuFlag, fuFaults, fuPc, fuAuto, fuChosen, fuSnap, fuJobs,
                   fuStaged, fuChan, fuCount, fuBefore>>

(* process_filter_download: the list is stored in the staging directory, or  *)
(* the download, its size, its type or the file is wrong.                    *)
FuFetch(w) ==
    /\ fuPc = "download" /\ fuThread[w].at = "fetch"
    /\ FuThread(w, "arrived", fuThread[w].job)
    /\ fuStaged' = [fuStaged EXCEPT ![fuThread[w].job] = fuRemote[fuThread[w].job]]
    /\ UNCHANGED <<fuUser, fuStore, fuTimer, fuFlag, fuFaults, fuPc, fuAuto, fuChosen, fuSnap, fuJobs, fuNext,
                   fuChan, fuCount, fuBefore, fuLate>>
FuFetchFails(w) ==
    /\ fuPc = "download" /\ fuThread[w].at = "fetch" /\ fuFaults < MaxFuFaults
    /\ fuFaults' = fuFaults + 1
    /\ FuThread(w, "refused", fuThread[w].job)
    /\ UNCHANGED <<fuUser, fuStore, fuTimer, fuFlag, fuPc, fuAuto, fuChosen, fuSnap, fuJobs, fuNext, fuStaged,
                   fuChan, fuCount, fuBefore, fuLate>>
FuSend(w) ==
    /\ fuThread[w].at \in {"arrived", "refused"} /\ Len(fuChan) < Cardinality(FuWorkers)
    /\ fuChan' = Append(fuChan, [list |-> fuThread[w].job, ok |-> fuThread[w].at = "arrived"])
    /\ FuThread(w, "check", FuNoList)
    /\ UNCHANGED <<fuUser, fuStore, fuTimer, fuFlag, fuFaults, fuPc, fuAuto, fuChosen, fuSnap, fuJobs, fuNext,
                   fuStaged, fuCount, fuBefore, fuLate>>

(* The caller counts the outcomes and shows them. *)
FuReceive ==
    /\ fuPc = "download" /\ fuChan # <<>>
    /\ fuCount' = IF Head(fuChan).ok THEN [fuCount EXCEPT !.updated = @ + 1]
                  ELSE [fuCount EXCEPT !.failed = @ + 1]
    /\ fuChan' = Tail(fuChan)
    /\ fuShown' = [fuShown EXCEPT !.completed = @ + 1, !.cancel = fuCancel]
    /\ UNCHANGED <<fuUser, fuStore, fuTimer, fuCancel, fuAsking, fuFaults, fuPc, fuAuto, fuChosen, fuSnap,
                   fuJobs, fuNext, fuThread, fuStaged, fuBefore, fuLate>>

------------------------------------------------------------------------------
(* merge_filter_update: what arrived for a list that is still enabled. *)
FuWanted == {l \in fuSnap \cap fuEnabled : fuStaged[l] # FuNoList}

(* save_config, before the lists are published *)
FuSave ==
    /\ fuPc = "download" /\ fuChan = <<>> /\ \A w \in FuWorkers : fuThread[w].at = "done"
    /\ fuBefore' = [disk |-> fuDisk, age |-> fuAge, left |-> FuWanted]
    /\ fuAge' = [l \in FuLists |-> IF l \in FuWanted THEN 0 ELSE fuAge[l]]
    /\ fuPc' = "publish"
    /\ UNCHANGED <<fuUser, fuDisk, fuTimer, fuFlag, fuFaults, fuAuto, fuChosen, fuSnap, fuJobs, fuNext,
                   fuThread, fuStaged, fuChan, fuCount, fuLate>>
(* publish_filter_cache_updates *)
FuPublish ==
    /\ fuPc = "publish" /\ \E l \in fuBefore.left :
         /\ fuDisk' = [fuDisk EXCEPT ![l] = fuStaged[l]]
         /\ fuBefore' = [fuBefore EXCEPT !.left = @ \ {l}]
    /\ UNCHANGED <<fuUser, fuAge, fuTimer, fuFlag, fuFaults, fuPc, fuAuto, fuChosen, fuSnap, fuJobs, fuNext,
                   fuThread, fuStaged, fuChan, fuCount, fuLate>>
(* Mutant: only the lists are restored. *)
FuRestoredLists == fuDisk' = fuBefore.disk /\ UNCHANGED fuAge

(* restore_filter_cache_updates and the previous configuration; a failure    *)
(* while applying the new rules comes here too.                              *)
FuRestored == fuDisk' = fuBefore.disk /\ fuAge' = fuBefore.age
FuPublishFails ==
    /\ fuPc = "publish" /\ fuFaults < MaxFuFaults /\ fuFaults' = fuFaults + 1
    /\ FuRestored /\ fuPc' = "failed"
    /\ UNCHANGED <<fuUser, fuTimer, fuFlag, fuAuto, fuChosen, fuSnap, fuJobs, fuNext, fuThread, fuStaged,
                   fuChan, fuCount, fuBefore, fuLate>>

FuComplete == fuPc = "publish" /\ fuCount.failed = 0
FuNextBackoff == IF fuBackoff * 2 > FuMaxBackoff THEN FuMaxBackoff
                 ELSE IF fuBackoff = 0 THEN 1 ELSE fuBackoff * 2

(* finish_filter_update, and how long the thread waits after a failure. *)
FuFinish ==
    /\ \/ fuPc = "publish" /\ fuBefore.left = {}
       \/ fuPc = "failed"
    /\ fuPc' = "idle" /\ fuBefore' = <<>>
    /\ fuShown' = [fuShown EXCEPT !.running = FALSE, !.cancel = fuCancel]
    /\ IF ~fuAuto THEN UNCHANGED fuTimer
       ELSE IF FuComplete THEN fuWait' = 0 /\ fuBackoff' = 0
       ELSE fuWait' = FuNextBackoff /\ fuBackoff' = FuNextBackoff
    /\ fuAuto' = FALSE /\ fuChosen' = {} /\ fuSnap' = {} /\ fuJobs' = <<>> /\ fuNext' = 1
    /\ fuThread' = FuIdle /\ fuStaged' = [l \in FuLists |-> FuNoList] /\ fuChan' = <<>> /\ fuCount' = FuZero
    /\ UNCHANGED <<fuUser, fuStore, fuCancel, fuAsking, fuFaults, fuLate>>

------------------------------------------------------------------------------
(* request_filter_update_cancel: first the flag, then the progress. *)
FuCancelFlag ==
    /\ ~fuAsking /\ fuEdits < MaxFuEdits /\ fuEdits' = fuEdits + 1
    /\ fuCancel' = TRUE /\ fuAsking' = TRUE
    /\ UNCHANGED <<fuRemote, fuEnabled, fuStore, fuTimer, fuShown, fuUpdate, fuFaults>>
FuCancelShow ==
    /\ fuAsking /\ fuAsking' = FALSE
    /\ fuShown' = IF fuShown.running THEN [fuShown EXCEPT !.cancel = TRUE] ELSE fuShown
    /\ UNCHANGED <<fuUser, fuStore, fuTimer, fuCancel, fuUpdate, fuFaults>>
FuToggle(l) ==
    /\ fuEdits < MaxFuEdits /\ fuEdits' = fuEdits + 1
    /\ fuPc # "publish"
    /\ fuEnabled' = IF l \in fuEnabled THEN fuEnabled \ {l} ELSE fuEnabled \cup {l}
    /\ UNCHANGED <<fuRemote, fuStore, fuTimer, fuFlag, fuUpdate, fuFaults>>
FuRemoteChanges(l) ==
    /\ fuEdits < MaxFuEdits /\ fuEdits' = fuEdits + 1 /\ fuRemote' = [fuRemote EXCEPT ![l] = @ + 1]
    /\ UNCHANGED <<fuEnabled, fuStore, fuTimer, fuFlag, fuUpdate, fuFaults>>
FuTick ==
    /\ \/ fuWait > 0
       \/ \E l \in FuLists : fuAge[l] # FuNever /\ fuAge[l] < FuInterval
    /\ fuAge' = [l \in FuLists |-> IF fuAge[l] # FuNever /\ fuAge[l] < FuInterval THEN fuAge[l] + 1 ELSE fuAge[l]]
    /\ fuWait' = IF fuWait > 0 THEN fuWait - 1 ELSE 0
    /\ UNCHANGED <<fuBackoff, fuUser, fuDisk, fuFlag, fuUpdate, fuFaults>>
FuCrash ==
    /\ fuFaults < MaxFuFaults /\ fuFaults' = fuFaults + 1
    /\ fuPc' = "idle" /\ fuAuto' = FALSE /\ fuChosen' = {} /\ fuSnap' = {} /\ fuJobs' = <<>> /\ fuNext' = 1
    /\ fuThread' = FuIdle /\ fuStaged' = [l \in FuLists |-> FuNoList] /\ fuChan' = <<>> /\ fuCount' = FuZero
    /\ fuBefore' = <<>> /\ fuLate' = [w \in FuWorkers |-> 0]
    /\ fuCancel' = FALSE /\ fuShown' = FuQuiet /\ fuAsking' = FALSE /\ fuWait' = 0 /\ fuBackoff' = 0
    /\ fuTorn' = (fuTorn \/ fuPc = "publish")
    /\ UNCHANGED <<fuUser, fuStore>>

FuSteps ==
    \/ FuBeginFlag \/ FuBeginShow \/ FuCollect \/ FuReceive \/ FuSave \/ FuPublish \/ FuFinish
    \/ \E w \in FuWorkers : FuCheck(w) \/ FuTake(w) \/ FuFetch(w) \/ FuSend(w)
FuUpdateStep == FuSteps /\ UNCHANGED fuTorn
FuWakes == FuStartAuto /\ UNCHANGED fuTorn
FuTime == FuTick /\ UNCHANGED fuTorn
FuOther ==
    \/ FuStartManual \/ FuPrepareFails \/ FuPublishFails \/ FuCancelFlag \/ FuCancelShow
    \/ \E w \in FuWorkers : FuFetchFails(w)
    \/ \E l \in FuLists : FuToggle(l) \/ FuRemoteChanges(l)
FuNextStep == FuUpdateStep \/ FuWakes \/ FuTime \/ FuCrash \/ (FuOther /\ UNCHANGED fuTorn)

(* Threads run, time passes, and the thread that updates by itself wakes up. *)
FuFairness ==
    WF_fuVars(FuUpdateStep) /\ WF_fuVars(FuWakes) /\ WF_fuVars(FuTime)
FuSpec == FuInit /\ [][FuNextStep]_fuVars /\ FuFairness

------------------------------------------------------------------------------
FuTypeOK ==
    /\ fuAge \in [FuLists -> 0..FuInterval \cup {FuNever}] /\ fuEnabled \subseteq FuLists
    /\ fuPc \in {"idle", "begin", "show", "prepare", "download", "publish", "failed"}
    /\ fuNext \in 1..(Len(fuJobs) + Cardinality(FuWorkers) + 1)
    /\ fuShown.completed \in 0..fuShown.total

(* After a request to cancel has reached the flag, each thread begins at     *)
(* most the one download it had already decided on.                          *)
FuCancelHeeded == \A w \in FuWorkers : fuLate[w] <= 1

(* Every job is taken by one thread and counted once, so that the report's   *)
(* updated, failed and cancelled lists add up and the staging directory      *)
(* holds exactly the lists that count as updated.                            *)
FuCountsAdd ==
    LET sent(ok) == {i \in DOMAIN fuChan : fuChan[i].ok = ok}
        at(p) == {w \in FuWorkers : fuThread[w].at = p}
    IN fuPc \in {"download", "publish"} =>
         /\ Cardinality({l \in FuLists : fuStaged[l] # FuNoList})
              = fuCount.updated + Cardinality(sent(TRUE)) + Cardinality(at("arrived"))
         /\ fuCount.updated + fuCount.failed + Len(fuChan)
              + Cardinality(at("fetch") \cup at("arrived") \cup at("refused")) <= Len(fuJobs)

(* A list with a date of its last update has arrived once, whatever failed:  *)
(* only a crash inside the publication can leave the date without the list.  *)
FuDatesHaveLists ==
    fuPc # "publish" /\ ~fuTorn => \A l \in FuLists : fuAge[l] # FuNever => fuDisk[l] # FuNoList

(* Failures, crashes between the saved date and the published list, cancelled*)
(* updates and edits end: then every enabled list on disk is what its server *)
(* holds, from some time on.                                                 *)
FuListsCatchUp == <>[](\A l \in fuEnabled : fuDisk[l] = fuRemote[l])

(* An update heeds its cancel, counts every list once and dates only lists   *)
(* that have arrived.                                                        *)
FuUpdateSound == FuTypeOK /\ FuCancelHeeded /\ FuCountsAdd /\ FuDatesHaveLists
==============================================================================
