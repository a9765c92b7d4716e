-------------------------- MODULE ServiceCoreProofs --------------------------
(***************************************************************************)
(* Machine-checked proofs about ServiceCore, for any number of clients,    *)
(* settings, lists, addresses, downloads, faults and crashes.              *)
(*                                                                         *)
(* An operation keeps what it found in job[t].previous and job[t].before.  *)
(* The inductive invariant says what the four copies of the configuration  *)
(* are at each step of the operation in terms of the two, so that the end  *)
(* of the operation, whichever it is, finds the server, the memory, the    *)
(* database and the lists in agreement again.                              *)
(***************************************************************************)
EXTENDS ServiceCore, TLAPS

UnderLock == {"persist", "publish", "apply", "undo_caches", "undo_save", "undo_apply"}

(* A server s that is there is what a start with c and these files makes.  *)
Serves(s, c, files) ==
    s # None => c.enabled /\ s = [Started(c, files) EXCEPT !.alive = s.alive]

LockHeld == \A t \in Threads : pc[t] \in UnderLock <=> runtime_update_lock = t

(* What an operation brings to the lock.                                   *)
Prepared ==
    /\ \A t \in Threads :
          /\ pc[t] \in {"update_lock", "enter"} => job[t].op \in Operations \cup {"update"}
          /\ pc[t] = "update_lock" => job[t].op \in {"manual", "update"}
          /\ pc[t] \in {"snapshot", "download"} => job[t].op = "update"
          /\ pc[t] = "download" => job[t].previous \in Configs
          /\ pc[t] \in {"update_lock", "enter"} /\ job[t].op \in {"save", "rule", "manual"}
                => job[t].next \in Configs
          /\ pc[t] = "enter" /\ job[t].op = "update" => job[t].staged \in Caches
    /\ pc[AutoUpdater] # "idle" => job[AutoUpdater].op = "update"

(* What it knows there.                                                    *)
Entered(t) ==
    LET j == job[t] IN
    /\ j.op \in Operations \cup {"update"}
    /\ j.next \in Configs /\ j.previous \in Configs /\ j.before \in Caches
    /\ j.op = "start" => j.next = [j.previous EXCEPT !.enabled = TRUE]
    /\ j.op = "stop" => j.next = [j.previous EXCEPT !.enabled = FALSE]
    /\ j.op = "update" =>
          /\ j.next = j.previous /\ j.staged \in Caches
          /\ \A l \in j.todo : j.staged[l] # None /\ j.next.lists[l] = j.staged[l].url
    /\ j.op # "update" => j.todo = {}
    /\ j.start_required = (j.next.enabled /\ (~j.previous.enabled \/ NeedsRestart(j.previous, j.next)
                                                \/ ~j.was_running))

(* Where it stands, whatever has been broken before.                       *)
Proceeds(t) ==
    LET j == job[t] IN
    /\ pc[t] \in {"persist", "publish", "apply"} => config = j.previous
    /\ pc[t] \in {"publish", "apply"} => saved = j.next
    /\ pc[t] \in {"publish", "apply"} => \A l \in Lists : cached[l] # j.before[l] =>
                                            j.op = "update" /\ j.staged[l] # None
    /\ pc[t] = "persist" => cached = j.before
    /\ pc[t] = "publish" => j.todo # {}
    /\ pc[t] \in {"apply", "undo_apply"} => j.todo = {}
    /\ pc[t] = "undo_caches" => j.op = "update"
    /\ j.op = "update" \/ j.todo # {} => config = j.previous

(* What it can rely on as long as no rollback has failed.                  *)
Undoes(t) ==
    LET j == job[t] IN
    /\ j.was_running => j.previous.enabled
    /\ pc[t] \in {"persist", "publish", "apply"} \/ j.todo # {} => Serves(server, j.previous, j.before)
    /\ pc[t] \in {"undo_save", "undo_apply"} => cached = j.before
    /\ pc[t] = "undo_apply" => saved = j.previous

Operating ==
    \A t \in Threads : runtime_update_lock = t => /\ Entered(t) /\ Proceeds(t)
                                                  /\ ~broken => Undoes(t)

Resting == runtime_update_lock = None /\ ~broken => Serves(server, config, cached)

IInv == TypeOK /\ LockHeld /\ Prepared /\ Operating /\ Resting

(* The successful operations add up, unless a rule of the query log was    *)
(* made from a configuration that somebody else has changed since.         *)
RulesAlone == "rule" \notin Operations \/ \A s, t \in Clients : s = t

RuleMade(j, base) == j.op = "rule" => j.next = [base EXCEPT !.rules = j.next.rules]

IntendedAt(t) ==
    /\ pc[t] \in {"persist", "publish", "apply"} => RuleMade(job[t], job[t].previous)
    /\ ~broken => /\ intended = job[t].previous
                  /\ pc[t] = "persist" => saved = job[t].previous

Intended ==
    /\ \A t \in Clients : pc[t] = "enter" => RuleMade(job[t], config)
    /\ \A t \in Threads : runtime_update_lock = t => IntendedAt(t)
    /\ LastEditStands

Places == {"idle", "update_lock", "enter", "persist", "publish", "apply", "undo_caches",
           "undo_save", "undo_apply", "snapshot", "download"}

-----------------------------------------------------------------------------
(* What a thread does outside the lock. *)
Outside(t, place, j) ==
    /\ place \notin UnderLock /\ pc[t] \notin UnderLock
    /\ pc' = [pc EXCEPT ![t] = place] /\ job' = [job EXCEPT ![t] = j]
    /\ UNCHANGED <<config, saved, server, cached, runtime_update_lock, broken>>

(* It disturbs nobody who holds the lock.                                  *)
LEMMA OutsideKeeps ==
  ASSUME TypeOK, LockHeld, Operating, Resting, NEW t \in Threads, NEW place, NEW j,
         Outside(t, place, j)
  PROVE  LockHeld' /\ Operating' /\ Resting'
<1>1. runtime_update_lock # t
  BY DEF LockHeld, Outside
<1>2. LockHeld'
  BY <1>1 DEF TypeOK, LockHeld, Outside
<1>3. ASSUME NEW u \in Threads, runtime_update_lock' = u
      PROVE  (Entered(u) /\ Proceeds(u) /\ (~broken => Undoes(u)))'
  <2>1. u # t /\ job'[u] = job[u] /\ pc'[u] = pc[u]
    BY <1>1, <1>3 DEF TypeOK, Outside
  <2>2. Entered(u) /\ Proceeds(u) /\ (~broken => Undoes(u))
    BY <1>3 DEF Operating, Outside
  <2> QED
    BY <2>1, <2>2 DEF Entered, Proceeds, Undoes, Serves, Started, Loaded, Outside
<1>4. Resting'
  BY DEF Resting, Outside, Serves, Started, Loaded
<1> QED
  BY <1>2, <1>3, <1>4 DEF Operating

(* A step that keeps the lock has to account for its own thread only.      *)
LEMMA HolderKeeps ==
  ASSUME TypeOK, LockHeld, NEW t \in Threads, runtime_update_lock = t,
         runtime_update_lock' = t, NEW place \in UnderLock,
         pc' = [pc EXCEPT ![t] = place]
  PROVE  /\ LockHeld' /\ Resting'
         /\ (Entered(t) /\ Proceeds(t) /\ (~broken => Undoes(t)))' => Operating'
BY CoreAssumption DEF TypeOK, LockHeld, Resting, Operating, Threads

(* A step that gives the lock back has to leave the server in order.       *)
LEMMA HolderEnds ==
  ASSUME TypeOK, LockHeld, NEW t \in Threads, runtime_update_lock = t,
         runtime_update_lock' = None, NEW place, place \notin UnderLock,
         pc' = [pc EXCEPT ![t] = place]
  PROVE  LockHeld' /\ Operating'
BY CoreAssumption DEF TypeOK, LockHeld, Operating, Threads

(* The holder of the lock is the thread whose step it is.                  *)
LEMMA HolderIs ==
  ASSUME LockHeld, Operating, NEW t \in Threads, pc[t] \in UnderLock
  PROVE  /\ runtime_update_lock = t /\ Entered(t) /\ Proceeds(t)
         /\ ~broken => Undoes(t)
BY DEF LockHeld, Operating

LEMMA NoJobTyped == NoJob \in Jobs
BY DEF NoJob, Jobs

(* The preparations of the others stay.                                    *)
LEMMA PreparedKept ==
  ASSUME TypeOK, Prepared, NEW t \in Threads, NEW place, NEW j,
         pc' = [pc EXCEPT ![t] = place], job' = [job EXCEPT ![t] = j],
         place \in {"update_lock", "enter"} =>
            /\ j.op \in Operations \cup {"update"}
            /\ j.op \in {"save", "rule", "manual"} => j.next \in Configs,
         place = "update_lock" => j.op \in {"manual", "update"},
         place \in {"snapshot", "download"} => j.op = "update",
         place = "download" => j.previous \in Configs,
         place = "enter" /\ j.op = "update" => j.staged \in Caches,
         t = AutoUpdater /\ place # "idle" => j.op = "update"
  PROVE  Prepared'
BY DEF TypeOK, Prepared

LEMMA Initial == Init => IInv
<1> SUFFICES ASSUME Init PROVE IInv
  OBVIOUS
<1>1. job \in [Threads -> Jobs] /\ cached \in Caches
  BY NoJobTyped DEF Init, Caches
<1>2. TypeOK
  <2>1. downloads \in 0..MaxDownloads /\ faults \in 0..MaxFaults /\ crashes \in 0..MaxCrashes
    BY CoreAssumption DEF Init
  <2>2. broken \in BOOLEAN /\ initialized \in BOOLEAN
    BY DEF Init
  <2> QED
    BY <1>1, <2>1, <2>2 DEF Init, TypeOK
<1>3. LockHeld /\ Operating /\ Resting
  BY CoreAssumption DEF Init, LockHeld, UnderLock, Operating, Resting, Serves, Threads
<1>4. Prepared
  BY CoreAssumption DEF Init, Prepared, Threads
<1> QED
  BY <1>2, <1>3, <1>4 DEF IInv

(* A request is a job for a thread that has none.                          *)
Requested(t, place, j) ==
    /\ pc[t] = "idle" /\ pc' = [pc EXCEPT ![t] = place] /\ job' = [job EXCEPT ![t] = j]
    /\ UNCHANGED <<config, saved, server, cached, runtime_update_lock, filter_update_lock,
                   initialized, downloads, faults, crashes, broken, intended>>

LEMMA RequestedKeeps ==
  ASSUME IInv, NEW t \in Threads, NEW place \in {"update_lock", "enter"}, NEW j \in Jobs,
         Requested(t, place, j),
         j.op \in Operations \cup {"update"},
         place = "update_lock" => j.op \in {"manual", "update"},
         j.op \in {"save", "rule", "manual"} => j.next \in Configs,
         j.op = "update" => place = "update_lock",
         t = AutoUpdater => j.op = "update"
  PROVE  IInv'
<1>1. Outside(t, place, j)
  BY DEF Outside, Requested, UnderLock
<1>2. TypeOK'
  BY DEF IInv, TypeOK, Requested
<1>3. LockHeld' /\ Operating' /\ Resting'
  BY <1>1, OutsideKeeps DEF IInv
<1>4. Prepared'
  BY <1>1, PreparedKept DEF IInv, Outside
<1> QED
  BY <1>2, <1>3, <1>4 DEF IInv

LEMMA NewJob ==
  ASSUME NEW op \in Operations \cup {"update"}
  PROVE  LET j == [NoJob EXCEPT !.op = op] IN j \in Jobs /\ j.op = op
BY DEF NoJob, Jobs

LEMMA NewJobFor ==
  ASSUME NEW op \in Operations \cup {"update"}, NEW c \in Configs
  PROVE  LET j == [NoJob EXCEPT !.op = op, !.next = c] IN
         j \in Jobs /\ j.op = op /\ j.next = c
BY DEF NoJob, Jobs

LEMMA RequestKeeps ==
  ASSUME IInv, NEW t \in Clients, Request(t)
  PROVE  IInv'
<1> USE DEF Requested, Goto
<1>0. t \in Threads /\ t # AutoUpdater
  BY CoreAssumption DEF Threads
<1>1. ASSUME NEW op \in {"save", "manual"}, NEW c \in Configs, Submit(t, op, c)
      PROVE  IInv'
  <2> DEFINE j == [NoJob EXCEPT !.op = op, !.next = c]
  <2>1. Requested(t, IF op = "manual" THEN "update_lock" ELSE "enter", j) /\ op \in Operations
    BY <1>1 DEF Submit
  <2>2. j \in Jobs /\ j.op = op /\ j.next = c
    BY <2>1, NewJobFor
  <2> HIDE DEF j
  <2>3. CASE op = "manual"
    BY <1>0, <2>1, <2>2, <2>3, RequestedKeeps
  <2>4. CASE op # "manual"
    BY <1>0, <2>1, <2>2, <2>4, RequestedKeeps
  <2> QED
    BY <2>3, <2>4
<1>2. ASSUME NEW r \in Rules, QueryLogRule(t, r)
      PROVE  IInv'
  <2> DEFINE n == [config EXCEPT !.rules = r]
             j == [NoJob EXCEPT !.op = "rule", !.next = n]
  <2>1. n \in Configs
    BY DEF IInv, TypeOK, Configs
  <2>2. Requested(t, "enter", j) /\ "rule" \in Operations
    BY <1>2 DEF QueryLogRule
  <2>3. j \in Jobs /\ j.op = "rule" /\ j.next = n
    BY <2>1, <2>2, NewJobFor
  <2> HIDE DEF j, n
  <2> QED
    BY <1>0, <2>1, <2>2, <2>3, RequestedKeeps
<1>3. ASSUME NEW op \in {"start", "stop"}, StartOrStop(t, op)
      PROVE  IInv'
  <2> DEFINE j == [NoJob EXCEPT !.op = op]
  <2>1. Requested(t, "enter", j) /\ op \in Operations
    BY <1>3 DEF StartOrStop
  <2>2. j \in Jobs /\ j.op = op
    BY <2>1, NewJob
  <2> HIDE DEF j
  <2> QED
    BY <1>0, <2>1, <2>2, RequestedKeeps
<1> QED
  BY <1>1, <1>2, <1>3 DEF Request

LEMMA AutoUpdateKeeps == IInv /\ AutoUpdate => IInv'
<1> SUFFICES ASSUME IInv, AutoUpdate PROVE IInv'
  OBVIOUS
<1> DEFINE j == [NoJob EXCEPT !.op = "update"]
<1>1. Requested(AutoUpdater, "update_lock", j)
  BY DEF AutoUpdate, Requested, Goto
<1>2. j \in Jobs /\ j.op = "update"
  BY NewJob
<1> HIDE DEF j
<1> QED
  BY <1>1, <1>2, RequestedKeeps DEF Threads

(* The update lock says nothing of the configuration.                      *)
LEMMA LockUpdateKeeps ==
  ASSUME IInv, NEW t \in Threads, LockUpdate(t)
  PROVE  IInv'
<1> DEFINE place == IF job[t].op = "manual" THEN "enter" ELSE "snapshot"
<1>1. job[t] \in Jobs /\ job' = [job EXCEPT ![t] = job[t]]
  BY DEF IInv, TypeOK, LockUpdate
<1>2. Outside(t, place, job[t])
  BY <1>1 DEF LockUpdate, Outside, Goto, UnderLock
<1>3. TypeOK'
  BY DEF IInv, TypeOK, LockUpdate, Goto
<1>4. LockHeld' /\ Operating' /\ Resting'
  BY <1>2, OutsideKeeps DEF IInv
<1>5. job[t].op \in {"manual", "update"} /\ (job[t].op = "manual" => job[t].next \in Configs)
      /\ job[t].op \in Operations \cup {"update"} /\ (t = AutoUpdater => job[t].op = "update")
  BY DEF IInv, Prepared, LockUpdate
<1>6. Prepared'
  BY <1>1, <1>2, <1>5, PreparedKept DEF IInv, Outside
<1> QED
  BY <1>3, <1>4, <1>6 DEF IInv

LEMMA SnapshotKeeps ==
  ASSUME IInv, NEW t \in Threads, Snapshot(t)
  PROVE  IInv'
<1> DEFINE j == [job[t] EXCEPT !.previous = config]
<1>1. j \in Jobs /\ j.op = "update" /\ j.previous \in Configs
  BY DEF IInv, TypeOK, Prepared, Snapshot, Jobs
<1>2. Outside(t, "download", j)
  BY DEF Snapshot, Outside, Goto, UnderLock
<1> HIDE DEF j
<1>3. TypeOK'
  BY <1>1, <1>2 DEF IInv, TypeOK, Outside, Snapshot
<1>4. LockHeld' /\ Operating' /\ Resting'
  BY <1>2, OutsideKeeps DEF IInv
<1>5. Prepared'
  BY <1>1, <1>2, PreparedKept DEF IInv, Outside
<1> QED
  BY <1>3, <1>4, <1>5 DEF IInv

LEMMA DownloadKeeps ==
  ASSUME IInv, NEW t \in Threads, Download(t)
  PROVE  IInv'
<1>1. job[t] \in Jobs /\ job[t].op = "update" /\ job[t].previous \in Configs
  BY DEF IInv, TypeOK, Prepared, Download
<1>2. downloads' \in 1..MaxDownloads
  BY CoreAssumption DEF IInv, TypeOK, Download
<1> DEFINE base == job[t].previous
           got(S) == [l \in Lists |-> IF l \in S THEN [url |-> base.lists[l], number |-> downloads']
                                      ELSE None]
<1>3. PICK S \in SUBSET {l \in Lists : base.lists[l] # None} :
         job' = [job EXCEPT ![t].staged = got(S)]
  BY DEF Download
<1>4. got(S) \in Caches
  BY <1>1, <1>2 DEF Caches, Contents, Configs
<1> DEFINE j == [job[t] EXCEPT !.staged = got(S)]
<1> HIDE DEF got
<1>5. j \in Jobs /\ j.op = "update" /\ j.staged \in Caches
  BY <1>1, <1>4 DEF Jobs
<1>6. Outside(t, "enter", j)
  BY <1>3 DEF Download, Outside, Goto, UnderLock
<1> HIDE DEF j
<1>7. TypeOK'
  BY <1>2, <1>5, <1>6 DEF IInv, TypeOK, Outside, Download
<1>8. LockHeld' /\ Operating' /\ Resting'
  BY <1>6, OutsideKeeps DEF IInv
<1>9. Prepared'
  BY <1>5, <1>6, PreparedKept DEF IInv, Outside
<1> QED
  BY <1>7, <1>8, <1>9 DEF IInv

LEMMA DownloadFailsKeeps ==
  ASSUME IInv, NEW t \in Threads, DownloadFails(t)
  PROVE  IInv'
<1>1. runtime_update_lock # t
  BY DEF IInv, LockHeld, UnderLock, DownloadFails
<1>2. Outside(t, "idle", NoJob)
  BY <1>1 DEF DownloadFails, Return, Outside, Goto, UnderLock
<1>3. TypeOK'
  BY NoJobTyped DEF IInv, TypeOK, DownloadFails, Return, Goto
<1>4. LockHeld' /\ Operating' /\ Resting'
  BY <1>2, OutsideKeeps DEF IInv
<1>5. Prepared'
  BY <1>2, PreparedKept DEF IInv, Outside
<1> QED
  BY <1>3, <1>4, <1>5 DEF IInv

-----------------------------------------------------------------------------
(* What somebody else does to the server while the lock is free, or the    *)
(* server itself at any time.                                              *)
Beside == UNCHANGED <<config, saved, cached, runtime_update_lock, filter_update_lock, pc, job,
                      downloads, crashes, broken, intended>>

LEMMA ServedTyped ==
  ASSUME NEW c \in Configs, NEW files \in Caches
  PROVE  Started(c, files) \in Servers
<1>1. Loaded(c, files) \in Caches
  BY DEF Loaded, Caches
<1> QED
  BY <1>1 DEF Started, Servers, Configs

LEMMA StartCurrentKeeps ==
  ASSUME IInv, Beside, initialized' \in BOOLEAN, runtime_update_lock = None, config.enabled,
         StartCurrent
  PROVE  IInv'
<1>1. server' \in Servers \cup {None} /\ faults' \in 0..MaxFaults
  BY ServedTyped, CoreAssumption DEF IInv, TypeOK, StartCurrent, Fault
<1>2. TypeOK'
  BY <1>1 DEF IInv, TypeOK, Beside
<1>3. LockHeld' /\ Prepared' /\ Operating'
  BY CoreAssumption DEF IInv, LockHeld, Prepared, Operating, Beside, Threads
<1>4. Resting'
  BY DEF IInv, Resting, Serves, Started, Loaded, StartCurrent, Beside
<1> QED
  BY <1>2, <1>3, <1>4 DEF IInv

LEMMA InitializeKeeps == IInv /\ Initialize => IInv'
<1> SUFFICES ASSUME IInv, Initialize PROVE IInv'
  OBVIOUS
<1>1. CASE config.enabled
  BY <1>1, StartCurrentKeeps DEF Initialize, Beside
<1>2. CASE ~config.enabled
  <2>1. TypeOK'
    BY <1>2 DEF IInv, TypeOK, Initialize
  <2> QED
    BY <1>2, <2>1 DEF IInv, Initialize, LockHeld, Prepared, Operating, Resting, Entered,
       Proceeds, Undoes, Serves, Started, Loaded
<1> QED
  BY <1>1, <1>2

LEMMA WatchdogKeeps == IInv /\ Watchdog => IInv'
BY StartCurrentKeeps DEF Watchdog, Beside, IInv, TypeOK

(* A dead thread takes nothing back of what the server was built from.     *)
LEMMA ThreadDiesServes ==
  ASSUME ThreadDies, server \in Servers
  PROVE  \A c, files : Serves(server, c, files) => Serves(server', c, files)
BY DEF ThreadDies, Running, Serves, Started, Loaded, Servers

LEMMA ThreadDiesKeeps == IInv /\ ThreadDies => IInv'
<1> SUFFICES ASSUME IInv, ThreadDies PROVE IInv'
  OBVIOUS
<1>1. server \in Servers /\ server' \in Servers
  BY DEF IInv, TypeOK, ThreadDies, Running, Servers
<1>2. TypeOK'
  BY <1>1, CoreAssumption DEF IInv, TypeOK, ThreadDies, Fault
<1>3. LockHeld' /\ Prepared'
  BY DEF IInv, LockHeld, Prepared, ThreadDies
<1>4. Resting'
  BY <1>1, ThreadDiesServes DEF IInv, Resting, ThreadDies
<1>5. ASSUME NEW t \in Threads, runtime_update_lock' = t
      PROVE  (Entered(t) /\ Proceeds(t) /\ (~broken => Undoes(t)))'
  <2>1. Entered(t) /\ Proceeds(t) /\ (~broken => Undoes(t))
    BY <1>5 DEF IInv, Operating, ThreadDies
  <2>2. \A c, files : Serves(server, c, files) => Serves(server', c, files)
    BY <1>1, ThreadDiesServes
  <2>3. (Entered(t) /\ Proceeds(t))'
    BY <2>1 DEF Entered, Proceeds, ThreadDies
  <2> QED
    BY <2>1, <2>2, <2>3 DEF Undoes, ThreadDies
<1> QED
  BY <1>2, <1>3, <1>4, <1>5 DEF IInv, Operating

LEMMA CrashKeeps == IInv /\ Crash => IInv'
<1> SUFFICES ASSUME IInv, Crash PROVE IInv'
  OBVIOUS
<1>1. crashes' \in 0..MaxCrashes
  BY CoreAssumption DEF IInv, TypeOK, Crash
<1>2. job' \in [Threads -> Jobs]
  BY NoJobTyped DEF Crash
<1>3. TypeOK'
  BY <1>1, <1>2 DEF IInv, TypeOK, Crash
<1>4. LockHeld' /\ Operating' /\ Resting' /\ Prepared'
  BY CoreAssumption DEF Crash, LockHeld, Operating, Resting, Prepared, Serves, UnderLock, Threads
<1> QED
  BY <1>3, <1>4 DEF IInv

-----------------------------------------------------------------------------
(* The steps under runtime_update_lock.                                    *)

(* What an operation finds at the lock.                                    *)
LEMMA EnterKeeps ==
  ASSUME IInv, NEW t \in Threads, Enter(t)
  PROVE  IInv'
<1> DEFINE n == Wanted(t)
           todo == IF job[t].op = "update" THEN Merged(t) ELSE {}
           j == [job[t] EXCEPT !.next = n, !.previous = config, !.was_running = Running,
                               !.start_required = StartRequired(n), !.before = cached,
                               !.todo = todo]
<1>1. /\ job[t] \in Jobs /\ config \in Configs /\ cached \in Caches
      /\ job[t].op \in Operations \cup {"update"}
      /\ job[t].op \in {"save", "rule", "manual"} => job[t].next \in Configs
      /\ job[t].op = "update" => job[t].staged \in Caches
  BY DEF IInv, TypeOK, Prepared, Enter
<1>2. /\ n \in Configs
      /\ job[t].op = "start" => n = [config EXCEPT !.enabled = TRUE]
      /\ job[t].op = "stop" => n = [config EXCEPT !.enabled = FALSE]
      /\ job[t].op = "update" => n = config
  <2>1. [config EXCEPT !.enabled = TRUE] \in Configs /\ [config EXCEPT !.enabled = FALSE] \in Configs
    BY <1>1 DEF Configs
  <2> QED
    BY <1>1, <2>1, CoreAssumption DEF Wanted
<1>3. Running \in BOOLEAN /\ StartRequired(n) \in BOOLEAN /\ (Running => server # None)
  BY <1>1, <1>2 DEF Running, StartRequired, Configs, IInv, TypeOK, Servers
<1>4. todo \in SUBSET Lists
  BY DEF Merged
<1> HIDE DEF n, todo
<1>5. /\ j \in Jobs /\ j.op = job[t].op /\ j.staged = job[t].staged /\ j.next = n
      /\ j.previous = config /\ j.was_running = Running /\ j.start_required = StartRequired(n)
      /\ j.before = cached /\ j.todo = todo
  BY <1>1, <1>2, <1>3, <1>4 DEF Jobs
<1>6. job' = [job EXCEPT ![t] = j] /\ pc' = [pc EXCEPT ![t] = "persist"]
  BY DEF Enter, Goto, n, todo
<1> HIDE DEF j
<1>7. job'[t] = j /\ pc'[t] = "persist"
  BY <1>6 DEF IInv, TypeOK
<1>8. runtime_update_lock' = t /\ runtime_update_lock = None
  BY DEF Enter
<1>9. TypeOK'
  <2>1. UNCHANGED <<config, saved, server, cached, filter_update_lock, initialized, downloads,
                    faults, crashes, broken, intended>>
    BY DEF Enter
  <2> QED
    BY <1>5, <1>6, <1>8, <2>1 DEF IInv, TypeOK
<1>10. LockHeld' /\ Resting'
  BY <1>6, <1>8, CoreAssumption DEF IInv, TypeOK, LockHeld, UnderLock, Resting, Threads
<1>11. Prepared'
  <2>1. t = AutoUpdater => j.op = "update"
    BY <1>5 DEF IInv, Prepared, Enter
  <2> QED
    BY <1>6, <2>1, PreparedKept DEF IInv
<1>12. Entered(t)'
  <2>1. j.start_required = (j.next.enabled /\ (~j.previous.enabled \/ NeedsRestart(j.previous, j.next)
                                                \/ ~j.was_running))
    BY <1>5 DEF StartRequired
  <2>2. j.op = "update" => \A l \in j.todo : j.staged[l] # None /\ j.next.lists[l] = j.staged[l].url
    BY <1>2, <1>5 DEF Merged, todo
  <2>3. j.op # "update" => j.todo = {}
    BY <1>5 DEF todo
  <2> QED
    BY <1>1, <1>2, <1>5, <1>7, <2>1, <2>2, <2>3 DEF Entered, NeedsRestart
<1>13. Proceeds(t)'
  BY <1>5, <1>7 DEF Proceeds, Enter
<1>14. ~broken' => Undoes(t)'
  <2>1. ~broken => Serves(server, config, cached)
    BY <1>8 DEF IInv, Resting
  <2> QED
    BY <1>3, <1>5, <1>7, <2>1 DEF Undoes, Serves, Enter
<1> QED
  BY <1>8, <1>9, <1>10, <1>11, <1>12, <1>13, <1>14, CoreAssumption DEF IInv, Operating

LEMMA PersistKeeps ==
  ASSUME IInv, NEW t \in Threads, Persist(t)
  PROVE  IInv'
<1>1. /\ runtime_update_lock = t /\ Entered(t) /\ Proceeds(t)
      /\ ~broken => Undoes(t)
  BY HolderIs DEF IInv, Persist, UnderLock
<1> DEFINE place == IF job[t].todo = {} THEN "apply" ELSE "publish"
<1>2. pc' = [pc EXCEPT ![t] = place] /\ pc'[t] = place /\ pc[t] = "persist"
  BY DEF Persist, Goto, IInv, TypeOK
<1>3. TypeOK'
  BY <1>1, <1>2 DEF IInv, TypeOK, Persist, Entered
<1>4. Prepared'
  BY <1>2 DEF IInv, TypeOK, Prepared, Persist
<1>5. Entered(t)' /\ Proceeds(t)'
  BY <1>1, <1>2 DEF Entered, Proceeds, Persist
<1>6. ~broken' => Undoes(t)'
  BY <1>1, <1>2 DEF Undoes, Persist
<1>7. LockHeld' /\ Resting' /\ Operating'
  <2>1. place \in UnderLock /\ runtime_update_lock' = t
    BY <1>1 DEF Persist, UnderLock
  <2> QED
    BY <1>1, <1>2, <1>5, <1>6, <2>1, HolderKeeps DEF IInv
<1> QED
  BY <1>3, <1>4, <1>7 DEF IInv

(* What ends an operation without success.                                 *)
LEMMA ReturnKeeps ==
  ASSUME IInv, NEW t \in Threads, runtime_update_lock = t, Return(t)
  PROVE  /\ LockHeld' /\ Operating' /\ Prepared' /\ runtime_update_lock' = None
         /\ pc' \in [Threads -> Places] /\ job' \in [Threads -> Jobs]
         /\ filter_update_lock' \in Threads \cup {None}
<1>1. /\ pc' = [pc EXCEPT ![t] = "idle"] /\ job' = [job EXCEPT ![t] = NoJob]
      /\ runtime_update_lock' = None
  BY DEF Return, Goto
<1>2. Prepared'
  BY <1>1, PreparedKept DEF IInv
<1>3. LockHeld' /\ Operating'
  BY <1>1, HolderEnds DEF IInv, UnderLock
<1> QED
  BY <1>1, <1>2, <1>3, NoJobTyped DEF IInv, TypeOK, Return, Places

LEMMA RejectKeeps ==
  ASSUME IInv, NEW t \in Threads, Reject(t)
  PROVE  IInv'
<1>1. /\ runtime_update_lock = t /\ Entered(t) /\ Proceeds(t)
      /\ ~broken => Undoes(t)
  BY HolderIs DEF IInv, Reject, UnderLock
<1>2. /\ LockHeld' /\ Operating' /\ Prepared' /\ runtime_update_lock' = None
      /\ pc' \in [Threads -> Places] /\ job' \in [Threads -> Jobs]
      /\ filter_update_lock' \in Threads \cup {None}
  BY <1>1, ReturnKeeps DEF Reject
<1>3. TypeOK'
  BY <1>2, CoreAssumption DEF IInv, TypeOK, Reject, Fault, Places
<1>4. Resting'
  BY <1>1 DEF Resting, Reject, Proceeds, Undoes
<1> QED
  BY <1>2, <1>3, <1>4 DEF IInv

LEMMA PublishKeeps ==
  ASSUME IInv, NEW t \in Threads, NEW l \in Lists, Publish(t, l)
  PROVE  IInv'
<1>1. /\ runtime_update_lock = t /\ Entered(t) /\ Proceeds(t)
      /\ ~broken => Undoes(t)
  BY HolderIs DEF IInv, Publish, UnderLock
<1> DEFINE place == IF job[t].todo = {l} THEN "apply" ELSE "publish"
           j == [job[t] EXCEPT !.todo = @ \ {l}]
<1>2. /\ job[t] \in Jobs /\ pc[t] = "publish" /\ l \in job[t].todo /\ job[t].op = "update"
      /\ job[t].staged \in Caches /\ job[t].staged[l] # None
      /\ cached \in Caches /\ cached' = [cached EXCEPT ![l] = job[t].staged[l]]
  BY <1>1 DEF Publish, Entered, IInv, TypeOK
<1>3. /\ j \in Jobs /\ j.todo = job[t].todo \ {l}
      /\ j.op = job[t].op /\ j.next = job[t].next /\ j.previous = job[t].previous
      /\ j.was_running = job[t].was_running /\ j.start_required = job[t].start_required
      /\ j.staged = job[t].staged /\ j.before = job[t].before
  BY <1>2 DEF Jobs
<1>4. /\ job' = [job EXCEPT ![t] = j] /\ pc' = [pc EXCEPT ![t] = place]
      /\ UNCHANGED <<config, saved, server, runtime_update_lock, filter_update_lock,
                     initialized, downloads, faults, crashes, broken, intended>>
  BY DEF Publish, Goto
<1> HIDE DEF j
<1>5. job'[t] = j /\ pc'[t] = place
  BY <1>4 DEF IInv, TypeOK
<1>6. cached' \in Caches
  BY <1>2 DEF Caches
<1>7. TypeOK'
  BY <1>3, <1>4, <1>6 DEF IInv, TypeOK
<1>8. Prepared'
  BY <1>2, <1>3, <1>4, PreparedKept DEF IInv
<1>9. Entered(t)'
  BY <1>1, <1>3, <1>5 DEF Entered, NeedsRestart
<1>10. Proceeds(t)'
  <2>1. \A k \in Lists : cached'[k] # j.before[k] => j.op = "update" /\ j.staged[k] # None
    BY <1>1, <1>2, <1>3 DEF Proceeds, Caches
  <2> QED
    BY <1>1, <1>2, <1>3, <1>4, <1>5, <2>1 DEF Proceeds
<1>11. ~broken' => Undoes(t)'
  BY <1>1, <1>2, <1>3, <1>4, <1>5 DEF Undoes
<1>12. LockHeld' /\ Resting' /\ Operating'
  <2>1. place \in UnderLock /\ runtime_update_lock' = t
    BY <1>1, <1>4 DEF UnderLock
  <2> QED
    BY <1>1, <1>4, <1>9, <1>10, <1>11, <2>1, HolderKeeps DEF IInv
<1> QED
  BY <1>7, <1>8, <1>12 DEF IInv

LEMMA PublishFailsKeeps ==
  ASSUME IInv, NEW t \in Threads, PublishFails(t)
  PROVE  IInv'
<1>1. /\ runtime_update_lock = t /\ Entered(t) /\ Proceeds(t)
      /\ ~broken => Undoes(t)
  BY HolderIs DEF IInv, PublishFails, UnderLock
<1>2. /\ pc' = [pc EXCEPT ![t] = "undo_caches"] /\ pc'[t] = "undo_caches" /\ pc[t] = "publish"
      /\ UNCHANGED <<config, saved, server, cached, runtime_update_lock, filter_update_lock, job,
                     initialized, downloads, crashes, broken, intended>>
  BY DEF PublishFails, Goto, IInv, TypeOK
<1>3. TypeOK'
  BY <1>2, CoreAssumption DEF IInv, TypeOK, PublishFails, Fault
<1>4. Prepared'
  BY <1>2 DEF IInv, TypeOK, Prepared
<1>5. Entered(t)' /\ Proceeds(t)'
  BY <1>1, <1>2 DEF Entered, Proceeds
<1>6. ~broken' => Undoes(t)'
  BY <1>1, <1>2 DEF Undoes
<1>7. LockHeld' /\ Resting' /\ Operating'
  <2>1. "undo_caches" \in UnderLock /\ runtime_update_lock' = t
    BY <1>1, <1>2 DEF UnderLock
  <2> QED
    BY <1>1, <1>2, <1>5, <1>6, <2>1, HolderKeeps DEF IInv
<1> QED
  BY <1>3, <1>4, <1>7 DEF IInv

(* Only an update publishes: any other operation finds the lists as they    *)
(* were.                                                                    *)
LEMMA ListsUntouched ==
  ASSUME TypeOK, NEW t \in Threads, Entered(t), Proceeds(t), pc[t] = "apply",
         \A l \in Lists : ~(job[t].op = "update" /\ job[t].staged[l] # None)
  PROVE  cached = job[t].before
<1>1. cached \in Caches /\ job[t].before \in Caches
  BY DEF TypeOK, Entered
<1>2. \A l \in Lists : cached[l] = job[t].before[l]
  BY DEF Proceeds
<1> QED
  BY <1>1, <1>2 DEF Caches

(* Whatever is done to the server, it ends as a fresh start would make it:  *)
(* kept, because nothing that it serves has changed; stopped; hot-swapped,  *)
(* because only rules and lists have changed; or started afresh.            *)
LEMMA ApplyServes ==
  ASSUME IInv, NEW t \in Threads, Apply(t), Entered(t), Proceeds(t), Undoes(t)
  PROVE  Serves(server', job[t].next, cached)
<1> DEFINE j == job[t]
<1>1. /\ j.next \in Configs /\ j.previous \in Configs /\ cached \in Caches
      /\ server \in Servers \cup {None} /\ j.op \in Operations \cup {"update"}
      /\ j.op = "start" => j.next.enabled
      /\ j.op = "update" => j.next = j.previous
      /\ j.start_required = (j.next.enabled /\ (~j.previous.enabled \/ NeedsRestart(j.previous, j.next)
                                                  \/ ~j.was_running))
  BY DEF Entered, IInv, TypeOK, Configs
<1>2. pc[t] = "apply" /\ Serves(server, j.previous, j.before)
  BY DEF Apply, Undoes
<1>3. j.next.enabled \in BOOLEAN /\ j.previous.enabled \in BOOLEAN
  BY <1>1 DEF Configs
<1>4. CASE Effect(t) = "keep"
  <2>1. server' = server /\ j.op # "start"
    BY <1>4 DEF Apply, Effect
  <2>2. CASE ~j.next.enabled
    <3>1. j.op = "update"
      BY <1>4, <2>1, <2>2 DEF Effect
    <3> QED
      BY <1>1, <1>2, <2>1, <2>2, <3>1 DEF Serves
  <2>3. CASE j.next.enabled /\ j.op = "update"
    <3>1. \A l \in Lists : j.staged[l] = None
      BY <1>4, <2>1, <2>3 DEF Effect
    <3>2. cached = j.before
      BY <1>2, <3>1, ListsUntouched DEF IInv
    <3> QED
      BY <1>1, <1>2, <2>1, <2>3, <3>2
  <2>4. CASE j.next.enabled /\ j.op # "update"
    <3>1. ~j.start_required /\ ~FilterChanged(j.previous, j.next)
      BY <1>4, <2>1, <2>4 DEF Effect
    <3>2. cached = j.before
      BY <1>2, <2>4, ListsUntouched DEF IInv
    <3>3. j.previous.enabled /\ j.previous.structure = j.next.structure
      BY <1>1, <2>4, <3>1 DEF NeedsRestart
    <3>4. /\ j.previous.rules = j.next.rules
          /\ \A l \in Lists : (j.previous.lists[l] = None) = (j.next.lists[l] = None)
      BY <3>1 DEF FilterChanged
    <3>5. Loaded(j.previous, cached) = Loaded(j.next, cached)
      BY <3>4 DEF Loaded
    <3>6. Started(j.previous, cached) = Started(j.next, cached)
      BY <3>3, <3>4, <3>5 DEF Started
    <3> QED
      BY <1>2, <2>1, <2>4, <3>2, <3>6 DEF Serves
  <2> QED
    BY <1>3, <2>2, <2>3, <2>4
<1>5. CASE Effect(t) = "stop"
  BY <1>5 DEF Apply, Serves
<1>6. CASE Effect(t) = "swap"
  <2>1. /\ server' = [server EXCEPT !.rules = j.next.rules, !.lists = Loaded(j.next, cached)]
        /\ j.next.enabled /\ ~NeedsRestart(j.previous, j.next) /\ Running
    BY <1>3, <1>6 DEF Apply, Effect
  <2>2. server \in Servers /\ server.structure = j.next.structure
    BY <1>1, <1>2, <2>1 DEF Running, Serves, Started, NeedsRestart
  <2>3. server' = [structure |-> j.next.structure, rules |-> j.next.rules,
                   lists |-> Loaded(j.next, cached), alive |-> server.alive]
    BY <2>1, <2>2 DEF Servers
  <2>4. server'.alive = server.alive
    BY <2>3
  <2>5. server' = [Started(j.next, cached) EXCEPT !.alive = server'.alive]
    BY <2>3, <2>4 DEF Started
  <2> QED
    BY <2>1, <2>5 DEF Serves
<1>7. CASE Effect(t) = "start"
  <2>1. server' = Started(j.next, cached) /\ j.next.enabled
    BY <1>1, <1>3, <1>7 DEF Apply, Effect
  <2> QED
    BY <2>1 DEF Serves, Started
<1> QED
  BY <1>3, <1>4, <1>5, <1>6, <1>7 DEF Effect

LEMMA ApplyKeeps ==
  ASSUME IInv, NEW t \in Threads, Apply(t)
  PROVE  IInv'
<1>1. /\ runtime_update_lock = t /\ Entered(t) /\ Proceeds(t)
      /\ ~broken => Undoes(t)
  BY HolderIs DEF IInv, Apply, UnderLock
<1> DEFINE place == IF job[t].op = "manual" THEN "snapshot" ELSE "idle"
           j == IF job[t].op = "manual" THEN [NoJob EXCEPT !.op = "update"] ELSE NoJob
<1>2. j \in Jobs /\ (job[t].op = "manual" => j.op = "update")
  BY NewJob, NoJobTyped
<1>3. /\ pc' = [pc EXCEPT ![t] = place] /\ job' = [job EXCEPT ![t] = j]
      /\ runtime_update_lock' = None /\ filter_update_lock' \in {filter_update_lock, None}
      /\ config' = job[t].next
      /\ UNCHANGED <<saved, cached, initialized, downloads, faults, crashes, broken>>
  BY <1>1 DEF Apply, Succeed, Return, Goto
<1> HIDE DEF j
<1>4. server' \in Servers \cup {None}
  <2>1. Loaded(job[t].next, cached) \in Caches /\ Started(job[t].next, cached) \in Servers
        /\ job[t].next \in Configs /\ job[t].next.enabled \in BOOLEAN
        /\ server \in Servers \cup {None}
    BY <1>1, ServedTyped DEF IInv, TypeOK, Entered, Loaded, Caches, Configs
  <2>2. CASE Effect(t) = "swap"
    <3>1. server \in Servers
      BY <2>1, <2>2 DEF Effect, Running
    <3>2. server' = [server EXCEPT !.rules = job[t].next.rules, !.lists = Loaded(job[t].next, cached)]
      BY <2>2 DEF Apply
    <3> QED
      BY <2>1, <3>1, <3>2 DEF Servers, Configs
  <2>3. CASE Effect(t) \in {"keep", "stop", "start"}
    BY <2>1, <2>3 DEF Apply
  <2> QED
    BY <2>1, <2>2, <2>3 DEF Effect
<1>5. intended' \in Configs
  <2>1. intended \in Configs /\ job[t].next \in Configs
    BY <1>1 DEF IInv, TypeOK, Entered
  <2>2. /\ [intended EXCEPT !.rules = job[t].next.rules] \in Configs
        /\ [intended EXCEPT !.enabled = TRUE] \in Configs
        /\ [intended EXCEPT !.enabled = FALSE] \in Configs
    BY <2>1 DEF Configs
  <2> QED
    BY <2>1, <2>2 DEF Apply
<1>6. TypeOK'
  BY <1>1, <1>2, <1>3, <1>4, <1>5 DEF IInv, TypeOK, Entered
<1>7. Prepared'
  <2>1. t = AutoUpdater => job[t].op # "manual" \/ j.op = "update"
    BY <1>2
  <2> QED
    BY <1>2, <1>3, <2>1, PreparedKept DEF IInv
<1>8. LockHeld' /\ Operating'
  <2>1. place \notin UnderLock
    BY DEF UnderLock
  <2> QED
    BY <1>1, <1>3, <2>1, HolderEnds DEF IInv
<1>9. Resting'
  BY <1>1, <1>3, ApplyServes DEF Resting
<1> QED
  BY <1>6, <1>7, <1>8, <1>9 DEF IInv

LEMMA ApplyFailsKeeps ==
  ASSUME IInv, NEW t \in Threads, ApplyFails(t)
  PROVE  IInv'
<1>1. /\ runtime_update_lock = t /\ Entered(t) /\ Proceeds(t)
      /\ ~broken => Undoes(t)
  BY HolderIs DEF IInv, ApplyFails, UnderLock
<1> DEFINE place == IF job[t].op = "update" THEN "undo_caches" ELSE "undo_save"
<1>2. /\ pc' = [pc EXCEPT ![t] = place] /\ pc'[t] = place /\ pc[t] = "apply"
      /\ config' = job[t].next /\ server' = None /\ place \in UnderLock
      /\ UNCHANGED <<saved, cached, runtime_update_lock, filter_update_lock, job,
                     initialized, downloads, crashes, broken, intended>>
  BY DEF ApplyFails, Goto, IInv, TypeOK, UnderLock
<1>3. TypeOK'
  BY <1>1, <1>2, CoreAssumption DEF IInv, TypeOK, ApplyFails, Fault, Entered
<1>4. Prepared'
  BY <1>2 DEF IInv, TypeOK, Prepared
<1>5. Entered(t)' /\ Proceeds(t)'
  BY <1>1, <1>2 DEF Entered, Proceeds
<1>6. job[t].op # "update" => cached = job[t].before
  BY <1>1, <1>2, ListsUntouched DEF IInv
<1>7. ~broken' => Undoes(t)'
  BY <1>1, <1>2, <1>6 DEF Undoes, Proceeds, Serves
<1>8. LockHeld' /\ Resting' /\ Operating'
  BY <1>1, <1>2, <1>5, <1>7, HolderKeeps DEF IInv
<1> QED
  BY <1>3, <1>4, <1>8 DEF IInv

LEMMA UndoCachesKeeps ==
  ASSUME IInv, NEW t \in Threads, UndoCaches(t)
  PROVE  IInv'
<1>1. /\ runtime_update_lock = t /\ Entered(t) /\ Proceeds(t)
      /\ ~broken => Undoes(t)
  BY HolderIs DEF IInv, UndoCaches, UnderLock
<1>2. /\ pc' = [pc EXCEPT ![t] = "undo_save"] /\ pc'[t] = "undo_save" /\ pc[t] = "undo_caches"
      /\ UNCHANGED <<config, saved, server, runtime_update_lock, filter_update_lock, job,
                     initialized, downloads, crashes, intended>>
  BY DEF UndoCaches, Goto, IInv, TypeOK
<1>3. /\ cached' \in Caches /\ faults' \in 0..MaxFaults /\ broken' \in BOOLEAN
      /\ ~broken' => ~broken /\ cached' = job[t].before
  <2>1. cached \in Caches /\ job[t].before \in Caches /\ faults \in 0..MaxFaults /\ broken \in BOOLEAN
    BY <1>1 DEF Entered, IInv, TypeOK
  <2>2. CASE cached' = job[t].before /\ UNCHANGED <<faults, broken>>
    BY <2>1, <2>2
  <2>3. CASE Fault /\ broken' = TRUE
    <3>1. faults' \in 0..MaxFaults
      BY <2>1, <2>3, CoreAssumption DEF Fault
    <3>2. PICK kept \in SUBSET Lists :
             cached' = [l \in Lists |-> IF l \in kept THEN cached[l] ELSE job[t].before[l]]
            \/ cached' = job[t].before
      BY DEF UndoCaches
    <3>3. cached' \in Caches
      BY <2>1, <3>2 DEF Caches
    <3> QED
      BY <2>3, <3>1, <3>3
  <2> QED
    BY <2>2, <2>3 DEF UndoCaches
<1>4. TypeOK'
  BY <1>2, <1>3 DEF IInv, TypeOK
<1>5. Prepared'
  BY <1>2 DEF IInv, TypeOK, Prepared
<1>6. Entered(t)' /\ Proceeds(t)'
  BY <1>1, <1>2 DEF Entered, Proceeds
<1>7. ~broken' => Undoes(t)'
  BY <1>1, <1>2, <1>3 DEF Undoes
<1>8. LockHeld' /\ Resting' /\ Operating'
  <2>1. "undo_save" \in UnderLock /\ runtime_update_lock' = t
    BY <1>1, <1>2 DEF UnderLock
  <2> QED
    BY <1>1, <1>2, <1>6, <1>7, <2>1, HolderKeeps DEF IInv
<1> QED
  BY <1>4, <1>5, <1>8 DEF IInv

LEMMA UndoSaveKeeps ==
  ASSUME IInv, NEW t \in Threads, UndoSave(t)
  PROVE  IInv'
<1>1. /\ runtime_update_lock = t /\ Entered(t) /\ Proceeds(t)
      /\ ~broken => Undoes(t)
  BY HolderIs DEF IInv, UndoSave, UnderLock
<1>2. /\ pc[t] = "undo_save"
      /\ UNCHANGED <<config, server, cached, initialized, downloads, crashes, intended>>
  BY DEF UndoSave
<1>3. /\ saved' \in Configs /\ faults' \in 0..MaxFaults /\ broken' \in BOOLEAN
      /\ ~broken' => ~broken /\ saved' = job[t].previous
  <2>1. faults' \in 0..MaxFaults
    BY CoreAssumption DEF UndoSave, Fault, IInv, TypeOK
  <2>2. saved' \in Configs /\ broken' \in BOOLEAN
    BY <1>1 DEF UndoSave, Entered, IInv, TypeOK
  <2>3. ~broken' => ~broken /\ saved' = job[t].previous
    BY DEF UndoSave
  <2> QED
    BY <2>1, <2>2, <2>3
<1>4. CASE job[t].todo # {}
  <2>1. Return(t)
    BY <1>4 DEF UndoSave
  <2>2. /\ LockHeld' /\ Operating' /\ Prepared' /\ runtime_update_lock' = None
        /\ pc' \in [Threads -> Places] /\ job' \in [Threads -> Jobs]
        /\ filter_update_lock' \in Threads \cup {None}
    BY <1>1, <2>1, ReturnKeeps
  <2>3. TypeOK'
    BY <1>2, <1>3, <2>2 DEF IInv, TypeOK, Places
  <2>4. Resting'
    BY <1>1, <1>2, <1>3, <1>4 DEF Resting, Proceeds, Undoes
  <2> QED
    BY <2>2, <2>3, <2>4 DEF IInv
<1>5. CASE job[t].todo = {}
  <2>1. /\ pc' = [pc EXCEPT ![t] = "undo_apply"] /\ pc'[t] = "undo_apply"
        /\ UNCHANGED <<job, runtime_update_lock, filter_update_lock>>
    BY <1>5 DEF UndoSave, Goto, IInv, TypeOK
  <2>2. TypeOK'
    BY <1>2, <1>3, <2>1 DEF IInv, TypeOK
  <2>3. Prepared'
    BY <1>2, <2>1 DEF IInv, TypeOK, Prepared
  <2>4. Entered(t)' /\ Proceeds(t)'
    BY <1>1, <1>2, <1>5, <2>1 DEF Entered, Proceeds
  <2>5. ~broken' => Undoes(t)'
    BY <1>1, <1>2, <1>3, <2>1 DEF Undoes
  <2>6. LockHeld' /\ Resting' /\ Operating'
    <3>1. "undo_apply" \in UnderLock /\ runtime_update_lock' = t
      BY <1>1, <2>1 DEF UnderLock
    <3> QED
      BY <1>1, <2>1, <2>4, <2>5, <3>1, HolderKeeps DEF IInv
  <2> QED
    BY <2>2, <2>3, <2>6 DEF IInv
<1> QED
  BY <1>4, <1>5

LEMMA UndoApplyKeeps ==
  ASSUME IInv, NEW t \in Threads, UndoApply(t)
  PROVE  IInv'
<1>1. /\ runtime_update_lock = t /\ Entered(t) /\ Proceeds(t)
      /\ ~broken => Undoes(t)
  BY HolderIs DEF IInv, UndoApply, UnderLock
<1>2. /\ config' = job[t].previous /\ Return(t)
      /\ UNCHANGED <<saved, cached, initialized, downloads, crashes, intended>>
  BY DEF UndoApply
<1>3. /\ LockHeld' /\ Operating' /\ Prepared' /\ runtime_update_lock' = None
      /\ pc' \in [Threads -> Places] /\ job' \in [Threads -> Jobs]
      /\ filter_update_lock' \in Threads \cup {None}
  BY <1>1, <1>2, ReturnKeeps
<1>4. /\ server' \in Servers \cup {None} /\ faults' \in 0..MaxFaults /\ broken' \in BOOLEAN
      /\ ~broken' => ~broken
      /\ server' # None => job[t].was_running /\ server' = Started(job[t].previous, cached)
  <2>1. Started(job[t].previous, cached) \in Servers
    BY <1>1, ServedTyped DEF Entered, IInv, TypeOK
  <2>2. faults' \in 0..MaxFaults
    BY CoreAssumption DEF UndoApply, Fault, IInv, TypeOK
  <2>3. broken' \in BOOLEAN /\ (~broken' => ~broken)
    <3>1. broken \in BOOLEAN
      BY DEF IInv, TypeOK
    <3>2. broken' = broken \/ broken' = TRUE
      BY DEF UndoApply
    <3>3. CASE broken' = broken
      BY <3>1, <3>3
    <3>4. CASE broken' = TRUE
      BY <3>4
    <3> QED
      BY <3>2, <3>3, <3>4
  <2>4. server' # None => job[t].was_running /\ server' = Started(job[t].previous, cached)
    BY DEF UndoApply
  <2>5. server' \in Servers \cup {None}
    BY <2>1, <2>4
  <2> QED
    BY <2>2, <2>3, <2>4, <2>5
<1>5. TypeOK'
  BY <1>1, <1>2, <1>3, <1>4 DEF IInv, TypeOK, Places, Entered
<1>6. Resting'
  <2>1. Started(job[t].previous, cached).alive = TRUE
    BY DEF Started
  <2>2. ~broken => Serves(server', job[t].previous, cached)
    BY <1>1, <1>4, <2>1 DEF Undoes, Serves, Started
  <2> QED
    BY <1>2, <1>4, <2>2 DEF Resting
<1> QED
  BY <1>3, <1>5, <1>6 DEF IInv

-----------------------------------------------------------------------------
LEMMA StepKeeps ==
  ASSUME IInv, NEW t \in Threads, Step(t)
  PROVE  IInv'
BY SnapshotKeeps, DownloadKeeps, DownloadFailsKeeps, PersistKeeps, RejectKeeps, PublishKeeps,
   PublishFailsKeeps, ApplyKeeps, ApplyFailsKeeps, UndoCachesKeeps, UndoSaveKeeps, UndoApplyKeeps
   DEF Step

LEMMA StutteringKeeps == IInv /\ UNCHANGED vars => IInv'
<1> SUFFICES ASSUME IInv, UNCHANGED vars PROVE IInv'
  OBVIOUS
<1>1. TypeOK' /\ LockHeld' /\ Prepared' /\ Resting'
  BY DEF vars, IInv, TypeOK, LockHeld, Prepared, Resting
<1>2. Operating'
  BY DEF vars, IInv, Operating, Entered, Proceeds, Undoes
<1> QED
  BY <1>1, <1>2 DEF IInv

LEMMA NextKeeps == IInv /\ [Next]_vars => IInv'
<1> SUFFICES ASSUME IInv, [Next]_vars PROVE IInv'
  OBVIOUS
<1>1. ASSUME NEW t \in Clients, Request(t) PROVE IInv'
  BY <1>1, RequestKeeps
<1>2. ASSUME NEW t \in Threads, Acquire(t) PROVE IInv'
  BY <1>2, LockUpdateKeeps, EnterKeeps DEF Acquire
<1>3. ASSUME NEW t \in Threads, Step(t) PROVE IInv'
  BY <1>3, StepKeeps
<1> QED
  BY <1>1, <1>2, <1>3, AutoUpdateKeeps, WatchdogKeeps, InitializeKeeps, ThreadDiesKeeps,
     CrashKeeps, StutteringKeeps DEF Next

(* In every state of every behaviour an operation under way and the four   *)
(* copies of the configuration are related as IInv says.                   *)
THEOREM Invariant == Spec => []IInv
<1>1. Init => IInv
  BY Initial
<1>2. IInv /\ [Next]_vars => IInv'
  BY NextKeeps
<1> QED
  BY <1>1, <1>2, PTL DEF Spec

(* TypeOK: no step takes a variable of the control plane out of its type,   *)
(* the local variables of an operation included.                           *)
THEOREM TypeCorrect == Spec => []TypeOK
<1>1. IInv => TypeOK
  BY DEF IInv
<1> QED
  BY <1>1, Invariant, PTL

(* ServerServesConfig: whoever finds runtime_update_lock free finds a       *)
(* server that is what a fresh start would build, after any sequence of    *)
(* saves, starts, stops, list updates, failures, rollbacks and restarts by *)
(* the watchdog, unless a rollback itself has failed and said so.          *)
THEOREM ServerServesCorrect == Spec => []ServerServesConfig
<1>1. IInv => ServerServesConfig
  BY DEF IInv, Resting, Serves, ServerServesConfig
<1> QED
  BY <1>1, Invariant, PTL

-----------------------------------------------------------------------------
(* The promises about single steps.  Who is at a step under the lock is     *)
(* the only one there.                                                     *)
LEMMA OneAtATime ==
  ASSUME LockHeld, NEW t \in Threads, NEW u \in Threads, pc[t] \in UnderLock, pc[u] \in UnderLock
  PROVE  t = u
BY DEF LockHeld

(* PublishedAsSubscribed: however long a download took, its list is         *)
(* published only for the address under which the configuration that is    *)
(* saved subscribes to it.                                                 *)
THEOREM PublishedCorrect == Spec => PublishedAsSubscribed
<1> DEFINE Published == \A t \in Threads, l \in Lists :
              pc[t] = "publish" /\ cached'[l] # cached[l] => cached'[l].url = saved.lists[l]
<1>1. ASSUME IInv, [Next]_vars PROVE Published
  <2> SUFFICES ASSUME NEW t \in Threads, NEW l \in Lists, pc[t] = "publish",
                      cached'[l] # cached[l]
               PROVE  cached'[l].url = saved.lists[l]
    OBVIOUS
  <2>1. PICK u \in Threads : UndoCaches(u) \/ \E k \in Lists : Publish(u, k)
    <3>1. ~ \/ Watchdog \/ Initialize \/ ThreadDies \/ Crash \/ AutoUpdate \/ UNCHANGED vars
            \/ \E u \in Clients : Request(u)
      BY DEF vars, Request, Submit, QueryLogRule, StartOrStop, AutoUpdate, Watchdog, Initialize,
         ThreadDies, Crash
    <3>2. PICK u \in Threads : Acquire(u) \/ Step(u)
      BY <1>1, <3>1 DEF Next
    <3>3. ~ Acquire(u)
      BY DEF Acquire, LockUpdate, Enter
    <3>4. Step(u)
      BY <3>2, <3>3
    <3> QED
      BY <3>4 DEF Step, Snapshot, Download, DownloadFails, Persist, Reject, PublishFails, Apply,
         ApplyFails, UndoSave, UndoApply
  <2>2. u = t
    BY <1>1, <2>1, OneAtATime DEF IInv, UnderLock, UndoCaches, Publish
  <2>3. PICK k \in Lists : Publish(t, k)
    BY <2>1, <2>2 DEF UndoCaches
  <2>4. Entered(t) /\ Proceeds(t)
    BY <1>1, HolderIs DEF IInv, UnderLock
  <2>5. k = l /\ cached'[l] = job[t].staged[l]
    BY <1>1, <2>3 DEF Publish, IInv, TypeOK, Caches
  <2>6. l \in job[t].todo /\ job[t].op = "update"
    BY <2>3, <2>4, <2>5 DEF Publish, Entered
  <2> QED
    BY <2>4, <2>5, <2>6 DEF Entered, Proceeds
<1>2. IInv /\ [Next]_vars => [Published]_vars
  BY <1>1
<1> QED
  BY <1>2, Invariant, PTL DEF Spec, PublishedAsSubscribed

(* RestoredExactly: an operation that ends by rolling back, and reports no  *)
(* failure of the rollback, has put back the memory, the database, the     *)
(* lists, and the server if it ran before.                                 *)
THEOREM RestoredCorrect == Spec => RestoredExactly
<1> DEFINE Restored == \A t \in Threads :
              LET j == job[t] IN
              /\ pc[t] \in {"undo_save", "undo_apply"}
              /\ pc'[t] = "idle"
              /\ crashes' = crashes
              /\ ~broken'
              => /\ config' = j.previous
                 /\ saved' = j.previous
                 /\ cached' = j.before
                 /\ pc[t] = "undo_apply" =>
                       server' = IF j.was_running THEN Started(j.previous, j.before)
                                 ELSE None
<1>1. ASSUME IInv, [Next]_vars PROVE Restored
  <2> SUFFICES ASSUME NEW t \in Threads, pc[t] \in {"undo_save", "undo_apply"},
                      pc'[t] = "idle", crashes' = crashes, ~broken'
               PROVE  /\ config' = job[t].previous
                      /\ saved' = job[t].previous
                      /\ cached' = job[t].before
                      /\ pc[t] = "undo_apply" =>
                            server' = IF job[t].was_running
                                      THEN Started(job[t].previous, job[t].before)
                                      ELSE None
    OBVIOUS
  <2>1. /\ Entered(t) /\ Proceeds(t)
        /\ ~broken => Undoes(t)
    BY <1>1, HolderIs DEF IInv, UnderLock
  <2>2. ~Crash
    BY <1>1 DEF Crash, IInv, TypeOK
  <2>3. UndoSave(t) \/ UndoApply(t)
    <3>1. ASSUME NEW u \in Threads, Acquire(u) \/ Step(u) \/ (u \in Clients /\ Request(u))
          PROVE  u = t
      BY <1>1, <3>1 DEF IInv, TypeOK, Acquire, Step, Request, Goto, Return, Succeed, Submit,
         QueryLogRule, StartOrStop, LockUpdate, Enter, Snapshot, Download, DownloadFails, Persist,
         Reject, Publish, PublishFails, Apply, ApplyFails, UndoCaches, UndoSave, UndoApply
    <3>2. pc' # pc
      OBVIOUS
    <3>3. ~AutoUpdate
      BY <1>1 DEF AutoUpdate, Goto, IInv, TypeOK, Threads
    <3>4. ~Watchdog /\ ~Initialize /\ ~ThreadDies
      BY <3>2 DEF Watchdog, Initialize, ThreadDies
    <3>5. \E u \in Threads : Acquire(u) \/ Step(u) \/ (u \in Clients /\ Request(u))
      <4>1. Next
        BY <1>1, <3>2 DEF vars
      <4>2. \A u \in Clients : u \in Threads
        BY DEF Threads
      <4> QED
        BY <2>2, <3>3, <3>4, <4>1, <4>2 DEF Next
    <3>6. Acquire(t) \/ Step(t) \/ (t \in Clients /\ Request(t))
      BY <3>1, <3>5
    <3> QED
      BY <3>6 DEF Acquire, Step, Request, Submit, QueryLogRule, StartOrStop, LockUpdate, Enter,
         Snapshot, Download, DownloadFails, Persist, Reject, Publish, PublishFails, Apply,
         ApplyFails, UndoCaches
  <2>4. CASE UndoSave(t)
    <3>1. ~broken /\ saved' = job[t].previous /\ job[t].todo # {} /\ pc[t] = "undo_save"
      BY <1>1, <2>4 DEF UndoSave, Goto, IInv, TypeOK
    <3> QED
      BY <2>1, <2>4, <3>1 DEF UndoSave, Proceeds, Undoes
  <2>5. CASE UndoApply(t)
    <3>1. /\ ~broken
          /\ server' = IF job[t].was_running THEN Started(job[t].previous, cached) ELSE None
      BY <2>5 DEF UndoApply
    <3> QED
      BY <2>1, <2>5, <3>1 DEF UndoApply, Undoes
  <2> QED
    BY <2>3, <2>4, <2>5
<1>2. IInv /\ [Next]_vars => [Restored]_vars
  BY <1>1
<1> QED
  BY <1>2, Invariant, PTL DEF Spec, RestoredExactly

-----------------------------------------------------------------------------
(* What the operations add up to.  A rule of the query log is made from the *)
(* configuration that its thread has read before it has the lock; with two *)
(* users somebody else's edit may come in between and be lost, which is    *)
(* what the run service_rule shows.  RulesAlone leaves that case out.      *)

(* Whoever changes the configuration in memory is alone at it, or changes  *)
(* nothing: an update keeps what it found.                                 *)
RulesKept == \A t \in Clients : pc'[t] = "enter" =>
                /\ pc[t] = "enter" /\ job'[t] = job[t]
                /\ config' = config \/ job[t].op # "rule"

LEMMA ConfigChangesAlone ==
  ASSUME RulesAlone, IInv, NEW u \in Threads, pc[u] \in UnderLock,
         \/ job[u].op = "update" /\ config' = config
         \/ job[u].op # "update",
         \A t \in Threads : t # u => pc'[t] = pc[t] /\ job'[t] = job[t],
         pc'[u] # "enter"
  PROVE  RulesKept
<1> SUFFICES ASSUME NEW t \in Clients, pc'[t] = "enter"
             PROVE  /\ pc[t] = "enter" /\ job'[t] = job[t]
                    /\ config' = config \/ job[t].op # "rule"
  BY DEF RulesKept
<1>1. t \in Threads /\ t # u
  BY DEF Threads
<1>2. job'[t] = job[t] /\ pc[t] = "enter"
  BY <1>1
<1>3. ASSUME job[u].op # "update", job[t].op = "rule"
      PROVE  FALSE
  <2>1. u # AutoUpdater
    BY <1>3 DEF IInv, Prepared, UnderLock
  <2>2. u \in Clients
    BY <2>1 DEF Threads
  <2>3. "rule" \in Operations
    BY <1>1, <1>3 DEF IInv, Prepared
  <2> QED
    BY <1>1, <2>2, <2>3 DEF RulesAlone
<1> QED
  BY <1>2, <1>3

LEMMA RulesKeptMade ==
  ASSUME Intended, RulesKept
  PROVE  \A t \in Clients : pc'[t] = "enter" => RuleMade(job'[t], config')
BY DEF Intended, RulesKept, RuleMade

(* Outside the lock nothing is edited; a rule is made from what is there.   *)
LEMMA OutsideIntended ==
  ASSUME IInv, Intended, NEW t \in Threads, NEW place, NEW j, Outside(t, place, j),
         UNCHANGED intended, t \in Clients /\ place = "enter" => RuleMade(j, config)
  PROVE  Intended'
<1>1. runtime_update_lock # t
  BY DEF IInv, LockHeld, Outside
<1>2. \A u \in Clients : pc'[u] = "enter" => RuleMade(job'[u], config')
  BY DEF IInv, TypeOK, Intended, Outside, Threads
<1>3. ASSUME NEW u \in Threads, runtime_update_lock' = u PROVE IntendedAt(u)'
  BY <1>1, <1>3 DEF IInv, TypeOK, Intended, IntendedAt, Outside
<1> QED
  BY <1>2, <1>3 DEF Intended, LastEditStands, Outside

LEMMA RequestIntended ==
  ASSUME IInv, Intended, NEW t \in Clients, Request(t)
  PROVE  Intended'
<1> USE DEF Outside, Goto, UnderLock
<1>0. t \in Threads
  BY DEF Threads
<1>1. ASSUME NEW op \in {"save", "manual"}, NEW c \in Configs, Submit(t, op, c)
      PROVE  Intended'
  <2> DEFINE j == [NoJob EXCEPT !.op = op, !.next = c]
             place == IF op = "manual" THEN "update_lock" ELSE "enter"
  <2>1. Outside(t, place, j) /\ UNCHANGED intended /\ op \in Operations
    BY <1>1 DEF Submit
  <2>2. j.op = op
    BY <2>1, NewJobFor
  <2> HIDE DEF j, place
  <2>3. RuleMade(j, config)
    BY <1>1, <2>2 DEF RuleMade
  <2> QED
    BY <1>0, <2>1, <2>3, OutsideIntended
<1>2. ASSUME NEW r \in Rules, QueryLogRule(t, r)
      PROVE  Intended'
  <2> DEFINE n == [config EXCEPT !.rules = r]
             j == [NoJob EXCEPT !.op = "rule", !.next = n]
  <2>1. n \in Configs /\ n = [config EXCEPT !.rules = n.rules]
    BY DEF IInv, TypeOK, Configs
  <2>2. Outside(t, "enter", j) /\ UNCHANGED intended /\ "rule" \in Operations
    BY <1>2 DEF QueryLogRule
  <2>3. "rule" \in Operations \cup {"update"}
    BY <2>2
  <2>4. j \in Jobs /\ j.op = "rule" /\ j.next = n
    BY <2>1, <2>3, NewJobFor
  <2> HIDE DEF j, n
  <2>5. RuleMade(j, config)
    BY <2>1, <2>4 DEF RuleMade
  <2> QED
    BY <1>0, <2>2, <2>5, OutsideIntended
<1>3. ASSUME NEW op \in {"start", "stop"}, StartOrStop(t, op)
      PROVE  Intended'
  <2> DEFINE j == [NoJob EXCEPT !.op = op]
  <2>1. Outside(t, "enter", j) /\ UNCHANGED intended /\ op \in Operations
    BY <1>3 DEF StartOrStop
  <2>2. j.op = op
    BY <2>1, NewJob
  <2>3. RuleMade(j, config)
    BY <2>2 DEF RuleMade
  <2> HIDE DEF j
  <2> QED
    BY <1>0, <2>1, <2>3, OutsideIntended
<1> QED
  BY <1>1, <1>2, <1>3 DEF Request

LEMMA AutoUpdateIntended == IInv /\ Intended /\ AutoUpdate => Intended'
<1> SUFFICES ASSUME IInv, Intended, AutoUpdate PROVE Intended'
  OBVIOUS
<1>1. Outside(AutoUpdater, "update_lock", [NoJob EXCEPT !.op = "update"]) /\ UNCHANGED intended
  BY DEF AutoUpdate, Outside, Goto, UnderLock
<1> QED
  BY <1>1, OutsideIntended DEF Threads

LEMMA DownloadingIntended ==
  ASSUME IInv, Intended, NEW t \in Threads,
         LockUpdate(t) \/ Snapshot(t) \/ Download(t) \/ DownloadFails(t)
  PROVE  Intended'
<1> USE DEF Goto, UnderLock
<1>1. CASE LockUpdate(t)
  <2>1. /\ Outside(t, IF job[t].op = "manual" THEN "enter" ELSE "snapshot", job[t])
        /\ UNCHANGED intended
    BY <1>1 DEF LockUpdate, Outside, IInv, TypeOK
  <2>2. job[t].op \in {"manual", "update"}
    BY <1>1 DEF LockUpdate, IInv, Prepared
  <2> QED
    BY <2>1, <2>2, OutsideIntended DEF RuleMade
<1>2. CASE Snapshot(t)
  <2>1. Outside(t, "download", [job[t] EXCEPT !.previous = config]) /\ UNCHANGED intended
    BY <1>2 DEF Snapshot, Outside
  <2> QED
    BY <2>1, OutsideIntended
<1>3. CASE Download(t)
  <2>1. PICK files : job' = [job EXCEPT ![t] = [job[t] EXCEPT !.staged = files]]
    BY <1>3 DEF Download
  <2>2. Outside(t, "enter", [job[t] EXCEPT !.staged = files]) /\ UNCHANGED intended
    BY <1>3, <2>1 DEF Download, Outside
  <2>3. [job[t] EXCEPT !.staged = files].op = "update"
    BY <1>3 DEF Download, IInv, TypeOK, Prepared, Jobs
  <2> QED
    BY <2>2, <2>3, OutsideIntended DEF RuleMade
<1>4. CASE DownloadFails(t)
  <2>1. Outside(t, "idle", NoJob) /\ UNCHANGED intended
    BY <1>4 DEF DownloadFails, Return, Outside, IInv, LockHeld
  <2> QED
    BY <2>1, OutsideIntended
<1> QED
  BY <1>1, <1>2, <1>3, <1>4

(* At the lock the last edit stands, and is what the operation found.       *)
LEMMA EnterIntended ==
  ASSUME IInv, Intended, NEW t \in Threads, Enter(t)
  PROVE  Intended'
<1>1. /\ runtime_update_lock = None /\ runtime_update_lock' = t /\ pc' = [pc EXCEPT ![t] = "persist"]
      /\ UNCHANGED <<config, saved, intended, broken>>
      /\ \A u \in Threads : u # t => job'[u] = job[u]
  BY DEF Enter, Goto, IInv, TypeOK
<1>2. /\ job'[t].previous = config /\ job'[t].op = job[t].op
      /\ job[t].op = "rule" => job'[t].next = job[t].next
  <2>1. job'[t].previous = config /\ job'[t].op = job[t].op /\ job'[t].next = Wanted(t)
    BY DEF Enter, IInv, TypeOK, Jobs
  <2> QED
    BY <2>1 DEF Wanted
<1>3. RuleMade(job'[t], config)
  <2>1. CASE t = AutoUpdater
    BY <1>2, <2>1 DEF RuleMade, IInv, Prepared, Enter
  <2>2. CASE t \in Clients
    BY <1>2, <2>2 DEF RuleMade, Intended, Enter
  <2> QED
    BY <2>1, <2>2 DEF Threads
<1>4. ~broken => config = intended /\ saved = intended
  BY <1>1 DEF Intended, LastEditStands
<1>5. IntendedAt(t)'
  BY <1>1, <1>2, <1>3, <1>4 DEF IntendedAt
<1>6. \A u \in Clients : pc'[u] = "enter" => RuleMade(job'[u], config')
  BY <1>1 DEF IInv, TypeOK, Intended, Threads
<1> QED
  BY <1>1, <1>5, <1>6, CoreAssumption DEF Intended, LastEditStands, Threads

LEMMA BesideIntended ==
  ASSUME Intended, Beside
  PROVE  Intended'
BY DEF Beside, Intended, IntendedAt, LastEditStands

LEMMA CrashIntended ==
  ASSUME Crash
  PROVE  Intended'
BY CoreAssumption DEF Crash, Intended, IntendedAt, LastEditStands, Threads

(* A step that keeps the lock and intends nothing yet.                     *)
LEMMA HolderIntended ==
  ASSUME IInv, Intended, NEW t \in Threads, runtime_update_lock = t,
         runtime_update_lock' = t, RulesKept, IntendedAt(t)'
  PROVE  Intended'
<1>1. \A u \in Clients : pc'[u] = "enter" => RuleMade(job'[u], config')
  BY RulesKeptMade
<1> QED
  BY <1>1, CoreAssumption DEF Intended, LastEditStands, Threads

(* A step that gives the lock back.                                        *)
LEMMA EndIntended ==
  ASSUME Intended, runtime_update_lock' = None, RulesKept,
         ~broken' => config' = intended' /\ saved' = intended'
  PROVE  Intended'
<1>1. \A u \in Clients : pc'[u] = "enter" => RuleMade(job'[u], config')
  BY RulesKeptMade
<1> QED
  BY <1>1, CoreAssumption DEF Intended, LastEditStands, Threads

LEMMA LockedIntended ==
  ASSUME RulesAlone, IInv, Intended, NEW t \in Threads, Step(t), pc[t] \in UnderLock
  PROVE  Intended'
<1>1. /\ runtime_update_lock = t /\ Entered(t) /\ Proceeds(t) /\ IntendedAt(t)
      /\ ~broken => Undoes(t)
  BY HolderIs DEF IInv, Intended
<1>2. job[t] \in Jobs /\ (job[t].op = "update" => job[t].next = job[t].previous /\ config = job[t].previous)
  BY <1>1 DEF IInv, TypeOK, Entered, Proceeds
<1> USE DEF Goto
<1>3. CASE Persist(t)
  <2>1. RulesKept
    BY <1>2, <1>3, ConfigChangesAlone DEF Persist, IInv, TypeOK
  <2>2. IntendedAt(t)'
    BY <1>1, <1>3 DEF IntendedAt, Persist, Proceeds, IInv, TypeOK
  <2> QED
    BY <1>1, <1>3, <2>1, <2>2, HolderIntended DEF Persist
<1>4. CASE Reject(t)
  <2>1. RulesKept
    BY <1>2, <1>4, ConfigChangesAlone DEF Reject, Return, IInv, TypeOK
  <2>2. ~broken' => config' = intended' /\ saved' = intended'
    BY <1>1, <1>4 DEF IntendedAt, Reject, Proceeds
  <2> QED
    BY <1>1, <1>4, <2>1, <2>2, EndIntended DEF Reject, Return
<1>5. ASSUME NEW l \in Lists, Publish(t, l) PROVE Intended'
  <2>1. /\ job'[t].op = job[t].op /\ job'[t].next = job[t].next /\ job'[t].previous = job[t].previous
        /\ pc'[t] \in {"apply", "publish"}
    BY <1>2, <1>5 DEF Publish, IInv, TypeOK, Jobs
  <2>2. RulesKept
    BY <1>2, <1>5, <2>1, ConfigChangesAlone DEF Publish, IInv, TypeOK
  <2>3. IntendedAt(t)'
    BY <1>1, <1>5, <2>1 DEF IntendedAt, Publish, RuleMade
  <2> QED
    BY <1>1, <1>5, <2>2, <2>3, HolderIntended DEF Publish
<1>6. CASE PublishFails(t)
  <2>1. RulesKept
    BY <1>2, <1>6, ConfigChangesAlone DEF PublishFails, IInv, TypeOK
  <2>2. IntendedAt(t)'
    BY <1>1, <1>6 DEF IntendedAt, PublishFails, IInv, TypeOK
  <2> QED
    BY <1>1, <1>6, <2>1, <2>2, HolderIntended DEF PublishFails
<1>7. CASE Apply(t)
  <2>1. /\ pc[t] = "apply" /\ config' = job[t].next /\ saved' = saved /\ broken' = broken
        /\ runtime_update_lock' = None
        /\ pc' = [pc EXCEPT ![t] = IF job[t].op = "manual" THEN "snapshot" ELSE "idle"]
        /\ \A u \in Threads : u # t => job'[u] = job[u]
    BY <1>1, <1>7 DEF Apply, Succeed, Return, IInv, TypeOK
  <2>2. RulesKept
    BY <1>2, <1>7, <2>1, ConfigChangesAlone DEF Apply, IInv, TypeOK
  <2>3. ~broken => intended' = job[t].next
    <3>1. SUFFICES ASSUME ~broken PROVE intended' = job[t].next
      OBVIOUS
    <3>2. intended = job[t].previous
      BY <1>1, <3>1 DEF IntendedAt
    <3>3. job[t].op \in {"save", "rule", "start", "stop", "manual", "update"}
      BY <1>1, CoreAssumption DEF Entered
    <3>4. CASE job[t].op = "rule"
      BY <1>1, <1>7, <2>1, <3>2, <3>4 DEF Apply, IntendedAt, RuleMade
    <3>5. CASE job[t].op = "start"
      BY <1>1, <1>7, <3>2, <3>5 DEF Apply, Entered
    <3>6. CASE job[t].op = "stop"
      BY <1>1, <1>7, <3>2, <3>6 DEF Apply, Entered
    <3>7. CASE job[t].op = "update"
      BY <1>2, <1>7, <3>2, <3>7 DEF Apply
    <3>8. CASE job[t].op \in {"save", "manual"}
      BY <1>7, <3>8 DEF Apply
    <3> QED
      BY <3>3, <3>4, <3>5, <3>6, <3>7, <3>8
  <2>4. saved = job[t].next
    BY <1>1, <2>1 DEF Proceeds
  <2> QED
    BY <2>1, <2>2, <2>3, <2>4, EndIntended
<1>8. CASE ApplyFails(t)
  <2>1. RulesKept
    BY <1>2, <1>8, ConfigChangesAlone DEF ApplyFails, IInv, TypeOK
  <2>2. IntendedAt(t)'
    BY <1>1, <1>8 DEF IntendedAt, ApplyFails, IInv, TypeOK
  <2> QED
    BY <1>1, <1>8, <2>1, <2>2, HolderIntended DEF ApplyFails
<1>9. CASE UndoCaches(t)
  <2>1. RulesKept
    BY <1>2, <1>9, ConfigChangesAlone DEF UndoCaches, IInv, TypeOK
  <2>2. broken' = broken \/ broken' = TRUE
    BY <1>9 DEF UndoCaches
  <2>3. IntendedAt(t)'
    BY <1>1, <1>9, <2>2 DEF IntendedAt, UndoCaches, IInv, TypeOK
  <2> QED
    BY <1>1, <1>9, <2>1, <2>3, HolderIntended DEF UndoCaches
<1>10. CASE UndoSave(t)
  <2>1. /\ config' = config /\ intended' = intended
        /\ ~broken' => ~broken /\ saved' = job[t].previous
        /\ pc'[t] # "enter"
        /\ \A u \in Threads : u # t => pc'[u] = pc[u] /\ job'[u] = job[u]
    BY <1>10 DEF UndoSave, Return, IInv, TypeOK
  <2>2. RulesKept
    BY <1>2, <2>1, ConfigChangesAlone
  <2>3. CASE job[t].todo # {}
    <3>1. config = job[t].previous /\ runtime_update_lock' = None
      BY <1>1, <1>10, <2>3 DEF Proceeds, UndoSave, Return
    <3> QED
      BY <1>1, <2>1, <2>2, <3>1, EndIntended DEF IntendedAt
  <2>4. CASE job[t].todo = {}
    <3>1. job' = job /\ runtime_update_lock' = t /\ pc'[t] = "undo_apply"
      BY <1>1, <1>10, <2>4 DEF UndoSave, IInv, TypeOK
    <3>2. IntendedAt(t)'
      BY <1>1, <2>1, <3>1 DEF IntendedAt
    <3> QED
      BY <1>1, <2>2, <3>1, <3>2, HolderIntended
  <2> QED
    BY <2>3, <2>4
<1>11. CASE UndoApply(t)
  <2>1. /\ config' = job[t].previous /\ intended' = intended /\ saved' = saved
        /\ runtime_update_lock' = None /\ pc'[t] # "enter" /\ pc[t] = "undo_apply"
        /\ broken' = broken \/ broken' = TRUE
        /\ \A u \in Threads : u # t => pc'[u] = pc[u] /\ job'[u] = job[u]
    BY <1>1, <1>11 DEF UndoApply, Return, IInv, TypeOK
  <2>2. RulesKept
    BY <1>2, <2>1, ConfigChangesAlone
  <2> QED
    BY <1>1, <2>1, <2>2, EndIntended DEF IntendedAt, Undoes
<1> QED
  BY <1>3, <1>4, <1>5, <1>6, <1>7, <1>8, <1>9, <1>10, <1>11 DEF Step, UnderLock, Snapshot, Download,
     DownloadFails

LEMMA NextIntended == RulesAlone /\ IInv /\ Intended /\ [Next]_vars => Intended'
<1> SUFFICES ASSUME RulesAlone, IInv, Intended, [Next]_vars PROVE Intended'
  OBVIOUS
<1>1. ASSUME NEW t \in Clients, Request(t) PROVE Intended'
  BY <1>1, RequestIntended
<1>2. ASSUME NEW t \in Threads, Acquire(t) PROVE Intended'
  BY <1>2, DownloadingIntended, EnterIntended DEF Acquire
<1>3. ASSUME NEW t \in Threads, Step(t) PROVE Intended'
  <2>1. CASE pc[t] \in UnderLock
    BY <1>3, <2>1, LockedIntended
  <2>2. CASE pc[t] \notin UnderLock
    BY <1>3, <2>2, DownloadingIntended DEF Step, UnderLock, Persist, Reject, Publish, PublishFails,
       Apply, ApplyFails, UndoCaches, UndoSave, UndoApply
  <2> QED
    BY <2>1, <2>2
<1>4. CASE Watchdog \/ Initialize \/ ThreadDies
  BY <1>4, BesideIntended DEF Watchdog, Initialize, ThreadDies, Beside
<1>5. CASE UNCHANGED vars
  BY <1>5, BesideIntended DEF vars, Beside
<1> QED
  BY <1>1, <1>2, <1>3, <1>4, <1>5, AutoUpdateIntended, CrashIntended DEF Next

(* LastEditStands: while only one user works with the rules of the query    *)
(* log, the memory and the database hold what the successful operations    *)
(* add up to whenever the lock is free: a rejected or rolled back one      *)
(* leaves no trace, and an update of the lists overwrites no setting.      *)
THEOREM EditsStand == RulesAlone => (Spec => []LastEditStands)
<1> SUFFICES ASSUME RulesAlone PROVE Spec => []LastEditStands
  OBVIOUS
<1>1. Init => Intended
  BY CoreAssumption DEF Init, Intended, IntendedAt, LastEditStands, Threads
<1>2. IInv /\ Intended /\ [Next]_vars => Intended'
  BY NextIntended
<1>3. Intended => LastEditStands
  BY DEF Intended
<1> QED
  BY <1>1, <1>2, <1>3, Invariant, PTL DEF Spec

=============================================================================
