--------------------------- MODULE LinuxSystemDns ---------------------------
(* linux_system_dns.rs: the takeover of the system resolver as a journalled *)
(* transaction over two files, the resolved drop-in and /etc/resolv.conf,   *)
(* its undo, the restore by the user, at shutdown and without the service,  *)
(* and the reconciliation at the next start.  SYSTEM_DNS_OPERATION_LOCK     *)
(* makes an operation exclusive; a crash may come between any two steps.    *)
EXTENDS Integers, FiniteSets

CONSTANTS MaxLnFaults,     \* bound on failing steps and crashes
          MaxLnEdits       \* bound on changes of the files by others

ASSUME LnConstants == MaxLnFaults \in Nat /\ MaxLnEdits \in Nat

LnFileNames == {"drop_in", "resolv_conf"}

(* "own": as the system had it (no drop-in, the stub link); "foreign":      *)
(* written by somebody else, for resolv.conf a target that is not known.    *)
LnContents == {"own", "managed", "foreign"}

LnEntries == [desired : BOOLEAN, effective : BOOLEAN, pending : BOOLEAN,
              saved : [LnFileNames -> LnContents]]

(* enabled, listen_port = 53, and what validate_takeover_config asks: it    *)
(* listens on the loopback address and no upstream leads back to it.        *)
LnConfigs == [enabled : BOOLEAN, port53 : BOOLEAN, fit : BOOLEAN]

LnSteps == {"check", "journal", "stop", "write_drop_in", "link", "reload", "port", "start", "commit",
            "undo_port", "undo_drop_in", "undo_link", "undo_reload", "undo_journal",
            "begin", "halt", "put_drop_in", "put_link", "finish"}

VARIABLES lnJournal,   \* the state file: {} or one entry
          lnFiles,
          lnOriginal,  \* history: the last content of a file that was not the managed one
          lnConfig,    \* the saved configuration
          lnPhase,     \* of the service: "down", "up", "leaving" once the stop has looked
                       \* at the system DNS
          lnOp,        \* {} or the operation that holds the lock
          lnFaults,
          lnEdits

lnVars == <<lnJournal, lnFiles, lnOriginal, lnConfig, lnPhase, lnOp, lnFaults, lnEdits>>

LnOps == [name : {"takeover", "restore", "shutdown", "offline"}, step : LnSteps,
          keep : BOOLEAN,      \* preserve_desired
          port : BOOLEAN,      \* the port to return to, if it was changed
          failed : BOOLEAN]    \* rollback_error

LnInit ==
    /\ lnJournal = {}
    /\ lnFiles = [f \in LnFileNames |-> "own"]
    /\ lnOriginal = lnFiles
    /\ lnConfig = [enabled |-> TRUE, port53 |-> FALSE, fit |-> TRUE]
    /\ lnPhase = "down"
    /\ lnOp = {}
    /\ lnFaults = MaxLnFaults
    /\ lnEdits = MaxLnEdits

(* managed_files_match *)
LnMatch == \A f \in LnFileNames : lnFiles[f] = "managed"

(* transition_files_are_owned *)
LnOwned(e) == \A f \in LnFileNames : lnFiles[f] \in {"managed", e.saved[f]}

(* validate_takeover_config *)
LnFit(c) == c.fit

LnManaged == \E e \in lnJournal : e.desired \/ e.effective \/ e.pending

------------------------------------------------------------------------------
LnFail == lnFaults > 0 /\ lnFaults' = lnFaults - 1 /\ UNCHANGED lnEdits
LnOk == UNCHANGED <<lnFaults, lnEdits>>

LnAt(s) == \E o \in lnOp : o.step = s
LnThe == CHOOSE o \in lnOp : TRUE
LnGo(s) == lnOp' = {[o EXCEPT !.step = s] : o \in lnOp}
LnWrite(e) == lnJournal' = {e}
LnBegin(name, step, keep) ==
    lnOp' = {[name |-> name, step |-> step, keep |-> keep, port |-> TRUE, failed |-> FALSE]}

(* The operation returns; after a shutdown the process is about to end. *)
LnEnd == /\ lnOp' = {}
         /\ lnPhase' = IF \E o \in lnOp : o.name = "shutdown" THEN "leaving" ELSE lnPhase

LnStay == UNCHANGED <<lnOriginal, lnPhase>>
LnUp == lnPhase # "down"

------------------------------------------------------------------------------
(* Mutant: an unfinished takeover is not undone before the next one. *)
LnFirstStepUnrestored ==
    IF lnFiles["resolv_conf"] = "foreign" \/ ~ LnFit(lnConfig) THEN "refused"
    ELSE IF \E e \in lnJournal : ~ e.pending /\ e.effective THEN IF LnMatch THEN "check" ELSE "refused"
    ELSE IF lnJournal = {} /\ lnFiles["drop_in"] = "foreign" THEN "refused" ELSE "journal"

(* take_over_system_dns_unlocked up to the first write: an unfinished       *)
(* transaction is undone first, a finished one only starts the DNS again,   *)
(* and what others have changed is refused.                                 *)
LnFirstStep ==
    IF lnFiles["resolv_conf"] = "foreign" \/ ~ LnFit(lnConfig) THEN "refused"
    ELSE IF \E e \in lnJournal : e.pending THEN IF \E e \in lnJournal : LnOwned(e) THEN "begin" ELSE "refused"
    ELSE IF \E e \in lnJournal : e.effective THEN IF LnMatch THEN "check" ELSE "refused"
    ELSE IF lnJournal = {} /\ lnFiles["drop_in"] = "foreign" THEN "refused" ELSE "journal"

LnTakeOver ==
    /\ LnUp /\ lnOp = {}
    /\ LnFirstStep # "refused" /\ LnBegin("takeover", LnFirstStep, TRUE)
    /\ LnOk /\ LnStay /\ UNCHANGED <<lnJournal, lnFiles, lnConfig>>

(* Already effective: start_dns_blocking only. *)
LnStartAgain ==
    /\ LnAt("check")
    /\ lnConfig' = [lnConfig EXCEPT !.enabled = TRUE]
    /\ LnEnd /\ LnOk /\ UNCHANGED <<lnJournal, lnFiles, lnOriginal>>

LnJournalOriginals ==
    /\ LnAt("journal")
    /\ LnWrite([desired |-> TRUE, effective |-> FALSE, pending |-> TRUE, saved |-> lnFiles])
    /\ LnGo("stop") /\ LnOk /\ LnStay /\ UNCHANGED <<lnFiles, lnConfig>>

LnStopDns ==
    /\ LnAt("stop")
    /\ lnConfig' = [lnConfig EXCEPT !.enabled = FALSE]
    /\ LnGo("write_drop_in") /\ LnOk /\ LnStay /\ UNCHANGED <<lnJournal, lnFiles>>

LnWriteDropIn ==
    /\ LnAt("write_drop_in")
    /\ lnFiles' = [lnFiles EXCEPT !["drop_in"] = "managed"]
    /\ LnGo("link") /\ LnOk /\ LnStay /\ UNCHANGED <<lnJournal, lnConfig>>

LnLink ==
    /\ LnAt("link")
    /\ lnFiles' = [lnFiles EXCEPT !["resolv_conf"] = "managed"]
    /\ LnGo("reload") /\ LnOk /\ LnStay /\ UNCHANGED <<lnJournal, lnConfig>>

(* restart_resolved and ensure_port_53_is_free *)
LnReload ==
    /\ LnAt("reload")
    /\ LnGo("port") /\ LnOk /\ LnStay /\ UNCHANGED <<lnJournal, lnFiles, lnConfig>>

LnApplyPort ==
    /\ LnAt("port")
    /\ lnConfig' = [lnConfig EXCEPT !.port53 = TRUE]
    /\ lnOp' = {[o EXCEPT !.step = "start", !.port = lnConfig.port53] : o \in lnOp}
    /\ LnOk /\ LnStay /\ UNCHANGED <<lnJournal, lnFiles>>

(* start_dns_blocking, verify_dns_runtime and verify_system_resolver; they  *)
(* may fail after the DNS was started.                                      *)
LnStartAndVerify ==
    /\ LnAt("start")
    /\ lnConfig' = [lnConfig EXCEPT !.enabled = TRUE]
    /\ \/ LnGo("commit") /\ LnOk
       \/ LnGo("undo_port") /\ LnFail
    /\ LnStay /\ UNCHANGED <<lnJournal, lnFiles>>

(* The last write may fail too: the error is returned and nothing undone.   *)
LnCommit ==
    /\ LnAt("commit")
    /\ LnEnd
    /\ \/ LnOk /\ lnJournal' = {[e EXCEPT !.effective = TRUE, !.pending = FALSE] : e \in lnJournal}
       \/ LnFail /\ UNCHANGED lnJournal
    /\ UNCHANGED <<lnFiles, lnOriginal, lnConfig>>

LnTakeOverFails ==
    /\ \E s \in {"stop", "write_drop_in", "link", "reload", "port", "start"} : LnAt(s)
    /\ LnGo("undo_port") /\ LnFail /\ LnStay
    /\ UNCHANGED <<lnJournal, lnFiles, lnConfig>>

------------------------------------------------------------------------------
(* The undo of a failed takeover: port, rollback, and the outcome in the    *)
(* journal, whose write error is ignored.                                   *)
LnUndoPort ==
    /\ LnAt("undo_port")
    /\ LnGo("undo_drop_in")
    /\ \/ LnOk /\ lnConfig' = [lnConfig EXCEPT !.enabled = FALSE, !.port53 = @ /\ LnThe.port]
       \/ LnFail /\ lnConfig' = [lnConfig EXCEPT !.enabled = FALSE]
    /\ LnStay /\ UNCHANGED <<lnJournal, lnFiles>>

(* restore_snapshot *)
LnPutBack(f) ==
    \E e \in lnJournal :
       /\ lnFiles' = [lnFiles EXCEPT ![f] = e.saved[f]]
       /\ lnOriginal' = IF e.saved[f] = "managed" THEN lnOriginal
                        ELSE [lnOriginal EXCEPT ![f] = e.saved[f]]

LnRollbackFails == lnOp' = {[o EXCEPT !.step = "undo_journal", !.failed = TRUE] : o \in lnOp}

LnRollback(step, f, next) ==
    /\ LnAt(step)
    /\ \/ LnPutBack(f) /\ LnGo(next) /\ LnOk
       \/ UNCHANGED <<lnFiles, lnOriginal>> /\ LnRollbackFails /\ LnFail
    /\ UNCHANGED <<lnJournal, lnConfig, lnPhase>>

LnRollbackReload ==
    /\ LnAt("undo_reload")
    /\ \/ LnGo("undo_journal") /\ LnOk
       \/ LnRollbackFails /\ LnFail
    /\ LnStay /\ UNCHANGED <<lnJournal, lnFiles, lnConfig>>

LnUndoJournal ==
    /\ LnAt("undo_journal")
    /\ LnEnd
    /\ \/ /\ LnOk
          /\ lnJournal' = {[e EXCEPT !.desired = FALSE, !.effective = FALSE,
                                     !.pending = LnThe.failed] : e \in lnJournal}
       \/ LnFail /\ UNCHANGED lnJournal
    /\ UNCHANGED <<lnFiles, lnOriginal, lnConfig>>

------------------------------------------------------------------------------
(* Mutant: the offline restore does not ask whether the service runs. *)
LnRestoreUnprobed(name, keep) ==
    /\ lnOp = {}
    /\ LnUp \/ name = "offline"
    /\ name = "shutdown" => lnPhase = "up"
    /\ \E e \in lnJournal :
          /\ (e.effective \/ e.pending) => LnOwned(e)
          /\ name = "offline" => e.desired \/ e.effective \/ e.pending
          /\ name = "shutdown" => e.effective
    /\ LnBegin(name, "begin", keep)
    /\ LnOk /\ LnStay /\ UNCHANGED <<lnJournal, lnFiles, lnConfig>>

(* restore_system_dns_unlocked and restore_system_dns_offline.              *)
LnRestore(name, keep) ==
    /\ lnOp = {}
    /\ LnUp = (name # "offline")
    /\ name = "shutdown" => lnPhase = "up"
    /\ \E e \in lnJournal :
          /\ (e.effective \/ e.pending) => LnOwned(e)
          /\ name = "offline" => e.desired \/ e.effective \/ e.pending
          /\ name = "shutdown" => e.effective
    /\ LnBegin(name, "begin", keep)
    /\ LnOk /\ LnStay /\ UNCHANGED <<lnJournal, lnFiles, lnConfig>>

(* Mutant: the restore is not announced in the journal. *)
LnBeginRestoreSilently ==
    /\ LnAt("begin")
    /\ lnJournal' = {[e EXCEPT !.desired = @ /\ LnThe.keep] : e \in lnJournal}
    /\ LnGo(IF LnThe.name = "offline" THEN "put_drop_in" ELSE "halt")
    /\ LnOk /\ LnStay /\ UNCHANGED <<lnFiles, lnConfig>>

(* begin_restore: pending is on disk before a file is touched. *)
LnBeginRestore ==
    /\ LnAt("begin")
    /\ lnJournal' = {[e EXCEPT !.pending = TRUE, !.desired = @ /\ LnThe.keep] : e \in lnJournal}
    /\ LnGo(IF LnThe.name = "offline" THEN "put_drop_in" ELSE "halt")
    /\ LnOk /\ LnStay /\ UNCHANGED <<lnFiles, lnConfig>>

LnHalt ==
    /\ LnAt("halt")
    /\ lnConfig' = [lnConfig EXCEPT !.enabled = FALSE]
    /\ LnGo("put_drop_in") /\ LnOk /\ LnStay /\ UNCHANGED <<lnJournal, lnFiles>>

LnRestoreFile(step, f, next) ==
    /\ LnAt(step)
    /\ LnPutBack(f) /\ LnGo(next)
    /\ LnOk /\ UNCHANGED <<lnJournal, lnConfig, lnPhase>>

(* finish_restore; a takeover that began with it goes on. *)
LnFinishRestore ==
    /\ LnAt("finish")
    /\ lnJournal' = {[e EXCEPT !.effective = FALSE, !.pending = FALSE] : e \in lnJournal}
    /\ IF LnThe.name = "takeover" THEN LnGo("journal") /\ UNCHANGED lnPhase ELSE LnEnd
    /\ LnOk /\ UNCHANGED <<lnFiles, lnOriginal, lnConfig>>

(* A failing step of a restore, or of the checks and the first write of a   *)
(* takeover, ends the operation where it is.                                *)
LnOperationFails ==
    /\ \E s \in {"check", "journal", "begin", "halt", "put_drop_in", "put_link", "finish"} : LnAt(s)
    /\ LnEnd /\ LnFail
    /\ UNCHANGED <<lnJournal, lnFiles, lnOriginal, lnConfig>>

------------------------------------------------------------------------------
(* run_daemon and reconcile_desired_on_start: a takeover that is wanted is  *)
(* tried before anybody can call the service.                               *)
LnStart ==
    /\ ~ LnUp /\ lnOp = {}
    /\ lnPhase' = "up"
    /\ IF (\E e \in lnJournal : e.desired) /\ LnFirstStep # "refused"
         THEN LnBegin("takeover", LnFirstStep, TRUE)
         ELSE UNCHANGED lnOp
    /\ LnOk /\ UNCHANGED <<lnJournal, lnFiles, lnOriginal, lnConfig>>

(* Mutant: the process ends without looking at the system DNS. *)
LnNothingToRestoreAlways ==
    /\ lnPhase = "up" /\ lnOp = {} /\ lnPhase' = "leaving"
    /\ LnOk /\ UNCHANGED <<lnJournal, lnFiles, lnOriginal, lnConfig, lnOp>>

(* restore_before_shutdown finds nothing effective, or is refused. *)
LnNothingToRestore ==
    /\ lnPhase = "up" /\ lnOp = {}
    /\ \A e \in lnJournal : e.effective => ~ LnOwned(e)
    /\ lnPhase' = "leaving"
    /\ LnOk /\ UNCHANGED <<lnJournal, lnFiles, lnOriginal, lnConfig, lnOp>>

(* The daemon stops the DNS and returns; the threads of its connections are *)
(* not waited for, and an operation of theirs is cut off.                   *)
LnExit ==
    /\ lnPhase = "leaving"
    /\ lnPhase' = "down" /\ lnOp' = {}
    /\ LnOk /\ UNCHANGED <<lnJournal, lnFiles, lnOriginal, lnConfig>>

LnCrash ==
    /\ LnUp \/ lnOp # {}
    /\ lnPhase' = "down" /\ lnOp' = {}
    /\ LnFail /\ UNCHANGED <<lnJournal, lnFiles, lnOriginal, lnConfig>>

(* save_config and stop_dns of the user hold the same lock and are refused  *)
(* while the system DNS is managed (validate_managed_config,                *)
(* ensure_system_dns_not_managed).                                          *)
LnMaySave(c) == LnManaged => c.enabled /\ c.port53 /\ LnFit(c)

LnSaveConfig ==
    /\ LnUp /\ lnOp = {}
    /\ \E c \in LnConfigs : LnMaySave(c) /\ lnConfig' = c
    /\ LnOk /\ LnStay /\ UNCHANGED <<lnJournal, lnFiles, lnOp>>

(* Another program or the user rewrites one of the files, not in the middle *)
(* of an operation.                                                         *)
LnEdit(f) ==
    /\ lnOp = {} /\ lnEdits > 0 /\ lnEdits' = lnEdits - 1
    /\ \E c \in {"own", "foreign"} :
          /\ lnFiles' = [lnFiles EXCEPT ![f] = c]
          /\ lnOriginal' = [lnOriginal EXCEPT ![f] = c]
    /\ UNCHANGED <<lnJournal, lnConfig, lnPhase, lnOp, lnFaults>>

LnNext ==
    \/ LnTakeOver \/ LnStartAgain \/ LnJournalOriginals \/ LnStopDns \/ LnWriteDropIn
    \/ LnLink \/ LnReload \/ LnApplyPort \/ LnStartAndVerify \/ LnCommit \/ LnTakeOverFails
    \/ LnUndoPort \/ LnRollback("undo_drop_in", "drop_in", "undo_link")
    \/ LnRollback("undo_link", "resolv_conf", "undo_reload") \/ LnRollbackReload \/ LnUndoJournal
    \/ \E keep \in BOOLEAN : LnRestore("offline", keep)
    \/ LnRestore("restore", FALSE) \/ LnRestore("shutdown", TRUE)
    \/ LnBeginRestore \/ LnHalt \/ LnRestoreFile("put_drop_in", "drop_in", "put_link")
    \/ LnRestoreFile("put_link", "resolv_conf", "finish") \/ LnFinishRestore \/ LnOperationFails
    \/ LnStart \/ LnNothingToRestore \/ LnExit \/ LnCrash \/ LnSaveConfig
    \/ \E f \in LnFileNames : LnEdit(f)

LnSpec == LnInit /\ [][LnNext]_lnVars

------------------------------------------------------------------------------
(* The variables keep their types, and an operation without the service is  *)
(* the offline restore.                                                     *)
LnTypeOK ==
    /\ lnJournal \subseteq LnEntries /\ Cardinality(lnJournal) <= 1
    /\ lnFiles \in [LnFileNames -> LnContents] /\ lnOriginal \in [LnFileNames -> LnContents]
    /\ lnConfig \in LnConfigs /\ lnPhase \in {"down", "up", "leaving"}
    /\ lnOp \subseteq LnOps /\ Cardinality(lnOp) <= 1
    /\ \A o \in lnOp : LnUp = (o.name # "offline")
    /\ lnFaults \in 0..MaxLnFaults /\ lnEdits \in 0..MaxLnEdits

LnReplaced == {f \in LnFileNames : lnFiles[f] = "managed" /\ lnOriginal[f] # "managed"}
LnRecorded == {f \in LnFileNames : \E e \in lnJournal :
                  e.saved[f] = lnOriginal[f] /\ (e.effective \/ e.pending)}
LnJournalView == INSTANCE TakeoverJournal
                 WITH Items <- LnFileNames, replaced <- LnReplaced, recorded <- LnRecorded

(* At every step of a takeover, an undo or a restore, after any failure and *)
(* crash, what was replaced is recorded: the transaction implements the     *)
(* journal of TakeoverJournal.                                              *)
LnJournalled == LnJournalView!Spec

(* While the journal says that the takeover is complete, the saved          *)
(* configuration is the one that serves the system: enabled, on port 53,    *)
(* and not forwarding to itself.                                            *)
LnManagedServes ==
    \A e \in lnJournal : e.effective /\ ~ e.pending =>
       lnConfig.enabled /\ lnConfig.port53 /\ LnFit(lnConfig)

(* When an orderly stop is done with the system DNS and goes on to end the  *)
(* server, no file points to it, unless somebody changed the files or the   *)
(* journal asks for the restore.                                            *)
LnStopRestores ==
    [][lnPhase = "up" /\ lnPhase' = "leaving" /\ lnFaults' = lnFaults =>
          LnReplaced' = {} \/ \E e \in lnJournal' : e.pending \/ ~ LnOwned(e)]_lnVars

(* A restore overwrites only what the takeover wrote or found; the comment  *)
(* of restore_system_dns_offline promises it.                               *)
LnForeignKept ==
    [][\A f \in LnFileNames :
          lnFiles'[f] # lnFiles[f] /\ (LnAt("put_drop_in") \/ LnAt("put_link"))
          => lnFiles[f] = "managed"]_lnVars
=============================================================================
