-------------------------- MODULE WindowsSystemDns --------------------------
(* windows_system_dns.rs: the takeover of the DNS servers of the network    *)
(* adapters, each with an IPv4 and an IPv6 setting, the backup file, the    *)
(* undo of a failed takeover, and the ways back.  The operations exclude    *)
(* each other by SYSTEM_DNS_OPERATION_LOCK; the checks that save_config,    *)
(* stop_dns and the takeover make before it do not hold it.                 *)
EXTENDS Integers, FiniteSets, Sequences

CONSTANTS Adapters,
          MaxWnFaults,     \* bound on failing calls and crashes
          MaxWnEdits       \* bound on changes made outside of the program

ASSUME WnConstants == IsFiniteSet(Adapters) /\ MaxWnFaults \in Nat /\ MaxWnEdits \in Nat

WnSlots == Adapters \X {"ipv4", "ipv6"}

(* The servers of a slot: what the system had, the loopback address alone,  *)
(* or servers that the user or the fallback of a restore has set.           *)
WnServers == {"own", "local", "other"}

VARIABLES wnServers,    \* slot -> the servers set
          wnConnected,  \* the adapters active_physical_adapters returns
          wnBackup,     \* {} or the backup file: {a function from the recorded slots}
          wnOp,         \* {} or the operation that holds the lock
          wnChecked,    \* calls that have passed their check and go on
          wnServing,    \* the configuration: enabled, port 53, on both loopbacks
          wnUp,
          wnTaken,      \* history: slots the program has pointed to itself
          wnOriginal,   \* history: what a slot had before that
          wnStuck,      \* history: slots that a failed undo has left
          wnFaults, wnEdits

wnHistory == <<wnTaken, wnOriginal, wnStuck>>
wnVars == <<wnServers, wnConnected, wnBackup, wnOp, wnChecked, wnServing, wnUp, wnHistory,
            wnFaults, wnEdits>>

WnOpNames == {"takeover", "restore", "uninstall", "fallback", "replace"}

WnInit ==
    /\ wnServers = [s \in WnSlots |-> "own"]
    /\ wnConnected = Adapters
    /\ wnBackup = {} /\ wnOp = {} /\ wnChecked = {}
    /\ wnServing = TRUE /\ wnUp = TRUE
    /\ wnTaken = {} /\ wnOriginal = wnServers /\ wnStuck = {}
    /\ wnFaults = MaxWnFaults /\ wnEdits = MaxWnEdits

(* system_dns_is_managed, read without the lock; a file that cannot be read *)
(* counts as managed.                                                       *)
WnManaged == \E b \in wnBackup :
                \E s \in DOMAIN b \cup (wnConnected \X {"ipv4", "ipv6"}) : wnServers[s] = "local"

(* validate_system_dns_config, of the configuration saved or to be saved. *)
WnFit(serving) == serving

(* The orders in which the loops may go through the slots: the adapters as  *)
(* the system lists them, and the IPv4 setting of each before the IPv6 one. *)
WnOrders(slots) ==
    {q \in [1..Cardinality(slots) -> slots] :
       /\ \A i, j \in DOMAIN q : i # j => q[i] # q[j]
       /\ \A i, j \in DOMAIN q : i < j /\ q[i][1] = q[j][1] => q[i][2] = "ipv4"
       /\ \A i, j, k \in DOMAIN q : i < j /\ j < k /\ q[i][1] = q[k][1] => q[j][1] = q[i][1]}

WnOk == UNCHANGED <<wnFaults, wnEdits>>
WnFail == wnFaults > 0 /\ wnFaults' = wnFaults - 1 /\ UNCHANGED wnEdits
WnThe == CHOOSE o \in wnOp : TRUE
WnAt(names, step) == \E o \in wnOp : o.name \in names /\ o.step = step
WnBegin(name, slots) ==
    \E todo \in WnOrders(slots) :
       wnOp' = {[name |-> name, step |-> "work", todo |-> todo, changes |-> <<>>,
                 before |-> wnBackup, errors |-> FALSE]}
WnStay == UNCHANGED <<wnConnected, wnServing, wnUp>>

(* set_dns_settings; "mine" says that the loopback address is set, or set   *)
(* again, by the program and was not by the user, "stuck" that a failed     *)
(* undo had left the slot so.                                               *)
WnSet(s, v, mine, stuck) ==
    /\ wnServers' = [wnServers EXCEPT ![s] = v]
    /\ wnTaken' = IF mine THEN wnTaken \cup {s} ELSE wnTaken \ {s}
    /\ wnOriginal' = IF v = "local" /\ WnThe.name = "takeover"
                       THEN [wnOriginal EXCEPT ![s] = wnServers[s]] ELSE wnOriginal
    /\ wnStuck' = IF stuck THEN wnStuck \cup {s} ELSE wnStuck \ {s}

------------------------------------------------------------------------------
(* validate_system_dns_takeover looks at the configuration before the lock. *)
WnCheckTakeOver ==
    /\ wnUp /\ WnFit(wnServing)
    /\ wnChecked' = wnChecked \cup {"takeover"}
    /\ WnOk /\ WnStay /\ UNCHANGED <<wnServers, wnBackup, wnOp, wnHistory>>

WnActive == wnConnected \X {"ipv4", "ipv6"}
WnRecordedSlots == UNION {DOMAIN b : b \in wnBackup}

(* merge_takeover_backup: a slot that points to the program keeps its entry. *)
WnMerged(old) ==
    [s \in DOMAIN old \cup WnActive |->
       IF s \in WnActive /\ ~ (s \in DOMAIN old /\ wnServers[s] = "local") THEN wnServers[s] ELSE old[s]]

(* Mutant: only an adapter that is recorded already is looked at. *)
WnRefusedIfRecorded(new) ==
    wnConnected = {} \/ \E s \in WnActive \cap WnRecordedSlots : new[s] = "local"

(* No adapter is connected, or the backup would hold the loopback address.  *)
WnRefused(new) == wnConnected = {} \/ \E s \in WnActive : new[s] = "local"

(* take_over_system_dns up to write_backup. *)
WnTakeOver ==
    /\ wnUp /\ wnOp = {} /\ "takeover" \in wnChecked
    /\ wnChecked' = wnChecked \ {"takeover"}
    /\ LET old == IF wnBackup = {} THEN <<>> ELSE CHOOSE b \in wnBackup : TRUE
           new == WnMerged(old)
           slots == {s \in WnActive : wnServers[s] # "local"}
       IN \/ ~ WnRefused(new) /\ wnBackup' = {new} /\ WnBegin("takeover", slots) /\ WnOk
          \/ WnRefused(new) /\ UNCHANGED <<wnBackup, wnOp>> /\ WnOk
          \/ UNCHANGED <<wnBackup, wnOp>> /\ WnFail
    /\ WnStay /\ UNCHANGED <<wnServers, wnHistory>>

(* replace_unmanaged_local_dns: only without a backup. *)
WnReplaceUnmanaged ==
    /\ wnUp /\ wnOp = {} /\ wnBackup = {}
    /\ LET slots == {s \in WnActive : wnServers[s] = "local"}
       IN slots # {} /\ WnBegin("replace", slots)
    /\ WnOk /\ WnStay /\ UNCHANGED <<wnServers, wnBackup, wnChecked, wnHistory>>

(* restore_system_dns_with_fallback *)
WnFallback ==
    /\ wnUp /\ wnOp = {} /\ wnBackup # {}
    /\ WnBegin("fallback", WnRecordedSlots)
    /\ WnOk /\ WnStay /\ UNCHANGED <<wnServers, wnBackup, wnChecked, wnHistory>>

(* Mutant: the backup goes before the settings are back. *)
WnAbandonForgets ==
    /\ wnOp' = {[o EXCEPT !.step = "undo"] : o \in wnOp}
    /\ wnBackup' = (IF WnThe.name = "takeover" THEN WnThe.before ELSE wnBackup)
    /\ WnFail /\ UNCHANGED <<wnServers, wnHistory>>

(* A change that fails starts the undo. *)
WnAbandon ==
    /\ wnOp' = {[o EXCEPT !.step = "undo"] : o \in wnOp}
    /\ WnFail /\ UNCHANGED <<wnServers, wnBackup, wnHistory>>

(* The next change of one of the three. *)
WnChange ==
    /\ WnAt({"takeover", "fallback", "replace"}, "work") /\ WnThe.todo # <<>>
    /\ LET s == Head(WnThe.todo)
           v == IF WnThe.name = "takeover" THEN "local" ELSE "other"
       IN \/ /\ WnSet(s, v, v = "local", FALSE) /\ WnOk /\ UNCHANGED wnBackup
             /\ wnOp' = {[o EXCEPT !.todo = Tail(@),
                                   !.changes = Append(@, [slot |-> s, servers |-> wnServers[s],
                                                          taken |-> s \in wnTaken, stuck |-> s \in wnStuck])]
                           : o \in wnOp}
          \/ WnAbandon
    /\ WnStay /\ UNCHANGED wnChecked

(* rollback_changes: last change first, errors are only reported. *)
WnUndo ==
    /\ WnAt({"takeover", "fallback", "replace"}, "undo") /\ WnThe.changes # <<>>
    /\ LET c == WnThe.changes[Len(WnThe.changes)]
       IN \/ WnSet(c.slot, c.servers, c.taken, c.stuck) /\ WnOk
          \/ UNCHANGED <<wnServers, wnTaken, wnOriginal>> /\ wnStuck' = wnStuck \cup {c.slot} /\ WnFail
    /\ wnOp' = {[o EXCEPT !.changes = SubSeq(@, 1, Len(@) - 1)] : o \in wnOp}
    /\ WnStay /\ UNCHANGED <<wnBackup, wnChecked>>

(* A failed takeover puts the backup back that was there before. *)
WnUndone ==
    /\ WnAt({"takeover", "fallback", "replace"}, "undo") /\ WnThe.changes = <<>>
    /\ wnOp' = {}
    /\ \/ wnBackup' = (IF WnThe.name = "takeover" THEN WnThe.before ELSE wnBackup) /\ WnOk
       \/ WnThe.name = "takeover" /\ WnFail /\ UNCHANGED wnBackup
    /\ WnStay /\ UNCHANGED <<wnServers, wnChecked, wnHistory>>

(* Everything is set; the fallback then drops the backup. *)
WnChanged ==
    /\ WnAt({"takeover", "fallback", "replace"}, "work") /\ WnThe.todo = <<>>
    /\ wnOp' = {}
    /\ \/ wnBackup' = (IF WnThe.name = "fallback" THEN {} ELSE wnBackup) /\ WnOk
       \/ WnThe.name = "fallback" /\ WnFail /\ UNCHANGED wnBackup
    /\ WnStay /\ UNCHANGED <<wnServers, wnChecked, wnHistory>>

------------------------------------------------------------------------------
(* restore_system_dns by the user, and restore_system_dns_if_managed before *)
(* the service is uninstalled; the latter is another process, and the model *)
(* does not let it run inside an operation of the service.                  *)
WnRestore(name) ==
    /\ wnUp /\ wnOp = {}
    /\ wnBackup # {}
    /\ WnBegin(name, WnRecordedSlots)
    /\ WnOk /\ WnStay /\ UNCHANGED <<wnServers, wnBackup, wnChecked, wnHistory>>

(* Mutant: the user's own servers are overwritten by the backup. *)
WnRestoredServersAlways(b, s) == b[s]

(* should_restore_original: what the user has set in the meantime stays. *)
WnRestoredServers(b, s) == IF wnServers[s] = "local" THEN b[s] ELSE wnServers[s]

WnRestoreSlot ==
    /\ WnAt({"restore", "uninstall"}, "work") /\ WnThe.todo # <<>>
    /\ LET s == Head(WnThe.todo)
       IN \E b \in wnBackup :
             \/ /\ IF WnRestoredServers(b, s) = wnServers[s]
                     THEN UNCHANGED <<wnServers, wnHistory>>
                     ELSE WnSet(s, WnRestoredServers(b, s), FALSE, FALSE)
                /\ wnOp' = {[o EXCEPT !.todo = Tail(@)] : o \in wnOp} /\ WnOk
             \/ /\ wnOp' = {[o EXCEPT !.todo = Tail(@), !.errors = TRUE] : o \in wnOp}
                /\ WnFail /\ UNCHANGED <<wnServers, wnHistory>>
    /\ WnStay /\ UNCHANGED <<wnBackup, wnChecked>>

(* Mutant: the backup is removed whatever came back. *)
WnRestoreDoneAlways(o) == TRUE

(* With an error the backup stays for the next attempt. *)
WnRestoreDone(o) == ~ o.errors

(* The end of a restore; the uninstaller goes on only after a success. *)
WnRestored ==
    /\ WnAt({"restore", "uninstall"}, "work") /\ WnThe.todo = <<>>
    /\ wnOp' = {}
    /\ \/ /\ WnRestoreDone(WnThe) /\ wnBackup' = {} /\ WnOk
          /\ wnUp' = (WnThe.name # "uninstall")
       \/ ~ WnRestoreDone(WnThe) /\ UNCHANGED <<wnBackup, wnUp>> /\ WnOk
       \/ WnRestoreDone(WnThe) /\ UNCHANGED <<wnBackup, wnUp>> /\ WnFail
    /\ wnChecked' = IF wnUp' THEN wnChecked ELSE {}
    /\ UNCHANGED <<wnServers, wnConnected, wnServing, wnHistory>>

------------------------------------------------------------------------------
(* save_config and stop_dns: the check, and later the save. *)
WnCheckSave ==
    /\ wnUp
    /\ \E serving \in BOOLEAN :
          /\ WnManaged => WnFit(serving)
          /\ wnChecked' = wnChecked \cup {IF serving THEN "serve" ELSE "stop"}
    /\ WnOk /\ WnStay /\ UNCHANGED <<wnServers, wnBackup, wnOp, wnHistory>>

WnSave ==
    /\ wnUp
    /\ \E c \in wnChecked \ {"takeover"} : wnServing' = (c = "serve") /\ wnChecked' = wnChecked \ {c}
    /\ WnOk /\ UNCHANGED <<wnServers, wnConnected, wnBackup, wnOp, wnUp, wnHistory>>

WnCrash ==
    /\ wnUp /\ wnUp' = FALSE /\ wnOp' = {} /\ wnChecked' = {}
    /\ WnFail /\ UNCHANGED <<wnServers, wnConnected, wnBackup, wnServing, wnHistory>>

WnStart ==
    /\ ~ wnUp /\ wnUp' = TRUE
    /\ WnOk /\ UNCHANGED <<wnServers, wnConnected, wnBackup, wnOp, wnChecked, wnServing, wnHistory>>

(* The user sets the servers of an adapter, or plugs it in or out. *)
WnEdit ==
    /\ wnOp = {} /\ wnEdits > 0 /\ wnEdits' = wnEdits - 1
    /\ \/ /\ \E s \in WnSlots, v \in {"local", "other"} :
                /\ wnServers[s] # v /\ wnServers' = [wnServers EXCEPT ![s] = v]
                /\ wnTaken' = wnTaken \ {s} /\ wnStuck' = wnStuck \ {s}
          /\ UNCHANGED <<wnConnected, wnOriginal>>
       \/ /\ \E a \in Adapters : wnConnected' = (wnConnected \ {a}) \cup ({a} \ wnConnected)
          /\ UNCHANGED <<wnServers, wnHistory>>
    /\ UNCHANGED <<wnBackup, wnOp, wnChecked, wnServing, wnUp, wnFaults>>

WnNext ==
    \/ WnCheckTakeOver \/ WnTakeOver \/ WnReplaceUnmanaged \/ WnFallback \/ WnChange \/ WnUndo
    \/ WnUndone \/ WnChanged \/ WnRestore("restore") \/ WnRestore("uninstall") \/ WnRestoreSlot
    \/ WnRestored \/ WnCheckSave \/ WnSave \/ WnCrash \/ WnStart \/ WnEdit

WnSpec == WnInit /\ [][WnNext]_wnVars

------------------------------------------------------------------------------
(* The variables keep their types, a call in progress belongs to a running  *)
(* service, and the backup file never holds the loopback address.           *)
WnTypeOK ==
    /\ wnServers \in [WnSlots -> WnServers] /\ wnConnected \subseteq Adapters
    /\ Cardinality(wnBackup) <= 1
    /\ \A b \in wnBackup : DOMAIN b \subseteq WnSlots /\ \A s \in DOMAIN b : b[s] \in {"own", "other"}
    /\ Cardinality(wnOp) <= 1 /\ \A o \in wnOp : o.name \in WnOpNames
    /\ wnChecked \subseteq {"takeover", "serve", "stop"}
    /\ wnOp # {} \/ wnChecked # {} => wnUp
    /\ wnTaken \cup wnStuck \subseteq WnSlots
    /\ wnFaults \in 0..MaxWnFaults /\ wnEdits \in 0..MaxWnEdits

WnJournalView == INSTANCE TakeoverJournal
                 WITH Items <- WnSlots,
                      replaced <- wnTaken \ wnStuck,
                      recorded <- {s \in WnRecordedSlots : \E b \in wnBackup :
                                      \/ b[s] = wnOriginal[s]
                                      \/ s \notin wnTaken /\ b[s] = wnServers[s]}

(* At every step of every operation, after any failing call and any crash,  *)
(* what a slot had is in the backup as long as the slot points to the       *)
(* program; the slots that a failed undo has left are the exception that    *)
(* the code makes.                                                          *)
WnJournalled == WnJournalView!Spec

(* A restore puts back what the slot had, and touches no servers that the   *)
(* user has set since.                                                      *)
WnUserServersKept ==
    [][\A s \in WnSlots : wnServers'[s] # wnServers[s] /\ WnAt({"restore", "uninstall"}, "work")
          => wnServers[s] = "local" /\ (s \in wnTaken \ wnStuck => wnServers'[s] = wnOriginal[s])]_wnVars

(* The uninstaller leaves no slot that the program has taken over.          *)
WnUninstallRestores ==
    [][WnAt({"uninstall"}, "work") /\ wnOp' = {} /\ wnBackup' = {} => wnTaken' \subseteq wnStuck']_wnVars

(* While the adapters point to the program its configuration is one that    *)
(* serves them; the errors of save_config and stop_dns promise it.          *)
WnManagedServes == WnManaged /\ wnOp = {} /\ wnChecked = {} /\ wnStuck = {} => WnFit(wnServing)
=============================================================================
