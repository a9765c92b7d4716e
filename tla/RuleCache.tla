----------------------------- MODULE RuleCache -----------------------------
(* rule_cache.rs: the compiled rules are found again in memory, in a file    *)
(* that a background thread writes, or are compiled; what is found is keyed  *)
(* by fingerprints of the lists and of the custom rules.  Loads, list        *)
(* changes and clearing happen under the runtime lock; the threads that      *)
(* write the file do not take it.  A fingerprint is what it hashes, compiled *)
(* rules are the texts they were compiled from.                              *)
EXTENDS Integers, FiniteSets

CONSTANTS RcLists,        \* subscriptions
          RcTexts,        \* contents of a list or of the custom rules
          RcBadfilters,   \* those with a badfilter rule (custom_rules_have_badfilter)
          RcNone,         \* a missing file, no custom rules, nothing remembered
          RcThreads,      \* background threads that may be writing
          MaxRcSteps,     \* bound on changes of files and configuration
          MaxRcFaults     \* bound on crashes and failed writes

ASSUME RcConstants == RcNone \notin RcTexts /\ RcBadfilters \subseteq RcTexts /\ IsFiniteSet(RcLists) /\ MaxRcSteps \in Nat

VARIABLES rcFile, rcStamp,        \* the lists and their times of modification
          rcOn, rcCustom,         \* enabled lists; custom rules
          rcServed,               \* the rules in use
          rcActive, rcRemote,     \* ACTIVE_RULES, ACTIVE_REMOTE_RULES
          rcPrint,                \* REMOTE_FINGERPRINT_CACHE
          rcLatest,               \* LATEST_CACHE_FINGERPRINT
          rcDisk, rcTemp,         \* the file and the temporary ones
          rcThread,               \* the background threads
          rcClearing,             \* clear_rule_cache between its two halves
          rcSteps, rcFaults

rcStatics == <<rcActive, rcRemote, rcPrint>>
rcWorld == <<rcFile, rcStamp, rcOn, rcCustom, rcSteps>>
rcFiles == <<rcDisk, rcTemp>>
rcVars == <<rcWorld, rcServed, rcStatics, rcLatest, rcFiles, rcThread, rcClearing, rcFaults>>

RcIdle == [at |-> "idle", print |-> RcNone, rules |-> RcNone]

RcInit ==
    /\ rcFile = [l \in RcLists |-> RcNone] /\ rcStamp = [l \in RcLists |-> 0]
    /\ rcOn = RcLists /\ rcCustom = RcNone /\ rcServed = RcNone
    /\ rcActive = RcNone /\ rcRemote = RcNone /\ rcPrint = RcNone /\ rcLatest = RcNone
    /\ rcDisk = RcNone /\ rcTemp = [t \in RcThreads |-> RcNone]
    /\ rcThread = [t \in RcThreads |-> RcIdle] /\ rcClearing = FALSE
    /\ rcSteps = 0 /\ rcFaults = 0

------------------------------------------------------------------------------
(* build_remote_rules: the enabled lists that are there, in order. *)
RcLinesOf == [l \in rcOn |-> rcFile[l]]

(* build_effective_rules; compile_rules of a text *)
RcCompiled(lists, custom) == [lists |-> lists, custom |-> custom]

(* Mutant: the time of modification is left out. *)
RcManifestNoTime == [l \in rcOn |-> rcFile[l] # RcNone]

(* remote_rules_manifest: what the file system says of each enabled list;    *)
(* all contents have the same length.                                        *)
RcManifest == [l \in rcOn |-> IF rcFile[l] = RcNone THEN 0 ELSE rcStamp[l]]

(* remote_rules_fingerprint: hashed only when the manifest has changed. *)
RcRemotePrint ==
    IF rcPrint # RcNone /\ rcPrint.manifest = RcManifest THEN rcPrint.print ELSE RcLinesOf

(* Mutant: the custom rules are left out. *)
RcEffectivePrintOfLists(remote) == RcCompiled(remote, RcNone)

(* effective_rules_fingerprint *)
RcEffectivePrint(remote) == RcCompiled(remote, rcCustom)

(* A Weak reference leads somewhere while the rules in use, or a thread that *)
(* writes them, hold them.                                                   *)
RcHeld(rules) ==
    \/ rcServed = rules
    \/ /\ rcServed # RcNone /\ rcServed.custom \notin RcBadfilters
       /\ rules = [rcServed EXCEPT !.custom = RcNone]
    \/ \E t \in RcThreads : rcThread[t].rules = rules

(* reuse_active_rules, reuse_remote_rules *)
RcReuse(slot, print) == slot # RcNone /\ slot.print = print /\ RcHeld(slot.rules)

(* load_rule_cache: a file with this format and fingerprint, and readable. *)
RcOnDisk(print) == rcDisk # RcNone /\ rcDisk.whole /\ rcDisk.print = print

------------------------------------------------------------------------------
(* load_or_compile_rules with custom badfilter rules or without.  Reading    *)
(* and writing the file are separate threads' steps; a file that is open     *)
(* stays readable.                                                           *)
RcRemembered(print, rules) == [print |-> print, rules |-> rules]
RcServe(remote, rules) ==
    /\ rcServed' = rules /\ rcLatest' = remote
    /\ rcPrint' = [manifest |-> RcManifest, print |-> remote]
    /\ rcActive' = RcRemembered(RcEffectivePrint(remote), rules)
RcLayered(base) == RcCompiled(base.lists, rcCustom)

RcFromMemory ==
    LET remote == RcRemotePrint IN
    /\ ~rcClearing /\ RcReuse(rcActive, RcEffectivePrint(remote))
    /\ rcServed' = rcActive.rules /\ rcLatest' = remote
    /\ rcPrint' = [manifest |-> RcManifest, print |-> remote]
    /\ UNCHANGED <<rcWorld, rcActive, rcRemote, rcFiles, rcThread, rcClearing, rcFaults>>
RcMissAny(remote) == ~rcClearing /\ ~RcReuse(rcActive, RcEffectivePrint(remote))
RcMiss(remote) == RcMissAny(remote) /\ rcCustom \notin RcBadfilters
RcBadfilter ==
    LET remote == RcRemotePrint IN
    /\ RcMissAny(remote) /\ rcCustom \in RcBadfilters
    /\ RcServe(remote, RcCompiled(RcLinesOf, rcCustom))
    /\ UNCHANGED <<rcWorld, rcRemote, rcFiles, rcThread, rcClearing, rcFaults>>
RcFromRemote ==
    LET remote == RcRemotePrint IN
    /\ RcMiss(remote) /\ RcReuse(rcRemote, remote)
    /\ RcServe(remote, RcLayered(rcRemote.rules))
    /\ UNCHANGED <<rcWorld, rcRemote, rcFiles, rcThread, rcClearing, rcFaults>>
RcFromDisk ==
    LET remote == RcRemotePrint IN
    /\ RcMiss(remote) /\ ~RcReuse(rcRemote, remote) /\ RcOnDisk(remote)
    /\ rcRemote' = RcRemembered(remote, rcDisk.rules)
    /\ RcServe(remote, RcLayered(rcDisk.rules))
    /\ UNCHANGED <<rcWorld, rcFiles, rcThread, rcClearing, rcFaults>>
(* persist_rule_cache starts a thread of its own. *)
RcCompile ==
    LET remote == RcRemotePrint
        rules == RcCompiled(RcLinesOf, RcNone)
    IN /\ RcMiss(remote) /\ ~RcReuse(rcRemote, remote) /\ ~RcOnDisk(remote)
       /\ rcRemote' = RcRemembered(remote, rules)
       /\ RcServe(remote, RcLayered(rules))
       /\ \E t \in RcThreads :
            /\ rcThread[t].at = "idle"
            /\ rcThread' = [rcThread EXCEPT ![t] = [at |-> "write", print |-> remote, rules |-> rules]]
       /\ UNCHANGED <<rcWorld, rcFiles, rcClearing, rcFaults>>

------------------------------------------------------------------------------
(* save_rule_cache: a temporary file, a look at the latest fingerprint, the  *)
(* old file removed, the temporary one renamed.                              *)
RcAt(t, at) == rcThread' = [rcThread EXCEPT ![t].at = at]
RcOver(t) == rcThread' = [rcThread EXCEPT ![t] = RcIdle]
RcFileOf(t, whole) == [print |-> rcThread[t].print, rules |-> rcThread[t].rules, whole |-> whole]
RcCreate(t) ==
    /\ rcThread[t].at = "write" /\ RcAt(t, "sync")
    /\ rcTemp' = [rcTemp EXCEPT ![t] = RcFileOf(t, FALSE)]
    /\ UNCHANGED <<rcWorld, rcServed, rcStatics, rcLatest, rcDisk, rcClearing, rcFaults>>
RcSync(t) ==
    /\ rcThread[t].at = "sync" /\ RcAt(t, "check")
    /\ rcTemp' = [rcTemp EXCEPT ![t] = IF @ = RcNone THEN RcNone ELSE RcFileOf(t, TRUE)]
    /\ UNCHANGED <<rcWorld, rcServed, rcStatics, rcLatest, rcDisk, rcClearing, rcFaults>>
RcCheck(t) ==
    /\ rcThread[t].at = "check"
    /\ IF rcLatest = rcThread[t].print THEN RcAt(t, "remove") /\ UNCHANGED rcTemp
       ELSE RcOver(t) /\ rcTemp' = [rcTemp EXCEPT ![t] = RcNone]
    /\ UNCHANGED <<rcWorld, rcServed, rcStatics, rcLatest, rcDisk, rcClearing, rcFaults>>
RcRemove(t) ==
    /\ rcThread[t].at = "remove" /\ RcAt(t, "rename") /\ rcDisk' = RcNone
    /\ UNCHANGED <<rcWorld, rcServed, rcStatics, rcLatest, rcTemp, rcClearing, rcFaults>>

(* Mutant: the rules are taken from memory, after the file was checked. *)
RcRenamedLatest(t) == [rcTemp[t] EXCEPT !.rules = IF rcRemote = RcNone THEN @ ELSE rcRemote.rules]

(* rename, when the temporary file has not been cleared away *)
RcRenamed(t) == rcTemp[t]
RcRename(t) ==
    /\ rcThread[t].at = "rename" /\ RcOver(t)
    /\ rcDisk' = IF rcTemp[t] = RcNone THEN rcDisk ELSE RcRenamed(t)
    /\ rcTemp' = [rcTemp EXCEPT ![t] = RcNone]
    /\ UNCHANGED <<rcWorld, rcServed, rcStatics, rcLatest, rcClearing, rcFaults>>
(* Any of it may fail: the temporary file is removed. *)
RcWriteFails(t) ==
    /\ rcThread[t].at \in {"write", "sync", "remove", "rename"} /\ rcFaults < MaxRcFaults
    /\ rcFaults' = rcFaults + 1 /\ RcOver(t) /\ rcTemp' = [rcTemp EXCEPT ![t] = RcNone]
    /\ UNCHANGED <<rcWorld, rcServed, rcStatics, rcLatest, rcDisk, rcClearing>>

(* clear_rule_cache: first the statics, then all files. *)
RcForgotten == rcActive' = RcNone /\ rcRemote' = RcNone /\ rcPrint' = RcNone
RcClear ==
    /\ ~rcClearing /\ rcSteps < MaxRcSteps /\ rcSteps' = rcSteps + 1
    /\ rcClearing' = TRUE /\ rcLatest' = RcNone /\ RcForgotten
    /\ UNCHANGED <<rcFile, rcStamp, rcOn, rcCustom, rcServed, rcFiles, rcThread, rcFaults>>
RcClearFiles ==
    /\ rcClearing /\ rcClearing' = FALSE
    /\ rcDisk' = RcNone /\ rcTemp' = [t \in RcThreads |-> RcNone]
    /\ UNCHANGED <<rcWorld, rcServed, rcStatics, rcLatest, rcThread, rcFaults>>

------------------------------------------------------------------------------
(* write_filter_cache, remove_filter_cache: a list is published or restored. *)
RcPublish(l, text) ==
    /\ ~rcClearing /\ rcSteps < MaxRcSteps /\ rcSteps' = rcSteps + 1
    /\ rcFile' = [rcFile EXCEPT ![l] = text] /\ rcStamp' = [rcStamp EXCEPT ![l] = rcSteps + 1]
    /\ UNCHANGED <<rcOn, rcCustom, rcServed, rcStatics, rcLatest, rcFiles, rcThread, rcClearing, rcFaults>>
RcConfigure(on, custom) ==
    /\ ~rcClearing /\ rcSteps < MaxRcSteps /\ rcSteps' = rcSteps + 1
    /\ rcOn' = on /\ rcCustom' = custom
    /\ UNCHANGED <<rcFile, rcStamp, rcServed, rcStatics, rcLatest, rcFiles, rcThread, rcClearing, rcFaults>>
(* The server stops and drops its rules. *)
RcDrop ==
    /\ rcServed # RcNone /\ rcServed' = RcNone
    /\ UNCHANGED <<rcWorld, rcStatics, rcLatest, rcFiles, rcThread, rcClearing, rcFaults>>
RcCrash ==
    /\ rcFaults < MaxRcFaults /\ rcFaults' = rcFaults + 1
    /\ RcForgotten /\ rcServed' = RcNone /\ rcLatest' = RcNone /\ rcClearing' = FALSE
    /\ rcThread' = [t \in RcThreads |-> RcIdle]
    /\ UNCHANGED <<rcWorld, rcFiles>>

RcLoad == RcFromMemory \/ RcBadfilter \/ RcFromRemote \/ RcFromDisk \/ RcCompile
RcNext ==
    \/ RcLoad \/ RcClear \/ RcClearFiles \/ RcDrop \/ RcCrash
    \/ \E t \in RcThreads : RcCreate(t) \/ RcSync(t) \/ RcCheck(t) \/ RcRemove(t) \/ RcRename(t) \/ RcWriteFails(t)
    \/ \E l \in RcLists, text \in RcTexts \cup {RcNone} : RcPublish(l, text)
    \/ \E on \in SUBSET RcLists, custom \in RcTexts \cup {RcNone} : RcConfigure(on, custom)
RcSpec == RcInit /\ [][RcNext]_rcVars

------------------------------------------------------------------------------
(* What is remembered was compiled from what its key says. *)
RcTypeOK ==
    /\ rcActive # RcNone => rcActive.rules = rcActive.print
    /\ rcRemote # RcNone => rcRemote.rules = RcCompiled(rcRemote.print, RcNone)
    /\ rcPrint # RcNone /\ rcPrint.manifest = RcManifest => rcPrint.print = RcLinesOf

(* A readable compiled file holds the rules of the lists its fingerprint     *)
(* names and no custom rule, whatever thread or crash left it, so that a     *)
(* later start may trust it.                                                 *)
RcFileIsTrue == rcDisk # RcNone => rcDisk.whole /\ rcDisk.rules = RcCompiled(rcDisk.print, RcNone)

(* Rules are taken into use only if they are what the lists on disk and the  *)
(* custom rules say at that moment, wherever they were found.                *)
RcServesLists ==
    [][(RcLoad /\ ~rcClearing) => rcServed' = RcCompiled(RcLinesOf, rcCustom)]_rcVars

(* No cached rules, in memory or on disk, are other than those of the lists  *)
(* and custom rules they are used for.                                       *)
RcCacheTrue == [](RcTypeOK /\ RcFileIsTrue) /\ RcServesLists
==============================================================================
