-------------------------- MODULE SystemDnsProofs --------------------------
(* Machine-checked proofs about the takeover of the system's DNS servers,   *)
(* of the Linux resolver and of the adapters of Windows, for every finite   *)
(* set of adapters and every number of faults and of changes by others.     *)
(*                                                                          *)
(* On Linux, what is promised says nothing of the operation under way, so   *)
(* the invariant LnIInv relates its step to the journal and the files.  Its *)
(* heart is LnCovered (what is managed is recorded); the rest carries it    *)
(* through the three steps that could lose it: the journal is overwritten   *)
(* only while no file is managed, a file is replaced only under a pending   *)
(* entry whose originals are current, and the note is dropped only after    *)
(* both files are back.                                                     *)
(*                                                                          *)
(* On Windows, the invariant WnIInv rests on WnCovered: what a held slot    *)
(* had is in the backup.  Two steps could lose it.  The end of a failed     *)
(* takeover puts the backup of before back, so WnOpTakeover says that the   *)
(* slots held by then were held before and their originals are in that      *)
(* backup.  The ends of a restore and of the fallback drop the backup, so   *)
(* WnOpRestores says that a held slot is still to be done.  That a takeover *)
(* records the originals it replaces needs the slots of its loop to be      *)
(* distinct and untouched.                                                  *)
EXTENDS LinuxSystemDns, WindowsSystemDns, FiniteSetTheorems, TLAPS

(* Steps that only a takeover reaches, and those of them at which a file is *)
(* or may have been replaced.                                               *)
LnWriting == {"stop", "write_drop_in", "link", "reload", "port", "start", "commit",
              "undo_port", "undo_drop_in", "undo_link", "undo_reload", "undo_journal"}
LnTakeoverOnly == LnWriting \cup {"check", "journal"}
LnRestoring == {"halt", "put_drop_in", "put_link", "finish"}

LnAtMostOne(S) == \A x, y \in S : x = y

(* LnTypeOK with "at most one" in place of the cardinalities. *)
LnTypes ==
    /\ lnJournal \in SUBSET LnEntries /\ LnAtMostOne(lnJournal)
    /\ lnFiles \in [LnFileNames -> LnContents] /\ lnOriginal \in [LnFileNames -> LnContents]
    /\ lnConfig \in LnConfigs /\ lnPhase \in {"down", "up", "leaving"}
    /\ lnOp \in SUBSET LnOps /\ LnAtMostOne(lnOp)
    /\ \A o \in lnOp : LnUp = (o.name # "offline")
    /\ lnFaults \in 0..MaxLnFaults /\ lnEdits \in 0..MaxLnEdits

LnOriginals == /\ \A f \in LnFileNames : lnOriginal[f] # "managed"
               /\ \A f \in LnFileNames : lnFiles[f] # "managed" => lnFiles[f] = lnOriginal[f]
               /\ \A e \in lnJournal : \A f \in LnFileNames : e.saved[f] # "managed"

(* What is managed is recorded. *)
LnCovered == \A f \in LnFileNames : lnFiles[f] = "managed" =>
                \E e \in lnJournal : e.saved[f] = lnOriginal[f] /\ (e.effective \/ e.pending)

LnOpNamed == \A o \in lnOp : o.step \in LnTakeoverOnly => o.name = "takeover"

LnOpRecorded == \A o \in lnOp :
    /\ o.step \in LnWriting => \E e \in lnJournal : e.pending /\ e.saved = lnOriginal
    /\ o.step = "begin" => lnJournal # {}
    /\ o.step \in LnRestoring => \E e \in lnJournal : e.pending

(* The files that are back where the operation says they are. *)
LnOpRestored == \A o \in lnOp :
    /\ o.step \in {"undo_link", "put_link"} => lnFiles["drop_in"] # "managed"
    /\ \/ o.step \in {"journal", "undo_reload", "finish"}
       \/ o.step = "undo_journal" /\ ~ o.failed
       => \A f \in LnFileNames : lnFiles[f] # "managed"

LnOpServes == \A o \in lnOp :
    /\ o.name = "takeover" => lnConfig.fit
    /\ o.step \in {"start", "commit"} => lnConfig.port53
    /\ o.step = "commit" => lnConfig.enabled

LnIInv == /\ LnTypes /\ LnOriginals /\ LnCovered
          /\ LnOpNamed /\ LnOpRecorded /\ LnOpRestored /\ LnOpServes /\ LnManagedServes

USE DEF LnFileNames, LnContents, LnFit

------------------------------------------------------------------------------
(* A set with at most one element counts at most one.                       *)
LEMMA LnAtMostOneCounts ==
  ASSUME NEW S, LnAtMostOne(S)
  PROVE  Cardinality(S) <= 1
<1>1. CASE S = {}
  BY <1>1, FS_EmptySet
<1>2. CASE S # {}
  <2>1. PICK x \in S : S = {x}
    BY <1>2 DEF LnAtMostOne
  <2> QED
    BY <2>1, FS_Singleton
<1> QED
  BY <1>1, <1>2

(* The operation at a step is the only one there is.                        *)
LEMMA LnOperation ==
  ASSUME LnTypes, NEW s, LnAt(s)
  PROVE  \E o \in LnOps : lnOp = {o} /\ o.step = s /\ LnThe = o
BY DEF LnTypes, LnAtMostOne, LnAt, LnThe

(* The journal has one entry, if it has any.                                *)
LEMMA LnOneEntry ==
  ASSUME LnTypes, lnJournal # {}
  PROVE  \E e \in LnEntries : lnJournal = {e}
BY DEF LnTypes, LnAtMostOne

(* A step uses up at most one fault and changes no other budget.            *)
LEMMA LnBudgets ==
  ASSUME LnTypes, LnOk \/ LnFail
  PROVE  lnFaults' \in 0..MaxLnFaults /\ lnEdits' \in 0..MaxLnEdits
BY LnConstants DEF LnTypes, LnOk, LnFail

(* The takeover starts where the journal and the files allow it: its first  *)
(* write needs files of which none is managed.                              *)
LEMMA LnFirstStepSound ==
  ASSUME LnTypes, LnCovered, LnFirstStep # "refused"
  PROVE  /\ LnFirstStep \in {"begin", "check", "journal"}
         /\ lnConfig.fit
         /\ LnFirstStep = "begin" => lnJournal # {}
         /\ LnFirstStep = "journal" => \A f \in LnFileNames : lnFiles[f] # "managed"
<1>1. lnConfig.fit
  BY DEF LnFirstStep
<1>2. CASE \E e \in lnJournal : e.pending
  BY <1>1, <1>2 DEF LnFirstStep
<1>3. CASE ~ \E e \in lnJournal : e.pending
  BY <1>1, <1>3 DEF LnFirstStep, LnCovered
<1> QED
  BY <1>2, <1>3

(* The invariant holds before the first operation.                          *)
LEMMA LnInitial == LnInit => LnIInv
BY LnConstants DEF LnInit, LnIInv, LnTypes, LnAtMostOne, LnOriginals, LnCovered, LnOpNamed,
   LnOpRecorded, LnOpRestored, LnOpServes, LnManagedServes, LnConfigs, LnEntries, LnOps

(* Starting the DNS again changes the configuration towards serving only.   *)
LEMMA LnStartAgainKeeps == LnIInv /\ LnStartAgain => LnIInv'
<1> SUFFICES ASSUME LnIInv, LnStartAgain PROVE LnIInv'
  OBVIOUS
<1> USE DEF LnIInv
<1>1. PICK o \in LnOps : lnOp = {o} /\ o.step = "check" /\ LnThe = o
  BY LnOperation DEF LnStartAgain
<1>2. lnOp' = {}
  BY <1>1 DEF LnStartAgain, LnEnd, LnOk, LnOps
<1>3. lnFaults' \in 0..MaxLnFaults /\ lnEdits' \in 0..MaxLnEdits
  BY LnBudgets DEF LnStartAgain
<1>4. LnTypes'
  BY <1>1, <1>2, <1>3 DEF LnTypes, LnAtMostOne, LnEntries, LnConfigs, LnOps,
     LnSteps, LnUp, LnStartAgain, LnEnd, LnOk
<1>5. LnOriginals' /\ LnCovered' /\ LnOpRecorded' /\ LnOpRestored'
  BY <1>1, <1>2 DEF LnTypes, LnOps, LnEntries, LnOriginals, LnCovered, LnOpRecorded,
     LnOpRestored, LnWriting, LnRestoring, LnStartAgain, LnEnd, LnOk
<1>6. LnOpNamed' /\ LnOpServes' /\ LnManagedServes'
  BY <1>1, <1>2 DEF LnTypes, LnOps, LnEntries, LnConfigs, LnOpNamed, LnOpRecorded,
     LnOpServes, LnManagedServes, LnWriting, LnTakeoverOnly, LnRestoring,
     LnStartAgain, LnEnd, LnOk
<1> QED
  BY <1>4, <1>5, <1>6

(* The originals are journalled from files of which none is managed.        *)
LEMMA LnJournalOriginalsKeeps == LnIInv /\ LnJournalOriginals => LnIInv'
<1> SUFFICES ASSUME LnIInv, LnJournalOriginals PROVE LnIInv'
  OBVIOUS
<1> USE DEF LnIInv
<1>1. PICK o \in LnOps : lnOp = {o} /\ o.step = "journal" /\ LnThe = o
  BY LnOperation DEF LnJournalOriginals
<1>2. lnOp' = {[o EXCEPT !.step = "stop"]}
  BY <1>1 DEF LnJournalOriginals, LnOk, LnStay, LnGo, LnWrite, LnOps
<1>3. lnFaults' \in 0..MaxLnFaults /\ lnEdits' \in 0..MaxLnEdits
  BY LnBudgets DEF LnJournalOriginals
<1>4. LnTypes'
  BY <1>1, <1>2, <1>3 DEF LnTypes, LnAtMostOne, LnEntries, LnConfigs, LnOps,
     LnSteps, LnUp, LnJournalOriginals, LnOk, LnStay, LnGo, LnWrite
<1>5. LnOriginals' /\ LnCovered' /\ LnOpRecorded' /\ LnOpRestored'
  BY <1>1, <1>2 DEF LnTypes, LnOps, LnEntries, LnOriginals, LnCovered, LnOpRecorded,
     LnOpRestored, LnWriting, LnRestoring, LnJournalOriginals, LnOk, LnStay, LnGo,
     LnWrite
<1>6. LnOpNamed' /\ LnOpServes' /\ LnManagedServes'
  BY <1>1, <1>2 DEF LnTypes, LnOps, LnEntries, LnConfigs, LnOpNamed, LnOpRecorded,
     LnOpServes, LnManagedServes, LnWriting, LnTakeoverOnly, LnRestoring,
     LnJournalOriginals, LnOk, LnStay, LnGo, LnWrite
<1> QED
  BY <1>4, <1>5, <1>6

(* A step of an operation that leaves the originals and the phase alone     *)
(* keeps the types when what it writes has one.                             *)
LEMMA LnStepTypes ==
    ASSUME LnTypes, NEW o \in LnOps, lnOp = {o}, NEW p \in LnOps, lnOp' = {p}, p.name = o.name,
           lnConfig' \in LnConfigs, UNCHANGED <<lnJournal, lnFiles>>, LnStay,
           lnFaults' \in 0..MaxLnFaults, lnEdits' \in 0..MaxLnEdits
    PROVE  LnTypes'
<1>1. lnOp' \in SUBSET LnOps /\ LnAtMostOne(lnOp)'
  BY DEF LnAtMostOne
<1>2. \A q \in lnOp' : LnUp' = (q.name # "offline")
  BY DEF LnTypes, LnUp, LnStay
<1>3. LnAtMostOne(lnJournal)'
  BY DEF LnTypes, LnAtMostOne
<1> QED
  BY <1>1, <1>2, <1>3 DEF LnTypes, LnStay

(* The DNS is stopped under a pending entry.                                *)
LEMMA LnStopDnsKeeps == LnIInv /\ LnStopDns => LnIInv'
<1> SUFFICES ASSUME LnIInv, LnStopDns PROVE LnIInv'
  OBVIOUS
<1> USE DEF LnIInv
<1>1. PICK o \in LnOps : lnOp = {o} /\ o.step = "stop" /\ LnThe = o
  BY LnOperation DEF LnStopDns
<1>2. lnOp' = {[o EXCEPT !.step = "write_drop_in"]}
  BY <1>1 DEF LnStopDns, LnOk, LnStay, LnGo, LnOps
<1>3. PICK e \in LnEntries : lnJournal = {e} /\ e.pending
  BY <1>1, LnOneEntry DEF LnOpRecorded, LnWriting, LnRestoring
<1>4. lnFaults' \in 0..MaxLnFaults /\ lnEdits' \in 0..MaxLnEdits
  BY LnBudgets DEF LnStopDns
<1>5. LnTypes'
  <2>1. [o EXCEPT !.step = "write_drop_in"] \in LnOps /\ [o EXCEPT !.step = "write_drop_in"].name = o.name
    BY DEF LnOps, LnSteps
  <2>2. lnConfig' \in LnConfigs /\ UNCHANGED <<lnJournal, lnFiles>> /\ LnStay
    BY DEF LnTypes, LnConfigs, LnStopDns
  <2> QED
    BY <1>1, <1>2, <1>4, <2>1, <2>2, LnStepTypes
<1>6. LnOriginals' /\ LnCovered' /\ LnOpRecorded' /\ LnOpRestored'
  BY <1>1, <1>2, <1>3 DEF LnTypes, LnOps, LnEntries, LnOriginals, LnCovered,
     LnOpRecorded, LnOpRestored, LnWriting, LnRestoring, LnStopDns, LnOk, LnStay,
     LnGo
<1>7. LnOpNamed' /\ LnOpServes' /\ LnManagedServes'
  BY <1>1, <1>2, <1>3 DEF LnTypes, LnOps, LnEntries, LnConfigs, LnOpNamed,
     LnOpRecorded, LnOpServes, LnManagedServes, LnWriting, LnTakeoverOnly,
     LnRestoring, LnStopDns, LnOk, LnStay, LnGo
<1> QED
  BY <1>5, <1>6, <1>7

(* The drop-in is replaced under a pending entry that holds its original.   *)
LEMMA LnWriteDropInKeeps == LnIInv /\ LnWriteDropIn => LnIInv'
<1> SUFFICES ASSUME LnIInv, LnWriteDropIn PROVE LnIInv'
  OBVIOUS
<1> USE DEF LnIInv
<1>1. PICK o \in LnOps : lnOp = {o} /\ o.step = "write_drop_in" /\ LnThe = o
  BY LnOperation DEF LnWriteDropIn
<1>2. lnOp' = {[o EXCEPT !.step = "link"]}
  BY <1>1 DEF LnWriteDropIn, LnOk, LnStay, LnGo, LnOps
<1>3. lnFaults' \in 0..MaxLnFaults /\ lnEdits' \in 0..MaxLnEdits
  BY LnBudgets DEF LnWriteDropIn
<1>4. LnTypes'
  BY <1>1, <1>2, <1>3 DEF LnTypes, LnAtMostOne, LnEntries, LnConfigs, LnOps,
     LnSteps, LnUp, LnWriteDropIn, LnOk, LnStay, LnGo
<1>5. LnOriginals' /\ LnCovered' /\ LnOpRecorded' /\ LnOpRestored'
  BY <1>1, <1>2 DEF LnTypes, LnOps, LnEntries, LnOriginals, LnCovered, LnOpRecorded,
     LnOpRestored, LnWriting, LnRestoring, LnWriteDropIn, LnOk, LnStay, LnGo
<1>6. LnOpNamed' /\ LnOpServes' /\ LnManagedServes'
  BY <1>1, <1>2 DEF LnTypes, LnOps, LnEntries, LnConfigs, LnOpNamed, LnOpRecorded,
     LnOpServes, LnManagedServes, LnWriting, LnTakeoverOnly, LnRestoring,
     LnWriteDropIn, LnOk, LnStay, LnGo
<1> QED
  BY <1>4, <1>5, <1>6

(* The link is replaced under a pending entry that holds its original.      *)
LEMMA LnLinkKeeps == LnIInv /\ LnLink => LnIInv'
<1> SUFFICES ASSUME LnIInv, LnLink PROVE LnIInv'
  OBVIOUS
<1> USE DEF LnIInv
<1>1. PICK o \in LnOps : lnOp = {o} /\ o.step = "link" /\ LnThe = o
  BY LnOperation DEF LnLink
<1>2. lnOp' = {[o EXCEPT !.step = "reload"]}
  BY <1>1 DEF LnLink, LnOk, LnStay, LnGo, LnOps
<1>3. lnFaults' \in 0..MaxLnFaults /\ lnEdits' \in 0..MaxLnEdits
  BY LnBudgets DEF LnLink
<1>4. LnTypes'
  BY <1>1, <1>2, <1>3 DEF LnTypes, LnAtMostOne, LnEntries, LnConfigs, LnOps,
     LnSteps, LnUp, LnLink, LnOk, LnStay, LnGo
<1>5. LnOriginals' /\ LnCovered' /\ LnOpRecorded' /\ LnOpRestored'
  BY <1>1, <1>2 DEF LnTypes, LnOps, LnEntries, LnOriginals, LnCovered, LnOpRecorded,
     LnOpRestored, LnWriting, LnRestoring, LnLink, LnOk, LnStay, LnGo
<1>6. LnOpNamed' /\ LnOpServes' /\ LnManagedServes'
  BY <1>1, <1>2 DEF LnTypes, LnOps, LnEntries, LnConfigs, LnOpNamed, LnOpRecorded,
     LnOpServes, LnManagedServes, LnWriting, LnTakeoverOnly, LnRestoring, LnLink,
     LnOk, LnStay, LnGo
<1> QED
  BY <1>4, <1>5, <1>6

(* Restarting resolved changes nothing of this.                             *)
LEMMA LnReloadKeeps == LnIInv /\ LnReload => LnIInv'
<1> SUFFICES ASSUME LnIInv, LnReload PROVE LnIInv'
  OBVIOUS
<1> USE DEF LnIInv
<1>1. PICK o \in LnOps : lnOp = {o} /\ o.step = "reload" /\ LnThe = o
  BY LnOperation DEF LnReload
<1>2. lnOp' = {[o EXCEPT !.step = "port"]}
  BY <1>1 DEF LnReload, LnOk, LnStay, LnGo, LnOps
<1>3. lnFaults' \in 0..MaxLnFaults /\ lnEdits' \in 0..MaxLnEdits
  BY LnBudgets DEF LnReload
<1>4. LnTypes'
  BY <1>1, <1>2, <1>3 DEF LnTypes, LnAtMostOne, LnEntries, LnConfigs, LnOps,
     LnSteps, LnUp, LnReload, LnOk, LnStay, LnGo
<1>5. LnOriginals' /\ LnCovered' /\ LnOpRecorded' /\ LnOpRestored'
  BY <1>1, <1>2 DEF LnTypes, LnOps, LnEntries, LnOriginals, LnCovered, LnOpRecorded,
     LnOpRestored, LnWriting, LnRestoring, LnReload, LnOk, LnStay, LnGo
<1>6. LnOpNamed' /\ LnOpServes' /\ LnManagedServes'
  BY <1>1, <1>2 DEF LnTypes, LnOps, LnEntries, LnConfigs, LnOpNamed, LnOpRecorded,
     LnOpServes, LnManagedServes, LnWriting, LnTakeoverOnly, LnRestoring, LnReload,
     LnOk, LnStay, LnGo
<1> QED
  BY <1>4, <1>5, <1>6

(* The port is the one the commit asks for.                                 *)
LEMMA LnApplyPortKeeps == LnIInv /\ LnApplyPort => LnIInv'
<1> SUFFICES ASSUME LnIInv, LnApplyPort PROVE LnIInv'
  OBVIOUS
<1> USE DEF LnIInv
<1>1. PICK o \in LnOps : lnOp = {o} /\ o.step = "port" /\ LnThe = o
  BY LnOperation DEF LnApplyPort
<1>2. lnOp' = {[o EXCEPT !.step = "start", !.port = lnConfig.port53]}
  BY <1>1 DEF LnApplyPort, LnOk, LnStay, LnGo, LnTypes, LnConfigs, LnOps
<1>3. lnFaults' \in 0..MaxLnFaults /\ lnEdits' \in 0..MaxLnEdits
  BY LnBudgets DEF LnApplyPort
<1>4. LnTypes'
  <2>1. lnConfig.port53 \in BOOLEAN
    BY DEF LnTypes, LnConfigs
  <2>2. [o EXCEPT !.step = "start", !.port = lnConfig.port53] \in LnOps
    BY <1>1, <2>1 DEF LnOps, LnSteps
  <2>3. [lnConfig EXCEPT !.port53 = TRUE] \in LnConfigs
    BY DEF LnTypes, LnConfigs
  <2>4. [o EXCEPT !.step = "start", !.port = lnConfig.port53].name = o.name
    BY DEF LnOps
  <2>5. lnConfig' \in LnConfigs /\ UNCHANGED <<lnJournal, lnFiles>> /\ LnStay
    BY <2>3 DEF LnApplyPort, LnTypes
  <2> QED
    BY <1>1, <1>2, <1>3, <2>2, <2>4, <2>5, LnStepTypes
<1>5. LnOriginals' /\ LnCovered' /\ LnOpRecorded' /\ LnOpRestored'
  BY <1>1, <1>2 DEF LnTypes, LnOps, LnEntries, LnOriginals, LnCovered, LnOpRecorded,
     LnOpRestored, LnWriting, LnRestoring, LnApplyPort, LnOk, LnStay, LnGo
<1>6. LnOpNamed' /\ LnOpServes' /\ LnManagedServes'
  <2>1. LnOpNamed'
    BY <1>1, <1>2
       DEF LnTypes, LnOps, LnOpNamed, LnOpRecorded, LnTakeoverOnly, LnWriting, LnApplyPort, LnOk,
           LnStay, LnGo
  <2>2. LnOpServes'
    BY <1>1, <1>2
       DEF LnTypes, LnOps, LnConfigs, LnOpServes, LnApplyPort, LnOk, LnStay, LnGo
  <2>3. LnManagedServes'
    BY <1>1, <1>2
       DEF LnTypes, LnOps, LnConfigs, LnEntries, LnManagedServes, LnOpRecorded, LnWriting,
           LnRestoring, LnApplyPort, LnOk, LnStay, LnGo
  <2> QED
    BY <2>1, <2>2, <2>3
<1> QED
  BY <1>4, <1>5, <1>6

(* Only a DNS that is enabled and verified goes on to the commit.           *)
LEMMA LnStartAndVerifyKeeps == LnIInv /\ LnStartAndVerify => LnIInv'
<1> SUFFICES ASSUME LnIInv, LnStartAndVerify PROVE LnIInv'
  OBVIOUS
<1> USE DEF LnIInv
<1>1. PICK o \in LnOps : lnOp = {o} /\ o.step = "start" /\ LnThe = o
  BY LnOperation DEF LnStartAndVerify
<1>2. \E t \in {"commit", "undo_port"} : lnOp' = {[o EXCEPT !.step = t]}
  BY <1>1 DEF LnStartAndVerify, LnOk, LnStay, LnGo, LnFail, LnOps
<1>3. lnFaults' \in 0..MaxLnFaults /\ lnEdits' \in 0..MaxLnEdits
  BY LnBudgets DEF LnStartAndVerify
<1>4. LnTypes'
  <2>1. PICK t \in {"commit", "undo_port"} : lnOp' = {[o EXCEPT !.step = t]}
    BY <1>2
  <2>2. [o EXCEPT !.step = t] \in LnOps /\ [o EXCEPT !.step = t].name = o.name
    BY DEF LnOps, LnSteps
  <2>3. lnConfig' \in LnConfigs /\ UNCHANGED <<lnJournal, lnFiles>> /\ LnStay
    BY DEF LnTypes, LnConfigs, LnStartAndVerify
  <2> QED
    BY <1>1, <1>3, <2>1, <2>2, <2>3, LnStepTypes
<1>5. LnOriginals' /\ LnCovered' /\ LnOpRecorded' /\ LnOpRestored'
  BY <1>1, <1>2 DEF LnTypes, LnOps, LnEntries, LnOriginals, LnCovered, LnOpRecorded,
     LnOpRestored, LnWriting, LnRestoring, LnStartAndVerify, LnOk, LnStay, LnGo,
     LnFail
<1>6. LnOpNamed' /\ LnOpServes' /\ LnManagedServes'
  BY <1>1, <1>2 DEF LnTypes, LnOps, LnEntries, LnConfigs, LnOpNamed, LnOpRecorded,
     LnOpServes, LnManagedServes, LnWriting, LnTakeoverOnly, LnRestoring,
     LnStartAndVerify, LnOk, LnStay, LnGo, LnFail
<1> QED
  BY <1>4, <1>5, <1>6

(* The commit makes a serving configuration effective and keeps the         *)
(* originals.                                                               *)
LEMMA LnCommitKeeps == LnIInv /\ LnCommit => LnIInv'
<1> SUFFICES ASSUME LnIInv, LnCommit PROVE LnIInv'
  OBVIOUS
<1> USE DEF LnIInv
<1>1. PICK o \in LnOps : lnOp = {o} /\ o.step = "commit" /\ LnThe = o
  BY LnOperation DEF LnCommit
<1>2. lnOp' = {}
  BY <1>1 DEF LnCommit, LnEnd, LnOk, LnFail, LnOps
<1>3. PICK e \in LnEntries : lnJournal = {e} /\ e.pending
  BY <1>1, LnOneEntry DEF LnOpRecorded, LnWriting, LnRestoring
<1>4. \E d \in LnEntries : lnJournal' = {d} /\ d.saved = e.saved /\ (d.effective \/ d.pending)
  <2> DEFINE d == [e EXCEPT !.effective = TRUE, !.pending = FALSE]
  <2>1. d \in LnEntries /\ d.saved = e.saved /\ d.effective
    BY <1>1 DEF LnEntries, LnOps
  <2>2. lnJournal' = {d} \/ lnJournal' = {e}
    BY <1>1, <1>3 DEF LnCommit, LnOk, LnFail
  <2> HIDE DEF d
  <2> QED
    BY <1>3, <2>1, <2>2
<1>5. lnFaults' \in 0..MaxLnFaults /\ lnEdits' \in 0..MaxLnEdits
  BY LnBudgets DEF LnCommit
<1>6. LnTypes'
  BY <1>1, <1>2, <1>3, <1>4, <1>5 DEF LnTypes, LnAtMostOne, LnEntries, LnConfigs,
     LnOps, LnSteps, LnUp, LnCommit, LnEnd, LnOk, LnFail
<1>7. LnOriginals' /\ LnCovered' /\ LnOpRecorded' /\ LnOpRestored'
  BY <1>1, <1>2, <1>3, <1>4 DEF LnTypes, LnOps, LnEntries, LnOriginals, LnCovered,
     LnOpRecorded, LnOpRestored, LnWriting, LnRestoring, LnCommit, LnEnd, LnOk,
     LnFail
<1>8. LnOpNamed' /\ LnOpServes' /\ LnManagedServes'
  BY <1>1, <1>2, <1>3, <1>4 DEF LnTypes, LnOps, LnEntries, LnConfigs, LnOpNamed,
     LnOpRecorded, LnOpServes, LnManagedServes, LnWriting, LnTakeoverOnly,
     LnRestoring, LnCommit, LnEnd, LnOk, LnFail
<1> QED
  BY <1>6, <1>7, <1>8

(* The undo stops the DNS under a pending entry.                            *)
LEMMA LnUndoPortKeeps == LnIInv /\ LnUndoPort => LnIInv'
<1> SUFFICES ASSUME LnIInv, LnUndoPort PROVE LnIInv'
  OBVIOUS
<1> USE DEF LnIInv
<1>1. PICK o \in LnOps : lnOp = {o} /\ o.step = "undo_port" /\ LnThe = o
  BY LnOperation DEF LnUndoPort
<1>2. lnOp' = {[o EXCEPT !.step = "undo_drop_in"]}
  BY <1>1 DEF LnUndoPort, LnOk, LnStay, LnGo, LnFail, LnOps
<1>3. PICK e \in LnEntries : lnJournal = {e} /\ e.pending
  BY <1>1, LnOneEntry DEF LnOpRecorded, LnWriting, LnRestoring
<1>4. lnFaults' \in 0..MaxLnFaults /\ lnEdits' \in 0..MaxLnEdits
  BY LnBudgets DEF LnUndoPort
<1>5. LnTypes'
  <2>1. lnConfig' \in LnConfigs
    BY DEF LnTypes, LnConfigs, LnUndoPort
  <2>2. [o EXCEPT !.step = "undo_drop_in"] \in LnOps /\ [o EXCEPT !.step = "undo_drop_in"].name = o.name
    BY DEF LnOps, LnSteps
  <2>3. UNCHANGED <<lnJournal, lnFiles>> /\ LnStay
    BY DEF LnUndoPort
  <2> QED
    BY <1>1, <1>2, <1>4, <2>1, <2>2, <2>3, LnStepTypes
<1>6. LnOriginals' /\ LnCovered' /\ LnOpRecorded' /\ LnOpRestored'
  BY <1>1, <1>2, <1>3 DEF LnTypes, LnOps, LnEntries, LnOriginals, LnCovered,
     LnOpRecorded, LnOpRestored, LnWriting, LnRestoring, LnUndoPort, LnOk, LnStay,
     LnGo, LnFail
<1>7. LnOpNamed' /\ LnOpServes' /\ LnManagedServes'
  <2>1. LnOpNamed'
    BY <1>1, <1>2, <1>3
       DEF LnTypes, LnOps, LnOpNamed, LnOpRecorded, LnTakeoverOnly, LnWriting, LnUndoPort, LnOk,
           LnStay, LnGo, LnFail
  <2>2. LnOpServes'
    BY <1>1, <1>2, <1>3
       DEF LnTypes, LnOps, LnConfigs, LnOpServes, LnUndoPort, LnOk, LnStay, LnGo, LnFail
  <2>3. LnManagedServes'
    BY <1>1, <1>2, <1>3
       DEF LnTypes, LnOps, LnConfigs, LnEntries, LnManagedServes, LnOpRecorded, LnWriting,
           LnRestoring, LnUndoPort, LnOk, LnStay, LnGo, LnFail
  <2> QED
    BY <2>1, <2>2, <2>3
<1> QED
  BY <1>5, <1>6, <1>7

(* The reload after the rollback only decides whether the note stays.       *)
LEMMA LnRollbackReloadKeeps == LnIInv /\ LnRollbackReload => LnIInv'
<1> SUFFICES ASSUME LnIInv, LnRollbackReload PROVE LnIInv'
  OBVIOUS
<1> USE DEF LnIInv
<1>1. PICK o \in LnOps : lnOp = {o} /\ o.step = "undo_reload" /\ LnThe = o
  BY LnOperation DEF LnRollbackReload
<1>2. lnOp' \in {{[o EXCEPT !.step = "undo_journal"]}, {[o EXCEPT !.step = "undo_journal", !.failed = TRUE]}}
  BY <1>1 DEF LnRollbackReload, LnOk, LnStay, LnGo, LnFail, LnRollbackFails, LnOps
<1>3. lnFaults' \in 0..MaxLnFaults /\ lnEdits' \in 0..MaxLnEdits
  BY LnBudgets DEF LnRollbackReload
<1>4. PICK p \in LnOps : lnOp' = {p} /\ p.name = o.name /\ p.step = "undo_journal"
  <2>1. CASE lnOp' = {[o EXCEPT !.step = "undo_journal"]}
    <3>1. PICK p : p = [o EXCEPT !.step = "undo_journal"]
      OBVIOUS
    <3>2. p \in LnOps /\ p.name = o.name /\ p.step = "undo_journal"
      BY <3>1 DEF LnOps, LnSteps
    <3> QED
      BY <2>1, <3>1, <3>2
  <2>2. CASE lnOp' = {[o EXCEPT !.step = "undo_journal", !.failed = TRUE]}
    <3>1. PICK p : p = [o EXCEPT !.step = "undo_journal", !.failed = TRUE]
      OBVIOUS
    <3>2. p \in LnOps /\ p.name = o.name /\ p.step = "undo_journal"
      BY <3>1 DEF LnOps, LnSteps
    <3> QED
      BY <2>2, <3>1, <3>2
  <2> QED
    BY <1>2, <2>1, <2>2
<1>5. LnTypes'
  <2>1. lnConfig' \in LnConfigs /\ UNCHANGED <<lnJournal, lnFiles>> /\ LnStay
    BY DEF LnTypes, LnRollbackReload
  <2> QED
    BY <1>1, <1>3, <1>4, <2>1, LnStepTypes
<1>6. UNCHANGED <<lnJournal, lnFiles, lnConfig, lnOriginal>>
  BY DEF LnRollbackReload, LnStay
<1>7. LnOriginals' /\ LnCovered' /\ LnOpRestored' /\ LnManagedServes'
  <2>1. LnOriginals'
    BY <1>6 DEF LnOriginals
  <2>2. LnCovered'
    BY <1>6 DEF LnCovered
  <2>3. LnOpRestored'
    BY <1>1, <1>4, <1>6 DEF LnOpRestored
  <2>4. LnManagedServes'
    BY <1>6 DEF LnManagedServes, LnFit
  <2> QED
    BY <2>1, <2>2, <2>3, <2>4
<1>8. LnOpRecorded' /\ LnOpNamed' /\ LnOpServes'
  BY <1>1, <1>4, <1>6 DEF LnOpRecorded, LnWriting, LnRestoring, LnOpNamed, LnTakeoverOnly, LnOpServes
<1> QED
  BY <1>5, <1>7, <1>8

(* The note of a failed takeover is dropped only when both files are back.  *)
LEMMA LnUndoJournalKeeps == LnIInv /\ LnUndoJournal => LnIInv'
<1> SUFFICES ASSUME LnIInv, LnUndoJournal PROVE LnIInv'
  OBVIOUS
<1> USE DEF LnIInv
<1>1. PICK o \in LnOps : lnOp = {o} /\ o.step = "undo_journal" /\ LnThe = o
  BY LnOperation DEF LnUndoJournal
<1>2. lnOp' = {}
  BY <1>1 DEF LnUndoJournal, LnEnd, LnOk, LnFail, LnOps
<1>3. PICK e \in LnEntries : lnJournal = {e} /\ e.pending
  BY <1>1, LnOneEntry DEF LnOpRecorded, LnWriting, LnRestoring
<1>4. \E d \in LnEntries : lnJournal' = {d} /\ d.saved = e.saved /\ (d = e \/ (~ d.effective /\ (o.failed => d.pending)))
  <2> DEFINE d == [e EXCEPT !.desired = FALSE, !.effective = FALSE, !.pending = o.failed]
  <2>1. d \in LnEntries /\ d.saved = e.saved /\ ~ d.effective /\ (o.failed => d.pending)
    BY <1>1 DEF LnEntries, LnOps
  <2>2. lnJournal' = {d} \/ lnJournal' = {e}
    BY <1>1, <1>3 DEF LnUndoJournal, LnOk, LnFail
  <2> HIDE DEF d
  <2> QED
    BY <1>3, <2>1, <2>2
<1>5. lnFaults' \in 0..MaxLnFaults /\ lnEdits' \in 0..MaxLnEdits
  BY LnBudgets DEF LnUndoJournal
<1>6. LnTypes'
  BY <1>1, <1>2, <1>3, <1>4, <1>5 DEF LnTypes, LnAtMostOne, LnEntries, LnConfigs,
     LnOps, LnSteps, LnUp, LnUndoJournal, LnEnd, LnOk, LnFail
<1>7. LnOriginals' /\ LnCovered' /\ LnOpRecorded' /\ LnOpRestored'
  BY <1>1, <1>2, <1>3, <1>4 DEF LnTypes, LnOps, LnEntries, LnOriginals, LnCovered,
     LnOpRecorded, LnOpRestored, LnWriting, LnRestoring, LnUndoJournal, LnEnd, LnOk,
     LnFail
<1>8. LnOpNamed' /\ LnOpServes' /\ LnManagedServes'
  BY <1>1, <1>2, <1>3, <1>4 DEF LnTypes, LnOps, LnEntries, LnConfigs, LnOpNamed,
     LnOpRecorded, LnOpServes, LnManagedServes, LnWriting, LnTakeoverOnly,
     LnRestoring, LnUndoJournal, LnEnd, LnOk, LnFail
<1> QED
  BY <1>6, <1>7, <1>8

(* A restore notes in the journal that it is under way.                     *)
LEMMA LnBeginRestoreKeeps == LnIInv /\ LnBeginRestore => LnIInv'
<1> SUFFICES ASSUME LnIInv, LnBeginRestore PROVE LnIInv'
  OBVIOUS
<1> USE DEF LnIInv
<1>1. PICK o \in LnOps : lnOp = {o} /\ o.step = "begin" /\ LnThe = o
  BY LnOperation DEF LnBeginRestore
<1>2. \E t \in {"halt", "put_drop_in"} : lnOp' = {[o EXCEPT !.step = t]}
  BY <1>1 DEF LnBeginRestore, LnOk, LnStay, LnGo, LnOps
<1>3. PICK e \in LnEntries : lnJournal = {e}
  BY <1>1, LnOneEntry DEF LnOpRecorded, LnWriting, LnRestoring
<1>4. \E d \in LnEntries : lnJournal' = {d} /\ d.saved = e.saved /\ d.pending
  <2> DEFINE d == [e EXCEPT !.pending = TRUE, !.desired = @ /\ o.keep]
  <2>1. d \in LnEntries /\ d.saved = e.saved /\ d.pending
    BY <1>1 DEF LnEntries, LnOps
  <2>2. lnJournal' = {d}
    BY <1>1, <1>3 DEF LnBeginRestore, LnOk, LnFail
  <2> HIDE DEF d
  <2> QED
    BY <1>3, <2>1, <2>2
<1>5. lnFaults' \in 0..MaxLnFaults /\ lnEdits' \in 0..MaxLnEdits
  BY LnBudgets DEF LnBeginRestore
<1>6. LnTypes'
  BY <1>1, <1>2, <1>3, <1>4, <1>5 DEF LnTypes, LnAtMostOne, LnEntries, LnConfigs,
     LnOps, LnSteps, LnUp, LnBeginRestore, LnOk, LnStay, LnGo
<1>7. LnOriginals' /\ LnCovered' /\ LnOpRecorded' /\ LnOpRestored'
  BY <1>1, <1>2, <1>3, <1>4 DEF LnTypes, LnOps, LnEntries, LnOriginals, LnCovered,
     LnOpRecorded, LnOpRestored, LnWriting, LnRestoring, LnBeginRestore, LnOk,
     LnStay, LnGo
<1>8. LnOpNamed' /\ LnOpServes' /\ LnManagedServes'
  BY <1>1, <1>2, <1>3, <1>4 DEF LnTypes, LnOps, LnEntries, LnConfigs, LnOpNamed,
     LnOpRecorded, LnOpServes, LnManagedServes, LnWriting, LnTakeoverOnly,
     LnRestoring, LnBeginRestore, LnOk, LnStay, LnGo
<1> QED
  BY <1>6, <1>7, <1>8

(* The DNS is stopped for a restore that the journal announces.             *)
LEMMA LnHaltKeeps == LnIInv /\ LnHalt => LnIInv'
<1> SUFFICES ASSUME LnIInv, LnHalt PROVE LnIInv'
  OBVIOUS
<1> USE DEF LnIInv
<1>1. PICK o \in LnOps : lnOp = {o} /\ o.step = "halt" /\ LnThe = o
  BY LnOperation DEF LnHalt
<1>2. lnOp' = {[o EXCEPT !.step = "put_drop_in"]}
  BY <1>1 DEF LnHalt, LnOk, LnStay, LnGo, LnOps
<1>3. PICK e \in LnEntries : lnJournal = {e} /\ e.pending
  BY <1>1, LnOneEntry DEF LnOpRecorded, LnWriting, LnRestoring
<1>4. lnFaults' \in 0..MaxLnFaults /\ lnEdits' \in 0..MaxLnEdits
  BY LnBudgets DEF LnHalt
<1>5. LnTypes'
  <2>1. [o EXCEPT !.step = "put_drop_in"] \in LnOps /\ [o EXCEPT !.step = "put_drop_in"].name = o.name
    BY DEF LnOps, LnSteps
  <2>2. lnConfig' \in LnConfigs /\ UNCHANGED <<lnJournal, lnFiles>> /\ LnStay
    BY DEF LnTypes, LnConfigs, LnHalt
  <2> QED
    BY <1>1, <1>2, <1>4, <2>1, <2>2, LnStepTypes
<1>6. LnOriginals' /\ LnCovered' /\ LnOpRecorded' /\ LnOpRestored'
  BY <1>1, <1>2, <1>3 DEF LnTypes, LnOps, LnEntries, LnOriginals, LnCovered,
     LnOpRecorded, LnOpRestored, LnWriting, LnRestoring, LnHalt, LnOk, LnStay, LnGo
<1>7. LnOpNamed' /\ LnOpServes' /\ LnManagedServes'
  BY <1>1, <1>2, <1>3 DEF LnTypes, LnOps, LnEntries, LnConfigs, LnOpNamed,
     LnOpRecorded, LnOpServes, LnManagedServes, LnWriting, LnTakeoverOnly,
     LnRestoring, LnHalt, LnOk, LnStay, LnGo
<1> QED
  BY <1>5, <1>6, <1>7

(* The note is dropped after both files are back; a takeover that began     *)
(* with the restore may then journal again.                                 *)
LEMMA LnFinishRestoreKeeps == LnIInv /\ LnFinishRestore => LnIInv'
<1> SUFFICES ASSUME LnIInv, LnFinishRestore PROVE LnIInv'
  OBVIOUS
<1> USE DEF LnIInv
<1>1. PICK o \in LnOps : lnOp = {o} /\ o.step = "finish" /\ LnThe = o
  BY LnOperation DEF LnFinishRestore
<1>2. lnOp' = {} \/ (o.name = "takeover" /\ lnOp' = {[o EXCEPT !.step = "journal"]})
  <2>1. CASE o.name = "takeover"
    BY <1>1, <2>1 DEF LnFinishRestore, LnGo
  <2>2. CASE o.name # "takeover"
    BY <1>1, <2>2 DEF LnFinishRestore, LnEnd
  <2> QED
    BY <2>1, <2>2
<1>3. PICK e \in LnEntries : lnJournal = {e} /\ e.pending
  BY <1>1, LnOneEntry DEF LnOpRecorded, LnWriting, LnRestoring
<1>4. \E d \in LnEntries : lnJournal' = {d} /\ d.saved = e.saved /\ ~ d.effective /\ ~ d.pending
  <2> DEFINE d == [e EXCEPT !.effective = FALSE, !.pending = FALSE]
  <2>1. d \in LnEntries /\ d.saved = e.saved /\ ~ d.effective /\ ~ d.pending
    BY <1>1 DEF LnEntries, LnOps
  <2>2. lnJournal' = {d}
    BY <1>1, <1>3 DEF LnFinishRestore, LnOk, LnFail
  <2> HIDE DEF d
  <2> QED
    BY <1>3, <2>1, <2>2
<1>5. lnFaults' \in 0..MaxLnFaults /\ lnEdits' \in 0..MaxLnEdits
  BY LnBudgets DEF LnFinishRestore
<1>6. LnTypes'
  BY <1>1, <1>2, <1>3, <1>4, <1>5 DEF LnTypes, LnAtMostOne, LnEntries, LnConfigs,
     LnOps, LnSteps, LnUp, LnFinishRestore, LnOk, LnStay, LnGo, LnEnd
<1>7. LnOriginals' /\ LnCovered' /\ LnOpRecorded' /\ LnOpRestored'
  BY <1>1, <1>2, <1>3, <1>4 DEF LnTypes, LnOps, LnEntries, LnOriginals, LnCovered,
     LnOpRecorded, LnOpRestored, LnWriting, LnRestoring, LnFinishRestore, LnOk,
     LnStay, LnGo, LnEnd
<1>8. LnOpNamed' /\ LnOpServes' /\ LnManagedServes'
  BY <1>1, <1>2, <1>3, <1>4 DEF LnTypes, LnOps, LnEntries, LnConfigs, LnOpNamed,
     LnOpRecorded, LnOpServes, LnManagedServes, LnWriting, LnTakeoverOnly,
     LnRestoring, LnFinishRestore, LnOk, LnStay, LnGo, LnEnd
<1> QED
  BY <1>6, <1>7, <1>8

(* A step of a takeover that fails goes to the undo, under the same entry.  *)
LEMMA LnTakeOverFailsKeeps == LnIInv /\ LnTakeOverFails => LnIInv'
<1> SUFFICES ASSUME LnIInv, LnTakeOverFails PROVE LnIInv'
  OBVIOUS
<1> USE DEF LnIInv
<1>1. PICK s \in {"stop", "write_drop_in", "link", "reload", "port", "start"} : LnAt(s)
  BY DEF LnTakeOverFails
<1>2. PICK o \in LnOps : lnOp = {o} /\ o.step = s
  BY <1>1, LnOperation
<1>3. lnOp' = {[o EXCEPT !.step = "undo_port"]}
  BY <1>2 DEF LnTakeOverFails, LnGo
<1>4. lnFaults' \in 0..MaxLnFaults /\ lnEdits' \in 0..MaxLnEdits
  BY LnBudgets DEF LnTakeOverFails
<1>5. LnTypes'
  BY <1>2, <1>3, <1>4 DEF LnTypes, LnAtMostOne, LnOps, LnSteps, LnUp, LnTakeOverFails, LnStay
<1>6. LnOriginals' /\ LnCovered' /\ LnOpRecorded' /\ LnOpRestored'
  BY <1>2, <1>3 DEF LnTypes, LnOps, LnOriginals, LnCovered, LnOpRecorded, LnOpRestored,
     LnWriting, LnRestoring, LnTakeOverFails, LnStay
<1>7. LnOpNamed' /\ LnOpServes' /\ LnManagedServes'
  BY <1>2, <1>3 DEF LnTypes, LnOps, LnOpNamed, LnOpServes, LnManagedServes, LnWriting,
     LnTakeoverOnly, LnTakeOverFails, LnStay
<1> QED
  BY <1>5, <1>6, <1>7

------------------------------------------------------------------------------
(* restore_snapshot puts back what was not managed, so the file is no       *)
(* longer managed, nothing else changes, and what stays managed stays       *)
(* recorded.                                                                *)
LEMMA LnPutBackKeeps ==
  ASSUME LnIInv, NEW f \in LnFileNames, LnPutBack(f), UNCHANGED lnJournal
  PROVE  /\ lnFiles' \in [LnFileNames -> LnContents] /\ lnOriginal' \in [LnFileNames -> LnContents]
         /\ LnOriginals' /\ LnCovered'
         /\ lnFiles'[f] # "managed"
         /\ \A g \in LnFileNames \ {f} : lnFiles'[g] = lnFiles[g]
         /\ (\E e \in lnJournal : e.saved = lnOriginal) => lnOriginal' = lnOriginal
<1> USE DEF LnIInv
<1>1. PICK e \in lnJournal : /\ lnFiles' = [lnFiles EXCEPT ![f] = e.saved[f]]
                             /\ lnOriginal' = IF e.saved[f] = "managed" THEN lnOriginal
                                              ELSE [lnOriginal EXCEPT ![f] = e.saved[f]]
  BY DEF LnPutBack
<1>2. e.saved \in [LnFileNames -> LnContents] /\ e.saved[f] # "managed"
  BY DEF LnTypes, LnEntries, LnOriginals
<1>3. lnOriginal' = [lnOriginal EXCEPT ![f] = e.saved[f]]
  BY <1>1, <1>2
<1>4. \A d \in lnJournal : d = e
  BY DEF LnTypes, LnAtMostOne
<1>5. lnFiles' \in [LnFileNames -> LnContents] /\ lnOriginal' \in [LnFileNames -> LnContents]
  BY <1>1, <1>2, <1>3 DEF LnTypes
<1>6. LnOriginals' /\ LnCovered'
  BY <1>1, <1>2, <1>3 DEF LnTypes, LnOriginals, LnCovered
<1>7. lnFiles'[f] # "managed" /\ \A g \in LnFileNames \ {f} : lnFiles'[g] = lnFiles[g]
  BY <1>1, <1>2 DEF LnTypes
<1>8. ASSUME e.saved = lnOriginal PROVE lnOriginal' = lnOriginal
  BY <1>3, <1>8 DEF LnTypes
<1> QED
  BY <1>4, <1>5, <1>6, <1>7, <1>8

(* A file of a failed takeover is rolled back, or the rollback is marked as *)
(* failed and the note will stay.                                           *)
LEMMA LnRollbackKeeps ==
  ASSUME LnIInv, NEW s, NEW f, NEW t, LnRollback(s, f, t),
         \/ s = "undo_drop_in" /\ f = "drop_in" /\ t = "undo_link"
         \/ s = "undo_link" /\ f = "resolv_conf" /\ t = "undo_reload"
  PROVE  LnIInv'
<1> USE DEF LnIInv
<1>1. PICK o \in LnOps : lnOp = {o} /\ o.step = s
  BY LnOperation DEF LnRollback
<1>2. \/ LnPutBack(f) /\ lnOp' = {[o EXCEPT !.step = t]}
      \/ /\ UNCHANGED <<lnFiles, lnOriginal>>
         /\ lnOp' = {[o EXCEPT !.step = "undo_journal", !.failed = TRUE]}
  BY <1>1 DEF LnRollback, LnGo, LnRollbackFails
<1>3. \E e \in lnJournal : e.pending /\ e.saved = lnOriginal
  BY <1>1 DEF LnOpRecorded, LnWriting
<1>4. UNCHANGED <<lnJournal, lnConfig, lnPhase>>
  BY DEF LnRollback
<1>5. lnFaults' \in 0..MaxLnFaults /\ lnEdits' \in 0..MaxLnEdits
  BY LnBudgets DEF LnRollback
<1>6. LnOriginals' /\ LnCovered' /\ lnOriginal' = lnOriginal
  BY <1>2, <1>3, <1>4, LnPutBackKeeps DEF LnOriginals, LnCovered
<1>7. LnTypes'
  <2>1. /\ [o EXCEPT !.step = t] \in LnOps
        /\ [o EXCEPT !.step = "undo_journal", !.failed = TRUE] \in LnOps
    BY <1>1 DEF LnOps, LnSteps
  <2>2. lnFiles' \in [LnFileNames -> LnContents]
    BY <1>2, <1>4, LnPutBackKeeps DEF LnTypes
  <2> QED
    BY <1>1, <1>2, <1>4, <1>5, <1>6, <2>1, <2>2 DEF LnTypes, LnAtMostOne, LnOps, LnUp
<1>8. LnOpRecorded'
  BY <1>1, <1>2, <1>3, <1>4, <1>6 DEF LnOps, LnOpRecorded, LnWriting, LnRestoring
<1>9. LnOpRestored'
  <2>1. CASE LnPutBack(f) /\ lnOp' = {[o EXCEPT !.step = t]}
    BY <1>1, <1>4, <2>1, LnPutBackKeeps DEF LnOps, LnOpRestored
  <2>2. CASE lnOp' = {[o EXCEPT !.step = "undo_journal", !.failed = TRUE]}
    BY <1>1, <2>2 DEF LnOps, LnOpRestored
  <2> QED
    BY <1>2, <2>1, <2>2
<1>10. LnOpNamed' /\ LnOpServes' /\ LnManagedServes'
  BY <1>1, <1>2, <1>4
     DEF LnOps, LnOpNamed, LnOpServes, LnManagedServes, LnWriting, LnTakeoverOnly
<1> QED
  BY <1>6, <1>7, <1>8, <1>9, <1>10

(* A restore puts the files back one after the other.                       *)
LEMMA LnRestoreFileKeeps ==
  ASSUME LnIInv, NEW s, NEW f, NEW t, LnRestoreFile(s, f, t),
         \/ s = "put_drop_in" /\ f = "drop_in" /\ t = "put_link"
         \/ s = "put_link" /\ f = "resolv_conf" /\ t = "finish"
  PROVE  LnIInv'
<1> USE DEF LnIInv
<1>1. PICK o \in LnOps : lnOp = {o} /\ o.step = s
  BY LnOperation DEF LnRestoreFile
<1>2. LnPutBack(f) /\ lnOp' = {[o EXCEPT !.step = t]} /\ UNCHANGED <<lnJournal, lnConfig, lnPhase>>
  BY <1>1 DEF LnRestoreFile, LnGo
<1>3. lnFaults' \in 0..MaxLnFaults /\ lnEdits' \in 0..MaxLnEdits
  BY LnBudgets DEF LnRestoreFile
<1>4. LnOriginals' /\ LnCovered'
  BY <1>2, LnPutBackKeeps
<1>5. LnTypes'
  <2>1. [o EXCEPT !.step = t] \in LnOps
    BY <1>1 DEF LnOps, LnSteps
  <2>2. lnFiles' \in [LnFileNames -> LnContents] /\ lnOriginal' \in [LnFileNames -> LnContents]
    BY <1>2, LnPutBackKeeps
  <2> QED
    BY <1>1, <1>2, <1>3, <2>1, <2>2 DEF LnTypes, LnAtMostOne, LnOps, LnUp
<1>6. LnOpRecorded'
  BY <1>1, <1>2 DEF LnOps, LnOpRecorded, LnWriting, LnRestoring
<1>7. LnOpRestored'
  BY <1>1, <1>2, LnPutBackKeeps DEF LnOps, LnOpRestored
<1>8. LnOpNamed' /\ LnOpServes' /\ LnManagedServes'
  BY <1>1, <1>2 DEF LnOps, LnOpNamed, LnOpServes, LnManagedServes, LnWriting, LnTakeoverOnly
<1> QED
  BY <1>4, <1>5, <1>6, <1>7, <1>8

------------------------------------------------------------------------------
(* An operation that begins, at a step that the journal and the files       *)
(* allow, with nothing else changed.                                        *)
LEMMA LnBeginKeeps ==
  ASSUME LnIInv, NEW name \in {"takeover", "restore", "shutdown", "offline"},
         NEW s \in {"begin", "check", "journal"}, NEW keep \in BOOLEAN, LnBegin(name, s, keep),
         UNCHANGED <<lnJournal, lnFiles, lnOriginal, lnConfig>>, LnOk,
         lnPhase' \in {"down", "up", "leaving"}, LnUp' = (name # "offline"),
         s # "begin" => name = "takeover",
         name = "takeover" => lnConfig.fit,
         s = "begin" => lnJournal # {},
         s = "journal" => \A f \in LnFileNames : lnFiles[f] # "managed"
  PROVE  LnIInv'
<1> USE DEF LnIInv
<1> DEFINE o == [name |-> name, step |-> s, keep |-> keep, port |-> TRUE, failed |-> FALSE]
<1>1. lnOp' = {o} /\ o \in LnOps /\ o.name = name /\ o.step = s
  BY DEF LnBegin, LnOps, LnSteps
<1> HIDE DEF o
<1>2. lnFaults' \in 0..MaxLnFaults /\ lnEdits' \in 0..MaxLnEdits
  BY LnBudgets
<1>3. LnTypes'
  BY <1>1, <1>2 DEF LnTypes, LnAtMostOne
<1>4. LnOriginals' /\ LnCovered' /\ LnOpRecorded' /\ LnOpRestored'
  BY <1>1 DEF LnOriginals, LnCovered, LnOpRecorded, LnOpRestored, LnWriting, LnRestoring
<1>5. LnOpNamed' /\ LnOpServes' /\ LnManagedServes'
  BY <1>1 DEF LnOpNamed, LnOpServes, LnManagedServes, LnWriting, LnTakeoverOnly
<1> QED
  BY <1>3, <1>4, <1>5

(* A step after which no operation is under way and that leaves the         *)
(* journal and the configuration as they are keeps the invariant, if the    *)
(* files change only to what others wrote.                                  *)
LEMMA LnIdleKeeps ==
  ASSUME LnIInv, lnOp' = {}, UNCHANGED lnJournal, LnManagedServes', lnConfig' \in LnConfigs,
         lnPhase' \in {"down", "up", "leaving"},
         lnFaults' \in 0..MaxLnFaults /\ lnEdits' \in 0..MaxLnEdits,
         \/ UNCHANGED <<lnFiles, lnOriginal>>
         \/ \E f \in LnFileNames, c \in {"own", "foreign"} :
               /\ lnFiles' = [lnFiles EXCEPT ![f] = c]
               /\ lnOriginal' = [lnOriginal EXCEPT ![f] = c]
  PROVE  LnIInv'
<1> USE DEF LnIInv
<1>1. LnTypes'
  BY DEF LnTypes, LnAtMostOne
<1>2. LnOriginals' /\ LnCovered'
  BY DEF LnTypes, LnOriginals, LnCovered
<1>3. LnOpNamed' /\ LnOpRecorded' /\ LnOpRestored' /\ LnOpServes'
  BY DEF LnOpNamed, LnOpRecorded, LnOpRestored, LnOpServes
<1> QED
  BY <1>1, <1>2, <1>3

(* Every step of the system keeps the invariant.                            *)
LEMMA LnInductive == LnIInv /\ [LnNext]_lnVars => LnIInv'
<1> SUFFICES ASSUME LnIInv, [LnNext]_lnVars PROVE LnIInv'
  OBVIOUS
<1> USE DEF LnIInv
<1>1. CASE LnTakeOver
  BY <1>1, LnFirstStepSound, LnBeginKeeps DEF LnTakeOver, LnStay, LnUp, LnTypes
<1>2. ASSUME NEW name \in {"restore", "shutdown", "offline"}, NEW keep \in BOOLEAN,
             LnRestore(name, keep)
      PROVE  LnIInv'
  BY <1>2, LnBeginKeeps DEF LnRestore, LnStay, LnUp, LnTypes
<1>3. CASE LnStart
  <2>1. lnPhase' = "up" /\ LnUp' /\ lnOp = {}
    BY <1>3 DEF LnStart, LnUp
  <2>2. CASE LnFirstStep # "refused" /\ LnBegin("takeover", LnFirstStep, TRUE)
    BY <1>3, <2>1, <2>2, LnFirstStepSound, LnBeginKeeps DEF LnStart
  <2>3. CASE UNCHANGED lnOp
    BY <1>3, <2>1, <2>3, LnIdleKeeps, LnBudgets DEF LnStart, LnTypes, LnManagedServes
  <2> QED
    BY <1>3, <2>2, <2>3 DEF LnStart
<1>4. CASE LnOperationFails
  BY <1>4, LnIdleKeeps, LnBudgets DEF LnOperationFails, LnEnd, LnTypes, LnManagedServes
<1>5. CASE LnNothingToRestore
  BY <1>5, LnIdleKeeps, LnBudgets DEF LnNothingToRestore, LnTypes, LnManagedServes
<1>6. CASE LnExit \/ LnCrash
  BY <1>6, LnIdleKeeps, LnBudgets DEF LnExit, LnCrash, LnTypes, LnManagedServes
<1>7. CASE LnSaveConfig
  BY <1>7, LnIdleKeeps, LnBudgets
     DEF LnSaveConfig, LnStay, LnMaySave, LnManaged, LnTypes, LnManagedServes
<1>8. ASSUME NEW f \in LnFileNames, LnEdit(f) PROVE LnIInv'
  <2>1. lnFaults' \in 0..MaxLnFaults /\ lnEdits' \in 0..MaxLnEdits
    BY <1>8, LnConstants DEF LnEdit, LnTypes
  <2> QED
    BY <1>8, <2>1, LnIdleKeeps DEF LnEdit, LnTypes, LnManagedServes
<1>9. CASE \/ LnStartAgain \/ LnJournalOriginals \/ LnStopDns \/ LnWriteDropIn \/ LnLink \/ LnReload
           \/ LnApplyPort \/ LnStartAndVerify \/ LnCommit \/ LnTakeOverFails
  BY <1>9, LnStartAgainKeeps, LnJournalOriginalsKeeps, LnStopDnsKeeps, LnWriteDropInKeeps,
     LnLinkKeeps, LnReloadKeeps, LnApplyPortKeeps, LnStartAndVerifyKeeps, LnCommitKeeps,
     LnTakeOverFailsKeeps
<1>10. CASE \/ LnUndoPort \/ LnRollback("undo_drop_in", "drop_in", "undo_link")
            \/ LnRollback("undo_link", "resolv_conf", "undo_reload") \/ LnRollbackReload \/ LnUndoJournal
  BY <1>10, LnUndoPortKeeps, LnRollbackKeeps, LnRollbackReloadKeeps, LnUndoJournalKeeps
<1>11. CASE \/ LnBeginRestore \/ LnHalt \/ LnRestoreFile("put_drop_in", "drop_in", "put_link")
            \/ LnRestoreFile("put_link", "resolv_conf", "finish") \/ LnFinishRestore
  BY <1>11, LnBeginRestoreKeeps, LnHaltKeeps, LnRestoreFileKeeps, LnFinishRestoreKeeps
<1>12. CASE UNCHANGED lnVars
  BY <1>12 DEF lnVars, LnTypes, LnAtMostOne, LnUp, LnOriginals, LnCovered, LnOpNamed, LnOpRecorded,
     LnOpRestored, LnOpServes, LnManagedServes
<1> QED
  BY <1>1, <1>2, <1>3, <1>4, <1>5, <1>6, <1>7, <1>8, <1>9, <1>10, <1>11, <1>12 DEF LnNext

(* The invariant holds in every reachable state.                            *)
THEOREM LnInvariant == LnSpec => []LnIInv
BY LnInitial, LnInductive, PTL DEF LnSpec

------------------------------------------------------------------------------
(* The variables keep their types, the journal and the lock hold at most    *)
(* one entry and one operation, and only the offline restore runs without   *)
(* the service.                                                             *)
THEOREM LnTypeCorrect == LnSpec => []LnTypeOK
<1>1. LnIInv => LnTypeOK
  BY LnAtMostOneCounts DEF LnIInv, LnTypes, LnTypeOK
<1> QED
  BY <1>1, LnInvariant, PTL

(* While the journal says that the takeover is complete, the saved          *)
(* configuration serves the system.                                         *)
THEOREM LnServesCorrect == LnSpec => []LnManagedServes
<1>1. LnIInv => LnManagedServes
  BY DEF LnIInv
<1> QED
  BY <1>1, LnInvariant, PTL

(* Only the two writing steps of a takeover make a file managed.            *)
LEMMA LnWritesOnly ==
  ASSUME LnIInv, [LnNext]_lnVars, ~ LnWriteDropIn, ~ LnLink
  PROVE  \A f \in LnFileNames : lnFiles'[f] = "managed" => lnFiles[f] = "managed"
<1>1. CASE UNCHANGED lnFiles
  BY <1>1
<1>2. ASSUME NEW f \in LnFileNames, LnPutBack(f), UNCHANGED lnJournal
      PROVE  \A g \in LnFileNames : lnFiles'[g] = "managed" => lnFiles[g] = "managed"
  BY <1>2, LnPutBackKeeps
<1>3. CASE \/ LnRollback("undo_drop_in", "drop_in", "undo_link")
           \/ LnRollback("undo_link", "resolv_conf", "undo_reload")
  BY <1>1, <1>2, <1>3 DEF LnRollback
<1>4. CASE \/ LnRestoreFile("put_drop_in", "drop_in", "put_link")
           \/ LnRestoreFile("put_link", "resolv_conf", "finish")
  BY <1>2, <1>4 DEF LnRestoreFile
<1>5. ASSUME NEW f \in LnFileNames, LnEdit(f)
      PROVE  \A g \in LnFileNames : lnFiles'[g] = "managed" => lnFiles[g] = "managed"
  BY <1>5 DEF LnEdit, LnIInv, LnTypes
<1>6. CASE \/ LnTakeOver \/ LnStartAgain \/ LnJournalOriginals \/ LnStopDns \/ LnReload \/ LnApplyPort
           \/ LnStartAndVerify \/ LnCommit \/ LnTakeOverFails \/ LnUndoPort \/ LnRollbackReload
           \/ LnUndoJournal
  BY <1>1, <1>6 DEF LnTakeOver, LnStartAgain, LnJournalOriginals, LnStopDns, LnReload, LnApplyPort,
     LnStartAndVerify, LnCommit, LnTakeOverFails, LnUndoPort, LnRollbackReload, LnUndoJournal
<1>7. CASE \/ \E name \in {"restore", "shutdown", "offline"}, keep \in BOOLEAN : LnRestore(name, keep)
           \/ LnBeginRestore \/ LnHalt \/ LnFinishRestore \/ LnOperationFails \/ LnStart
           \/ LnNothingToRestore \/ LnExit \/ LnCrash \/ LnSaveConfig \/ UNCHANGED lnVars
  BY <1>1, <1>7 DEF LnRestore, LnBeginRestore, LnHalt, LnFinishRestore, LnOperationFails, LnStart,
     LnNothingToRestore, LnExit, LnCrash, LnSaveConfig, lnVars
<1> QED
  BY <1>3, <1>4, <1>5, <1>6, <1>7 DEF LnNext

(* The transaction implements the journal: a file is replaced only when its *)
(* original is on disk with the note to put it back, and the note stays     *)
(* until it is back, across every failure and crash.                        *)
THEOREM LnJournalCorrect == LnSpec => LnJournalled
<1>1. LnInit => LnJournalView!Init
  BY DEF LnInit, LnJournalView!Init, LnReplaced, LnRecorded
<1>2. LnIInv /\ LnIInv' /\ [LnNext]_lnVars => [LnJournalView!Next]_<<LnReplaced, LnRecorded>>
  <2> SUFFICES ASSUME LnIInv, LnIInv', [LnNext]_lnVars
               PROVE  [LnJournalView!Next]_<<LnReplaced, LnRecorded>>
    OBVIOUS
  <2>1. LnReplaced \subseteq LnRecorded /\ LnReplaced' \subseteq LnRecorded'
    BY DEF LnIInv, LnCovered, LnReplaced, LnRecorded
  <2>2. LnRecorded' \in SUBSET LnFileNames
    BY DEF LnRecorded
  <2>3. CASE LnWriteDropIn \/ LnLink
    <3>1. LnRecorded' = LnRecorded
      BY <2>3 DEF LnWriteDropIn, LnLink, LnStay, LnRecorded
    <3>2. LnReplaced \subseteq LnReplaced'
      BY <2>3 DEF LnWriteDropIn, LnLink, LnStay, LnReplaced, LnIInv, LnTypes
    <3> QED
      BY <2>1, <3>1, <3>2 DEF LnJournalView!Next, LnJournalView!Replace
  <2>4. CASE ~ LnWriteDropIn /\ ~ LnLink
    <3>1. LnReplaced' \in SUBSET LnReplaced
      BY <2>4, LnWritesOnly DEF LnReplaced, LnIInv, LnOriginals
    <3> QED
      BY <2>1, <2>2, <3>1 DEF LnJournalView!Next, LnJournalView!PutBack
  <2> QED
    BY <2>3, <2>4
<1> QED
  BY <1>1, <1>2, LnInvariant, PTL DEF LnSpec, LnJournalled, LnJournalView!Spec

(* An orderly stop that is done with the system DNS leaves no file that     *)
(* points to the server, unless the journal asks for the restore or others  *)
(* changed the files.                                                       *)
THEOREM LnStopCorrect == LnSpec => LnStopRestores
<1> DEFINE Stopped == LnReplaced' = {} \/ \E e \in lnJournal' : e.pending \/ ~ LnOwned(e)
           Stops == lnPhase = "up" /\ lnPhase' = "leaving" /\ lnFaults' = lnFaults
<1>1. LnIInv /\ LnIInv' /\ [LnNext]_lnVars => [Stops => Stopped]_lnVars
  <2> SUFFICES ASSUME LnIInv, LnIInv', [LnNext]_lnVars, Stops PROVE Stopped
    OBVIOUS
  <2> USE DEF LnIInv
  <2>1. CASE LnNothingToRestore
    <3>1. \A f \in LnReplaced : \E e \in lnJournal : e.pending \/ ~ LnOwned(e)
      BY <2>1 DEF LnNothingToRestore, LnReplaced, LnCovered
    <3>2. LnReplaced' = LnReplaced /\ UNCHANGED lnJournal
      BY <2>1 DEF LnNothingToRestore, LnReplaced
    <3> QED
      BY <3>1, <3>2
  <2>2. CASE LnFinishRestore
    <3>1. \A f \in LnFileNames : lnFiles[f] # "managed"
      BY <2>2, LnOperation DEF LnFinishRestore, LnOpRestored
    <3> QED
      BY <2>2, <3>1 DEF LnFinishRestore, LnReplaced
  <2>3. CASE LnStartAgain \/ LnCommit \/ LnUndoJournal
    <3>1. PICK o \in lnOp : lnOp = {o} /\ o.step \in {"check", "commit", "undo_journal"}
      <4>1. PICK o \in lnOp : o.step \in {"check", "commit", "undo_journal"}
        BY <2>3 DEF LnStartAgain, LnCommit, LnUndoJournal, LnAt
      <4> QED
        BY <4>1 DEF LnTypes, LnAtMostOne
    <3>2. o.name # "shutdown"
      BY <3>1 DEF LnOpNamed, LnTakeoverOnly, LnWriting
    <3> QED
      BY <2>3, <3>1, <3>2 DEF LnStartAgain, LnCommit, LnUndoJournal, LnEnd
  <2>4. CASE LnOperationFails
    BY <2>4 DEF LnOperationFails, LnFail, LnTypes
  <2>5. ~ LnStart /\ ~ LnExit /\ ~ LnCrash /\ ~ UNCHANGED lnPhase
    BY DEF LnStart, LnExit, LnCrash
  <2>6. ~ \/ LnTakeOver \/ LnJournalOriginals \/ LnStopDns \/ LnWriteDropIn \/ LnLink \/ LnReload
          \/ LnApplyPort \/ LnStartAndVerify \/ LnTakeOverFails \/ LnUndoPort \/ LnRollbackReload
    BY <2>5 DEF LnTakeOver, LnJournalOriginals, LnStopDns, LnWriteDropIn, LnLink, LnReload,
       LnApplyPort, LnStartAndVerify, LnTakeOverFails, LnUndoPort, LnRollbackReload, LnStay
  <2>7. ~ \/ LnRollback("undo_drop_in", "drop_in", "undo_link")
          \/ LnRollback("undo_link", "resolv_conf", "undo_reload")
          \/ LnRestoreFile("put_drop_in", "drop_in", "put_link")
          \/ LnRestoreFile("put_link", "resolv_conf", "finish")
          \/ \E name \in {"restore", "shutdown", "offline"}, keep \in BOOLEAN : LnRestore(name, keep)
          \/ LnBeginRestore \/ LnHalt \/ LnSaveConfig \/ \E f \in LnFileNames : LnEdit(f)
          \/ UNCHANGED lnVars
    BY <2>5 DEF LnRollback, LnRestoreFile, LnRestore, LnBeginRestore, LnHalt, LnSaveConfig, LnEdit,
       LnStay, lnVars
  <2> QED
    BY <2>1, <2>2, <2>3, <2>4, <2>5, <2>6, <2>7 DEF LnNext
<1> QED
  BY <1>1, LnInvariant, PTL DEF LnSpec, LnStopRestores

------------------------------------------------------------------------------

WnAtMostOne(S) == \A x, y \in S : x = y

WnBackups == UNION {[D -> {"own", "other"}] : D \in SUBSET WnSlots}
WnChanges == [slot : WnSlots, servers : WnServers, taken : BOOLEAN, stuck : BOOLEAN]
WnOps == [name : WnOpNames, step : {"work", "undo"}, todo : Seq(WnSlots), changes : Seq(WnChanges),
          before : SUBSET WnBackups, errors : BOOLEAN]

(* WnTypeOK with "at most one" in place of the cardinalities. *)
WnTypes ==
    /\ wnServers \in [WnSlots -> WnServers] /\ wnOriginal \in [WnSlots -> WnServers]
    /\ wnConnected \in SUBSET Adapters
    /\ wnBackup \in SUBSET WnBackups /\ WnAtMostOne(wnBackup)
    /\ wnOp \in SUBSET WnOps /\ WnAtMostOne(wnOp)
    /\ wnChecked \in SUBSET {"takeover", "serve", "stop"}
    /\ wnServing \in BOOLEAN /\ wnUp \in BOOLEAN
    /\ wnOp # {} \/ wnChecked # {} => wnUp
    /\ wnTaken \in SUBSET WnSlots /\ wnStuck \in SUBSET WnSlots
    /\ wnFaults \in 0..MaxWnFaults /\ wnEdits \in 0..MaxWnEdits

(* The slots for which the journal promises something, and the backups that *)
(* hold what a slot had.                                                    *)
WnHeld == wnTaken \ wnStuck
WnSaved(backup, s) == \E b \in backup : s \in DOMAIN b /\ b[s] = wnOriginal[s]

WnPointed == \A s \in wnTaken : wnServers[s] = "local"
WnCovered == \A s \in WnHeld : WnSaved(wnBackup, s)

WnOpOrdered == \A o \in wnOp : \A i, j \in 1..Len(o.todo) : i # j => o.todo[i] # o.todo[j]

WnOpTakeover == \A o \in wnOp : o.name = "takeover" =>
    /\ WnAtMostOne(o.before)
    /\ o.step = "work" => \A i \in 1..Len(o.todo) :
          /\ wnServers[o.todo[i]] # "local"
          /\ \E b \in wnBackup : o.todo[i] \in DOMAIN b /\ b[o.todo[i]] = wnServers[o.todo[i]]
    /\ \A i \in 1..Len(o.changes) : ~ o.changes[i].taken /\ o.changes[i].servers # "local"
    /\ \A s \in WnHeld : WnSaved(o.before, s) \/ \E i \in 1..Len(o.changes) : o.changes[i].slot = s

(* An undo that points a slot to the program again finds it recorded. *)
WnOpChanges == \A o \in wnOp : \A i \in 1..Len(o.changes) : o.changes[i].taken =>
    /\ o.changes[i].servers = "local"
    /\ o.changes[i].stuck \/ WnSaved(wnBackup, o.changes[i].slot)

WnOpRestores == \A o \in wnOp :
    /\ o.name = "fallback" \/ (o.name \in {"restore", "uninstall"} /\ ~ o.errors)
    /\ o.step = "work"
    => \A s \in WnHeld : \E i \in 1..Len(o.todo) : o.todo[i] = s

WnOpRecorded == \A o \in wnOp : o.name \in {"restore", "uninstall"} =>
    \A i \in 1..Len(o.todo) : o.todo[i] \in WnRecordedSlots

WnIInv == /\ WnTypes /\ WnPointed /\ WnCovered
          /\ WnOpOrdered /\ WnOpRecorded /\ WnOpTakeover /\ WnOpChanges /\ WnOpRestores

------------------------------------------------------------------------------
(* A set with at most one element counts at most one.                       *)
LEMMA WnAtMostOneCounts ==
  ASSUME NEW S, WnAtMostOne(S)
  PROVE  Cardinality(S) <= 1
<1>1. CASE S = {}
  BY <1>1, FS_EmptySet
<1>2. CASE S # {}
  <2>1. PICK x \in S : S = {x}
    BY <1>2 DEF WnAtMostOne
  <2> QED
    BY <2>1, FS_Singleton
<1> QED
  BY <1>1, <1>2

(* There are finitely many slots.                                           *)
LEMMA WnSlotsFinite == IsFiniteSet(WnSlots)
<1>1. IsFiniteSet({"ipv4", "ipv6"})
  <2>1. IsFiniteSet({}) /\ IsFiniteSet({"ipv6"} \cup {}) /\ IsFiniteSet({"ipv4"} \cup {"ipv6"})
    BY FS_EmptySet, FS_Singleton, FS_Union
  <2>2. {"ipv4"} \cup {"ipv6"} = {"ipv4", "ipv6"}
    OBVIOUS
  <2> QED
    BY <2>1, <2>2
<1> QED
  BY <1>1, FS_Product, WnConstants DEF WnSlots

(* A loop goes through each of its slots, and through each only once.       *)
LEMMA WnOrderSound ==
  ASSUME NEW slots \in SUBSET WnSlots, NEW q \in WnOrders(slots)
  PROVE  /\ q \in Seq(WnSlots)
         /\ \A i \in 1..Len(q) : q[i] \in slots
         /\ \A i, j \in 1..Len(q) : i # j => q[i] # q[j]
         /\ \A s \in slots : \E i \in 1..Len(q) : q[i] = s
<1>1. IsFiniteSet(slots) /\ Cardinality(slots) \in Nat
  BY WnSlotsFinite, FS_Subset, FS_CardinalityType
<1>2. PICK n \in Nat : n = Cardinality(slots)
  BY <1>1
<1>3. /\ q \in [1..n -> slots]
      /\ \A i, j \in 1..n : i # j => q[i] # q[j]
  BY <1>2 DEF WnOrders
<1>4. q \in Seq(WnSlots) /\ Len(q) = n
  BY <1>3
<1>5. q \in Injection(1..n, slots)
  BY <1>3 DEF Injection, IsInjective
<1>6. IsFiniteSet(1..n) /\ Cardinality(1..n) = n
  BY FS_Interval
<1>7. q \in Surjection(1..n, slots)
  BY <1>1, <1>2, <1>5, <1>6, FS_Injection
<1> QED
  BY <1>3, <1>4, <1>7 DEF Surjection

(* The rest of a loop is what comes after its next slot.                    *)
LEMMA WnRest ==
  ASSUME NEW S, NEW q \in Seq(S), q # <<>>
  PROVE  /\ Head(q) \in S /\ Tail(q) \in Seq(S) /\ 1 \in 1..Len(q) /\ q[1] = Head(q)
         /\ Len(Tail(q)) = Len(q) - 1
         /\ \A i \in 1..Len(Tail(q)) : i + 1 \in 1..Len(q) /\ Tail(q)[i] = q[i + 1]
         /\ \A i \in 1..Len(q) : i # 1 => i - 1 \in 1..Len(Tail(q)) /\ q[i] = Tail(q)[i - 1]
OBVIOUS

(* What is left of the slots of an operation when s, the first, is done.    *)
WnListedOnce(q) == \A i, j \in 1..Len(q) : i # j => q[i] # q[j]
WnLeft(q, s, t) ==
  /\ \A i \in 1..Len(t) : t[i] # s /\ t[i] \in WnSlots /\ \E j \in 1..Len(q) : t[i] = q[j]
  /\ \A r : (\E i \in 1..Len(q) : q[i] = r) => r = s \/ \E i \in 1..Len(t) : t[i] = r

LEMMA WnRestListed ==
  ASSUME NEW q \in Seq(WnSlots), q # <<>>, NEW s, s = Head(q), NEW t, t = Tail(q),
         WnListedOnce(q)
  PROVE  WnListedOnce(t) /\ WnLeft(q, s, t)
<1>1. Len(t) = Len(q) - 1 /\ Len(q) \in Nat \ {0} /\ s = q[1] /\ \A i \in 1..Len(t) : t[i] = q[i + 1]
  BY WnRest
<1>2. ASSUME NEW i \in 1..Len(t), NEW j \in 1..Len(t), i # j
      PROVE  t[i] # t[j]
  <2>1. i + 1 \in 1..Len(q) /\ j + 1 \in 1..Len(q) /\ i + 1 # j + 1
    BY <1>1, <1>2
  <2> QED
    BY <1>1, <2>1 DEF WnListedOnce
<1>3. ASSUME NEW i \in 1..Len(t)
      PROVE  t[i] # s /\ t[i] \in WnSlots /\ \E j \in 1..Len(q) : t[i] = q[j]
  <2>1. i + 1 \in 1..Len(q) /\ 1 \in 1..Len(q) /\ i + 1 # 1
    BY <1>1
  <2> QED
    BY <1>1, <2>1 DEF WnListedOnce
<1>4. ASSUME NEW r, NEW i \in 1..Len(q), q[i] = r
      PROVE  r = s \/ \E j \in 1..Len(t) : t[j] = r
  <2>1. CASE i = 1
    BY <1>1, <1>4, <2>1
  <2>2. CASE i # 1
    <3>1. i - 1 \in 1..Len(t) /\ (i - 1) + 1 = i
      BY <1>1, <2>2
    <3> QED
      BY <1>1, <1>4, <3>1
  <2> QED
    BY <2>1, <2>2
<1> QED
  BY ONLY <1>2, <1>3, <1>4, Zenon DEF WnListedOnce, WnLeft

(* The operation at a step is the only one there is.                        *)
LEMMA WnOperation ==
  ASSUME WnTypes, NEW names, NEW step, WnAt(names, step)
  PROVE  \E o \in WnOps : wnOp = {o} /\ o.name \in names /\ o.step = step /\ WnThe = o
BY DEF WnTypes, WnAtMostOne, WnAt, WnThe

(* There is one backup file, if there is any.                               *)
LEMMA WnOneBackup ==
  ASSUME WnTypes, wnBackup # {}
  PROVE  \E b \in WnBackups : wnBackup = {b}
BY DEF WnTypes, WnAtMostOne

(* A backup is a function from some of the slots.                           *)
LEMMA WnBackupDomain ==
  ASSUME NEW b \in WnBackups
  PROVE  /\ DOMAIN b \in SUBSET WnSlots
         /\ b \in [DOMAIN b -> {"own", "other"}]
         /\ \A s \in DOMAIN b : b[s] \in {"own", "other"}
<1>1. PICK D \in SUBSET WnSlots : b \in [D -> {"own", "other"}]
  BY DEF WnBackups
<1> QED
  BY <1>1

(* The slots a step looks at are slots of the system.                       *)
LEMMA WnSlotsSeen ==
  ASSUME WnTypes
  PROVE  WnActive \in SUBSET WnSlots /\ WnRecordedSlots \in SUBSET WnSlots
<1>1. WnActive \in SUBSET WnSlots
  BY DEF WnTypes, WnActive, WnSlots
<1>2. WnRecordedSlots \in SUBSET WnSlots
  BY WnBackupDomain DEF WnTypes, WnRecordedSlots
<1> QED
  BY <1>1, <1>2

(* A step uses up at most one fault and changes no other budget.            *)
LEMMA WnBudgets ==
  ASSUME WnTypes, WnOk \/ WnFail
  PROVE  wnFaults' \in 0..MaxWnFaults /\ wnEdits' \in 0..MaxWnEdits
BY WnConstants DEF WnTypes, WnOk, WnFail

(* An operation begins with all of its slots to do and nothing done.        *)
WnFresh(o, name, slots) ==
    /\ wnOp' = {o} /\ o.name = name /\ o.step = "work" /\ ~ o.errors
    /\ Len(o.changes) = 0 /\ o.before = wnBackup
    /\ \A i \in 1..Len(o.todo) : o.todo[i] \in slots
    /\ \A i, j \in 1..Len(o.todo) : i # j => o.todo[i] # o.todo[j]
    /\ \A s \in slots : \E i \in 1..Len(o.todo) : o.todo[i] = s

LEMMA WnBegun ==
  ASSUME WnTypes, NEW name \in WnOpNames, NEW slots \in SUBSET WnSlots, WnBegin(name, slots)
  PROVE  \E o \in WnOps : WnFresh(o, name, slots)
<1>1. PICK q \in WnOrders(slots) :
         wnOp' = {[name |-> name, step |-> "work", todo |-> q, changes |-> <<>>,
                   before |-> wnBackup, errors |-> FALSE]}
  BY DEF WnBegin
<1>2. PICK o : o = [name |-> name, step |-> "work", todo |-> q, changes |-> <<>>,
                    before |-> wnBackup, errors |-> FALSE]
  OBVIOUS
<1>3. q \in Seq(WnSlots)
  BY WnOrderSound
<1>4. o \in WnOps
  BY <1>2, <1>3 DEF WnOps, WnTypes
<1>5. /\ wnOp' = {o} /\ o.name = name /\ o.step = "work" /\ ~ o.errors
      /\ Len(o.changes) = 0 /\ o.before = wnBackup /\ o.todo = q
  BY <1>1, <1>2
<1>6. WnFresh(o, name, slots)
  BY <1>5, WnOrderSound DEF WnFresh
<1> QED
  BY <1>4, <1>6

(* The invariant holds before the first operation.                          *)
LEMMA WnInitial == WnInit => WnIInv
<1> SUFFICES ASSUME WnInit PROVE WnIInv
  OBVIOUS
<1>1. WnTypes
  BY WnConstants DEF WnInit, WnTypes, WnAtMostOne, WnServers
<1> QED
  BY <1>1 DEF WnInit, WnIInv, WnPointed, WnCovered, WnHeld, WnOpOrdered, WnOpRecorded, WnOpTakeover,
     WnOpChanges, WnOpRestores

(* Between operations only the slots and the backup matter.                 *)
LEMMA WnBetween ==
  ASSUME WnTypes', wnOp' = {}, WnPointed', WnCovered'
  PROVE  WnIInv'
BY DEF WnIInv, WnOpOrdered, WnOpRecorded, WnOpTakeover, WnOpChanges, WnOpRestores

(* Steps beside the operations.                                             *)
LEMMA WnBesides ==
  ASSUME WnIInv, WnTypes', UNCHANGED <<wnServers, wnBackup, wnOp, wnHistory>>
  PROVE  WnIInv'
BY DEF WnIInv, WnPointed, WnCovered, WnHeld, WnSaved, WnOpOrdered, WnOpRecorded, WnRecordedSlots,
   WnOpTakeover, WnOpChanges, WnOpRestores, wnHistory

(* The end of an operation, or of the process, leaves the slots alone.      *)
LEMMA WnEnds ==
  ASSUME WnIInv, WnTypes', wnOp' = {}, UNCHANGED <<wnServers, wnHistory>>,
         \A s \in WnHeld : WnSaved(wnBackup', s)
  PROVE  WnIInv'
<1>1. WnPointed'
  BY DEF WnIInv, WnPointed, wnHistory
<1>2. WnCovered'
  BY DEF WnCovered, WnHeld, WnSaved, wnHistory
<1> QED
  BY <1>1, <1>2, WnBetween

LEMMA WnCheckTakeOverKeeps == WnIInv /\ WnCheckTakeOver => WnIInv'
<1> SUFFICES ASSUME WnIInv, WnCheckTakeOver PROVE WnIInv'
  OBVIOUS
<1>1. WnTypes'
  BY WnBudgets DEF WnIInv, WnTypes, WnAtMostOne, WnCheckTakeOver, WnStay, wnHistory
<1> QED
  BY <1>1, WnBesides DEF WnCheckTakeOver

LEMMA WnCheckSaveKeeps == WnIInv /\ WnCheckSave => WnIInv'
<1> SUFFICES ASSUME WnIInv, WnCheckSave PROVE WnIInv'
  OBVIOUS
<1>1. WnTypes'
  BY WnBudgets DEF WnIInv, WnTypes, WnAtMostOne, WnCheckSave, WnStay, wnHistory
<1> QED
  BY <1>1, WnBesides DEF WnCheckSave

LEMMA WnSaveKeeps == WnIInv /\ WnSave => WnIInv'
<1> SUFFICES ASSUME WnIInv, WnSave PROVE WnIInv'
  OBVIOUS
<1>1. wnServing' \in BOOLEAN
  BY DEF WnSave
<1>2. WnTypes'
  BY <1>1, WnBudgets DEF WnIInv, WnTypes, WnAtMostOne, WnSave, wnHistory
<1> QED
  BY <1>2, WnBesides DEF WnSave

LEMMA WnStartKeeps == WnIInv /\ WnStart => WnIInv'
<1> SUFFICES ASSUME WnIInv, WnStart PROVE WnIInv'
  OBVIOUS
<1>1. WnTypes'
  BY WnBudgets DEF WnIInv, WnTypes, WnAtMostOne, WnStart, wnHistory
<1> QED
  BY <1>1, WnBesides DEF WnStart

LEMMA WnCrashKeeps == WnIInv /\ WnCrash => WnIInv'
<1> SUFFICES ASSUME WnIInv, WnCrash PROVE WnIInv'
  OBVIOUS
<1>1. WnTypes'
  BY WnBudgets DEF WnIInv, WnTypes, WnAtMostOne, WnCrash, wnHistory
<1> QED
  BY <1>1, WnEnds DEF WnIInv, WnCovered, WnCrash

(* What the user sets is the user's.                                        *)
LEMMA WnEditKeeps == WnIInv /\ WnEdit => WnIInv'
<1> SUFFICES ASSUME WnIInv, WnEdit PROVE WnIInv'
  OBVIOUS
<1>1. wnFaults' \in 0..MaxWnFaults /\ wnEdits' \in 0..MaxWnEdits
  BY WnConstants DEF WnIInv, WnTypes, WnEdit
<1>2. ASSUME NEW s \in WnSlots, NEW v \in {"local", "other"},
             wnServers' = [wnServers EXCEPT ![s] = v], wnTaken' = wnTaken \ {s}, wnStuck' = wnStuck \ {s},
             UNCHANGED <<wnConnected, wnOriginal>>
      PROVE  WnIInv'
  <2>1. WnTypes'
    BY <1>1, <1>2 DEF WnIInv, WnTypes, WnAtMostOne, WnEdit, WnServers
  <2>2. WnPointed'
    BY <1>2 DEF WnIInv, WnTypes, WnPointed
  <2>3. WnCovered'
    BY <1>2 DEF WnIInv, WnTypes, WnCovered, WnHeld, WnSaved, WnEdit
  <2> QED
    BY <2>1, <2>2, <2>3, WnBetween DEF WnEdit
<1>3. ASSUME NEW a \in Adapters, wnConnected' = (wnConnected \ {a}) \cup ({a} \ wnConnected),
             UNCHANGED <<wnServers, wnHistory>>
      PROVE  WnIInv'
  <2>1. WnTypes'
    BY <1>1, <1>3 DEF WnIInv, WnTypes, WnAtMostOne, WnEdit, wnHistory
  <2> QED
    BY <1>3, <2>1, WnBesides DEF WnEdit
<1> QED
  BY <1>2, <1>3 DEF WnEdit

(* An operation on recorded or connected slots begins.                      *)
LEMMA WnBeginKeeps ==
  ASSUME WnIInv, WnTypes', UNCHANGED <<wnServers, wnBackup, wnHistory>>,
         NEW o \in WnOps, wnOp' = {o}, o.name # "takeover", Len(o.changes) = 0,
         \A i, j \in 1..Len(o.todo) : i # j => o.todo[i] # o.todo[j],
         o.name # "replace" => /\ \A i \in 1..Len(o.todo) : o.todo[i] \in WnRecordedSlots
                               /\ \A s \in WnRecordedSlots : \E i \in 1..Len(o.todo) : o.todo[i] = s
  PROVE  WnIInv'
<1>1. WnPointed' /\ WnCovered'
  BY DEF WnIInv, WnPointed, WnCovered, WnHeld, WnSaved, wnHistory
<1>2. WnOpOrdered' /\ WnOpTakeover' /\ WnOpChanges'
  BY DEF WnOpOrdered, WnOpTakeover, WnOpChanges
<1>3. \A s \in WnHeld : s \in WnRecordedSlots
  BY DEF WnIInv, WnCovered, WnSaved, WnRecordedSlots
<1>4. WnOpRestores'
  BY <1>3 DEF WnOpRestores, WnHeld, wnHistory
<1>5. WnOpRecorded'
  BY DEF WnOpRecorded, WnRecordedSlots
<1> QED
  BY <1>1, <1>2, <1>4, <1>5 DEF WnIInv

LEMMA WnRestoreKeeps ==
  ASSUME WnIInv, NEW name \in {"restore", "uninstall"}, WnRestore(name)
  PROVE  WnIInv'
<1>1. PICK o \in WnOps : /\ wnOp' = {o} /\ o.name = name /\ Len(o.changes) = 0
                         /\ \A i, j \in 1..Len(o.todo) : i # j => o.todo[i] # o.todo[j]
                         /\ \A i \in 1..Len(o.todo) : o.todo[i] \in WnRecordedSlots
                         /\ \A s \in WnRecordedSlots : \E i \in 1..Len(o.todo) : o.todo[i] = s
  <2>1. name \in WnOpNames
    BY DEF WnOpNames
  <2>2. WnBegin(name, WnRecordedSlots)
    BY DEF WnRestore
  <2>3. WnRecordedSlots \in SUBSET WnSlots
    BY WnSlotsSeen DEF WnIInv
  <2>4. WnTypes
    BY DEF WnIInv
  <2>5. \E o \in WnOps : WnFresh(o, name, WnRecordedSlots)
    BY <2>1, <2>2, <2>3, <2>4, WnBegun
  <2> QED
    BY <2>5 DEF WnFresh
<1>2. WnTypes'
  BY <1>1, WnBudgets DEF WnIInv, WnTypes, WnAtMostOne, WnRestore, WnStay, wnHistory
<1> QED
  BY <1>1, <1>2, WnBeginKeeps DEF WnRestore

LEMMA WnFallbackKeeps == WnIInv /\ WnFallback => WnIInv'
<1> SUFFICES ASSUME WnIInv, WnFallback PROVE WnIInv'
  OBVIOUS
<1>1. PICK o \in WnOps : /\ wnOp' = {o} /\ o.name = "fallback" /\ Len(o.changes) = 0
                         /\ \A i, j \in 1..Len(o.todo) : i # j => o.todo[i] # o.todo[j]
                         /\ \A i \in 1..Len(o.todo) : o.todo[i] \in WnRecordedSlots
                         /\ \A s \in WnRecordedSlots : \E i \in 1..Len(o.todo) : o.todo[i] = s
  <2>1. "fallback" \in WnOpNames /\ WnBegin("fallback", WnRecordedSlots)
    BY DEF WnFallback, WnOpNames
  <2>2. WnTypes /\ WnRecordedSlots \in SUBSET WnSlots
    BY WnSlotsSeen DEF WnIInv
  <2>3. \E o \in WnOps : WnFresh(o, "fallback", WnRecordedSlots)
    BY <2>1, <2>2, WnBegun
  <2> QED
    BY <2>3 DEF WnFresh
<1>2. WnTypes'
  BY <1>1, WnBudgets DEF WnIInv, WnTypes, WnAtMostOne, WnFallback, WnStay, wnHistory
<1> QED
  BY <1>1, <1>2, WnBeginKeeps DEF WnFallback

LEMMA WnReplaceUnmanagedKeeps == WnIInv /\ WnReplaceUnmanaged => WnIInv'
<1> SUFFICES ASSUME WnIInv, WnReplaceUnmanaged PROVE WnIInv'
  OBVIOUS
<1>1. PICK o \in WnOps : /\ wnOp' = {o} /\ o.name = "replace" /\ Len(o.changes) = 0
                         /\ \A i, j \in 1..Len(o.todo) : i # j => o.todo[i] # o.todo[j]
  <2>1. PICK slots : slots = {s \in WnActive : wnServers[s] = "local"}
    OBVIOUS
  <2>2. slots \in SUBSET WnSlots /\ WnBegin("replace", slots) /\ "replace" \in WnOpNames
    BY <2>1, WnSlotsSeen DEF WnIInv, WnReplaceUnmanaged, WnOpNames
  <2>3. \E o \in WnOps : WnFresh(o, "replace", slots)
    BY <2>2, WnBegun DEF WnIInv
  <2> QED
    BY <2>3 DEF WnFresh
<1>2. WnTypes'
  BY <1>1, WnBudgets DEF WnIInv, WnTypes, WnAtMostOne, WnReplaceUnmanaged, WnStay, wnHistory
<1> QED
  BY <1>1, <1>2, WnBeginKeeps DEF WnReplaceUnmanaged

(* The merged backup keeps the record of every held slot, holds the current *)
(* servers of every slot to be taken over, and never the loopback address.  *)
LEMMA WnMergedSound ==
  ASSUME WnIInv, NEW old, old = (IF wnBackup = {} THEN <<>> ELSE CHOOSE b \in wnBackup : TRUE),
         NEW new, new = WnMerged(old), ~ WnRefused(new)
  PROVE  /\ new \in WnBackups
         /\ \A s \in WnHeld : s \in DOMAIN new /\ new[s] = wnOriginal[s]
         /\ \A s \in WnActive : wnServers[s] # "local" => s \in DOMAIN new /\ new[s] = wnServers[s]
<1>1. /\ DOMAIN old \in SUBSET WnSlots
      /\ \A s \in DOMAIN old : old[s] \in {"own", "other"}
      /\ \A s \in WnHeld : s \in DOMAIN old /\ old[s] = wnOriginal[s]
  <2>1. CASE wnBackup = {}
    <3>1. WnHeld = {}
      BY <2>1 DEF WnIInv, WnCovered, WnSaved
    <3>2. DOMAIN old = {}
      BY <2>1
    <3> QED
      BY <3>1, <3>2
  <2>2. CASE wnBackup # {}
    <3>1. PICK b \in WnBackups : wnBackup = {b}
      BY <2>2, WnOneBackup DEF WnIInv
    <3>2. old = b
      BY <3>1
    <3> QED
      BY <3>1, <3>2, WnBackupDomain DEF WnIInv, WnCovered, WnSaved
  <2> QED
    BY <2>1, <2>2
<1>2. WnActive \in SUBSET WnSlots
  BY WnSlotsSeen DEF WnIInv
<1>3. DOMAIN new = DOMAIN old \cup WnActive
  BY DEF WnMerged
<1>4. \A s \in DOMAIN new : new[s] = IF s \in WnActive /\ ~ (s \in DOMAIN old /\ wnServers[s] = "local")
                                       THEN wnServers[s] ELSE old[s]
  BY DEF WnMerged
<1>5. \A s \in DOMAIN new : new[s] \in {"own", "other"}
  <2> TAKE s \in DOMAIN new
  <2>1. CASE s \in WnActive /\ ~ (s \in DOMAIN old /\ wnServers[s] = "local")
    <3>1. new[s] = wnServers[s] /\ wnServers[s] \in WnServers
      BY <2>1, <1>2, <1>4 DEF WnIInv, WnTypes
    <3>2. new[s] # "local"
      BY <2>1 DEF WnRefused
    <3> QED
      BY <3>1, <3>2 DEF WnServers
  <2>2. CASE ~ (s \in WnActive /\ ~ (s \in DOMAIN old /\ wnServers[s] = "local"))
    BY <2>2, <1>1, <1>3, <1>4
  <2> QED
    BY <2>1, <2>2
<1>6. new \in [DOMAIN new -> {"own", "other"}]
  <2>1. new = [s \in DOMAIN new |-> new[s]]
    BY DEF WnMerged
  <2> QED
    BY <2>1, <1>5
<1>7. new \in WnBackups
  <2>1. PICK D \in SUBSET WnSlots : D = DOMAIN new
    BY <1>1, <1>2, <1>3
  <2>2. new \in [D -> {"own", "other"}]
    BY <1>6, <2>1
  <2> QED
    BY ONLY <2>2 DEF WnBackups
<1>8. ASSUME NEW s \in WnHeld PROVE s \in DOMAIN new /\ new[s] = wnOriginal[s]
  <2>1. wnServers[s] = "local"
    BY DEF WnIInv, WnPointed, WnHeld
  <2> QED
    BY <2>1, <1>1, <1>3, <1>4
<1>9. ASSUME NEW s \in WnActive, wnServers[s] # "local" PROVE s \in DOMAIN new /\ new[s] = wnServers[s]
  BY <1>3, <1>4, <1>9
<1> QED
  BY <1>7, <1>8, <1>9

(* The takeover writes its backup before it changes anything.               *)
LEMMA WnTakeOverKeeps == WnIInv /\ WnTakeOver => WnIInv'
<1> SUFFICES ASSUME WnIInv, WnTakeOver PROVE WnIInv'
  OBVIOUS
<1>1. wnFaults' \in 0..MaxWnFaults /\ wnEdits' \in 0..MaxWnEdits
  BY WnBudgets DEF WnIInv, WnTakeOver
<1>2. CASE UNCHANGED <<wnBackup, wnOp>>
  <2>1. WnTypes'
    BY <1>1, <1>2 DEF WnIInv, WnTypes, WnAtMostOne, WnTakeOver, WnStay, wnHistory
  <2> QED
    BY <1>2, <2>1, WnBesides DEF WnTakeOver
<1>3. CASE ~ UNCHANGED <<wnBackup, wnOp>>
  <2>1. PICK old : old = (IF wnBackup = {} THEN <<>> ELSE CHOOSE b \in wnBackup : TRUE)
    OBVIOUS
  <2>2. PICK new : new = WnMerged(old)
    OBVIOUS
  <2>3. PICK slots : slots = {s \in WnActive : wnServers[s] # "local"}
    OBVIOUS
  <2>4. ~ WnRefused(new) /\ wnBackup' = {new} /\ WnBegin("takeover", slots)
    BY <1>3, <2>1, <2>2, <2>3 DEF WnTakeOver
  <2>5. slots \in SUBSET WnSlots /\ "takeover" \in WnOpNames
    BY <2>3, WnSlotsSeen DEF WnIInv, WnOpNames
  <2>6. PICK o \in WnOps : /\ wnOp' = {o} /\ o.name = "takeover" /\ o.step = "work" /\ Len(o.changes) = 0
                           /\ o.before = wnBackup
                           /\ \A i \in 1..Len(o.todo) : o.todo[i] \in slots
                           /\ \A i, j \in 1..Len(o.todo) : i # j => o.todo[i] # o.todo[j]
    <3>1. \E o \in WnOps : WnFresh(o, "takeover", slots)
      BY <2>4, <2>5, WnBegun DEF WnIInv
    <3> QED
      BY <3>1 DEF WnFresh
  <2>7. /\ new \in WnBackups
        /\ \A s \in WnHeld : s \in DOMAIN new /\ new[s] = wnOriginal[s]
        /\ \A s \in WnActive : wnServers[s] # "local" => s \in DOMAIN new /\ new[s] = wnServers[s]
    BY <2>1, <2>2, <2>4, WnMergedSound
  <2>8. UNCHANGED <<wnServers, wnTaken, wnOriginal, wnStuck>>
    BY DEF WnTakeOver, wnHistory
  <2>9. WnTypes'
    BY <1>1, <2>4, <2>6, <2>7, <2>8 DEF WnIInv, WnTypes, WnAtMostOne, WnTakeOver, WnStay
  <2>10. WnPointed' /\ WnCovered'
    BY <2>4, <2>7, <2>8 DEF WnIInv, WnPointed, WnCovered, WnHeld, WnSaved
  <2>11. WnOpOrdered' /\ WnOpRecorded' /\ WnOpChanges' /\ WnOpRestores'
    BY <2>6 DEF WnOpOrdered, WnOpRecorded, WnOpChanges, WnOpRestores
  <2>12. WnOpTakeover'
    <3>1. \A i \in 1..Len(o.todo) : /\ wnServers'[o.todo[i]] # "local"
                                    /\ \E b \in wnBackup' : /\ o.todo[i] \in DOMAIN b
                                                            /\ b[o.todo[i]] = wnServers'[o.todo[i]]
      BY <2>3, <2>4, <2>6, <2>7, <2>8
    <3>2. \A s \in WnHeld' : WnSaved(o.before, s)'
      BY <2>6, <2>8 DEF WnIInv, WnCovered, WnHeld, WnSaved
    <3>3. WnAtMostOne(o.before)
      BY <2>6 DEF WnIInv, WnTypes
    <3> QED
      BY <2>6, <3>1, <3>2, <3>3 DEF WnOpTakeover
  <2> QED
    BY <2>9, <2>10, <2>11, <2>12 DEF WnIInv
<1> QED
  BY <1>2, <1>3

(* A change that fails turns the operation to its undo and touches nothing. *)
LEMMA WnAbandonKeeps ==
  ASSUME WnIInv, WnAbandon, WnStay, UNCHANGED wnChecked
  PROVE  WnIInv'
<1>1. wnFaults' \in 0..MaxWnFaults /\ wnEdits' \in 0..MaxWnEdits
  BY WnBudgets DEF WnIInv, WnAbandon
<1>2. \A o \in WnOps : /\ [o EXCEPT !.step = "undo"] \in WnOps
                       /\ [o EXCEPT !.step = "undo"].name = o.name
                       /\ [o EXCEPT !.step = "undo"].step = "undo"
                       /\ [o EXCEPT !.step = "undo"].todo = o.todo
                       /\ [o EXCEPT !.step = "undo"].changes = o.changes
                       /\ [o EXCEPT !.step = "undo"].before = o.before
  BY DEF WnOps
<1>3. UNCHANGED <<wnServers, wnBackup, wnTaken, wnOriginal, wnStuck>>
  BY DEF WnAbandon, wnHistory
<1>4. \A p \in wnOp' : p \in WnOps /\ p.step = "undo"
                       /\ \E o \in wnOp : /\ p.name = o.name /\ p.todo = o.todo
                                          /\ p.changes = o.changes /\ p.before = o.before
  <2> TAKE p \in wnOp'
  <2>1. PICK o \in wnOp : p = [o EXCEPT !.step = "undo"]
    BY DEF WnAbandon
  <2>2. o \in WnOps
    BY DEF WnIInv, WnTypes
  <2> QED
    BY <1>2, <2>1, <2>2
<1>5. WnAtMostOne(wnOp') /\ (wnOp' # {} => wnOp # {})
  BY DEF WnAbandon, WnIInv, WnTypes, WnAtMostOne
<1>6. WnTypes'
  BY <1>1, <1>3, <1>4, <1>5 DEF WnIInv, WnTypes, WnAtMostOne, WnStay
<1>7. WnPointed' /\ WnCovered'
  BY <1>3 DEF WnIInv, WnPointed, WnCovered, WnHeld, WnSaved
<1>8. WnOpOrdered' /\ WnOpRestores'
  BY <1>4 DEF WnIInv, WnOpOrdered, WnOpRestores
<1>9. WnOpChanges' /\ WnOpRecorded'
  BY <1>3, <1>4 DEF WnIInv, WnOpChanges, WnSaved, WnOpRecorded, WnRecordedSlots
<1>10. WnOpTakeover'
  BY <1>3, <1>4 DEF WnIInv, WnOpTakeover, WnHeld, WnSaved
<1> QED
  BY <1>6, <1>7, <1>8, <1>9, <1>10 DEF WnIInv

(* A change that succeeds.  The slot of a takeover is recorded with what it *)
(* has; the slot of another operation is no longer held.                    *)
LEMMA WnChangeKeeps == WnIInv /\ WnChange => WnIInv'
<1> SUFFICES ASSUME WnIInv, WnChange PROVE WnIInv'
  OBVIOUS
<1>1. PICK o \in WnOps : /\ wnOp = {o} /\ o.name \in {"takeover", "fallback", "replace"}
                         /\ o.step = "work" /\ WnThe = o
  BY WnOperation DEF WnChange, WnIInv
<1>2. o.todo \in Seq(WnSlots) /\ o.todo # <<>> /\ o.changes \in Seq(WnChanges)
  BY <1>1 DEF WnOps, WnChange
<1>3. PICK s \in WnSlots : s = Head(o.todo)
  BY <1>2, WnRest
<1>4. PICK v : v = IF o.name = "takeover" THEN "local" ELSE "other"
  OBVIOUS
<1>5. PICK c : c = [slot |-> s, servers |-> wnServers[s], taken |-> s \in wnTaken, stuck |-> s \in wnStuck]
  OBVIOUS
<1>6. c \in WnChanges /\ c.slot = s /\ c.servers = wnServers[s]
  BY <1>5 DEF WnChanges, WnIInv, WnTypes
<1>7. (c.taken <=> s \in wnTaken) /\ (c.stuck <=> s \in wnStuck)
  BY <1>5
<1>8. CASE WnAbandon
  BY <1>8, WnAbandonKeeps DEF WnChange
<1>9. CASE ~ WnAbandon
  <2>1. /\ WnSet(s, v, v = "local", FALSE) /\ WnOk /\ UNCHANGED wnBackup
        /\ wnOp' = {[x EXCEPT !.todo = Tail(@), !.changes = Append(@, c)] : x \in wnOp}
    BY <1>1, <1>3, <1>4, <1>5, <1>9 DEF WnChange
  <2>2. PICK p : p = [o EXCEPT !.todo = Tail(@), !.changes = Append(@, c)]
    OBVIOUS
  <2>3. wnOp' = {p}
    BY <1>1, <2>1, <2>2
  <2>4. /\ p \in WnOps /\ p.name = o.name /\ p.step = o.step /\ p.before = o.before /\ p.errors = o.errors
        /\ p.todo = Tail(o.todo) /\ p.changes = Append(o.changes, c)
    <3>1. Tail(o.todo) \in Seq(WnSlots) /\ Append(o.changes, c) \in Seq(WnChanges)
      BY <1>2, <1>6, WnRest
    <3> QED
      BY <2>2, <3>1 DEF WnOps
  <2>5. /\ wnServers' = [wnServers EXCEPT ![s] = v]
        /\ wnTaken' = IF o.name = "takeover" THEN wnTaken \cup {s} ELSE wnTaken \ {s}
        /\ wnOriginal' = IF o.name = "takeover" THEN [wnOriginal EXCEPT ![s] = wnServers[s]] ELSE wnOriginal
        /\ wnStuck' = wnStuck \ {s}
    BY <1>1, <1>4, <2>1 DEF WnSet
  <2>6. wnFaults' \in 0..MaxWnFaults /\ wnEdits' \in 0..MaxWnEdits
    BY <2>1, WnBudgets DEF WnIInv
  <2>7. WnTypes'
    <3>1. wnServers' \in [WnSlots -> WnServers] /\ wnOriginal' \in [WnSlots -> WnServers]
      BY <1>4, <2>5 DEF WnIInv, WnTypes, WnServers
    <3> QED
      BY <1>1, <2>1, <2>3, <2>4, <2>5, <2>6, <3>1 DEF WnIInv, WnTypes, WnAtMostOne, WnChange, WnStay
  <2>8. WnPointed'
    BY <1>4, <2>5 DEF WnIInv, WnTypes, WnPointed
  <2>9. /\ \A i, j \in 1..Len(p.todo) : i # j => p.todo[i] # p.todo[j]
        /\ \A i \in 1..Len(p.todo) : p.todo[i] # s /\ p.todo[i] \in WnSlots
                                     /\ \E j \in 1..Len(o.todo) : p.todo[i] = o.todo[j]
        /\ \A r : (\E i \in 1..Len(o.todo) : o.todo[i] = r) => r = s \/ \E i \in 1..Len(p.todo) : p.todo[i] = r
    <3>1. WnListedOnce(o.todo)
      BY <1>1 DEF WnIInv, WnOpOrdered, WnListedOnce
    <3>2. o.todo \in Seq(WnSlots) /\ o.todo # <<>>
      BY <1>2, <1>3
    <3>3. s = Head(o.todo) /\ p.todo = Tail(o.todo)
      BY <1>3, <2>4
    <3>4. WnListedOnce(p.todo) /\ WnLeft(o.todo, s, p.todo)
      BY ONLY <3>1, <3>2, <3>3, WnRestListed, Zenon
    <3> QED
      BY ONLY <3>4, Zenon DEF WnListedOnce, WnLeft
  <2>10. /\ Len(p.changes) = Len(o.changes) + 1 /\ Len(o.changes) \in Nat
         /\ \A i \in 1..Len(o.changes) : p.changes[i] = o.changes[i] /\ i \in 1..Len(p.changes)
         /\ p.changes[Len(p.changes)] = c /\ Len(p.changes) \in 1..Len(p.changes)
         /\ \A i \in 1..Len(p.changes) : i \in 1..Len(o.changes) \/ p.changes[i] = c
    BY <1>2, <1>6, <2>4
  <2>11. WnOpOrdered' /\ WnOpRecorded'
    <3>1. WnOpOrdered'
      BY <2>3, <2>9 DEF WnOpOrdered
    <3>2. WnOpRecorded'
      BY <1>1, <2>3, <2>4 DEF WnOpRecorded
    <3> QED
      BY <3>1, <3>2
  <2>12. CASE o.name = "takeover"
    <3>1. /\ wnServers[s] # "local" /\ s \notin wnTaken
          /\ \E b \in wnBackup : s \in DOMAIN b /\ b[s] = wnServers[s]
      <4>1. 1 \in 1..Len(o.todo) /\ o.todo[1] = s
        BY <1>2, <1>3, WnRest
      <4> QED
        BY <1>1, <2>12, <4>1 DEF WnIInv, WnOpTakeover, WnPointed
    <3>2. /\ \A r \in WnHeld' : r = s \/ r \in WnHeld
          /\ \A r \in WnSlots : r # s => wnOriginal'[r] = wnOriginal[r] /\ wnServers'[r] = wnServers[r]
          /\ wnOriginal'[s] = wnServers[s]
      BY <2>5, <2>12 DEF WnHeld, WnIInv, WnTypes
    <3>3. WnHeld \in SUBSET WnSlots /\ s \notin WnHeld
      BY <3>1 DEF WnHeld, WnIInv, WnTypes
    <3>4. WnCovered'
      BY <2>1, <3>1, <3>2, <3>3 DEF WnIInv, WnCovered, WnSaved
    <3>5. \A i \in 1..Len(p.todo) : /\ wnServers'[p.todo[i]] # "local"
                                    /\ \E b \in wnBackup' : /\ p.todo[i] \in DOMAIN b
                                                            /\ b[p.todo[i]] = wnServers'[p.todo[i]]
      <4>1. \A j \in 1..Len(o.todo) : /\ wnServers[o.todo[j]] # "local"
                                      /\ \E b \in wnBackup : /\ o.todo[j] \in DOMAIN b
                                                             /\ b[o.todo[j]] = wnServers[o.todo[j]]
        BY <1>1, <2>12 DEF WnIInv, WnOpTakeover
      <4> TAKE i \in 1..Len(p.todo)
      <4>2. PICK j \in 1..Len(o.todo) : p.todo[i] = o.todo[j]
        BY <2>9
      <4>3. p.todo[i] \in WnSlots /\ wnServers'[p.todo[i]] = wnServers[p.todo[i]]
        BY <2>9, <3>2
      <4> QED
        BY <2>1, <4>1, <4>2, <4>3
    <3>6. \A i \in 1..Len(p.changes) : ~ p.changes[i].taken /\ p.changes[i].servers # "local"
      <4>1. \A i \in 1..Len(o.changes) : ~ o.changes[i].taken /\ o.changes[i].servers # "local"
        BY <1>1, <2>12 DEF WnIInv, WnOpTakeover
      <4> QED
        BY <1>6, <1>7, <2>10, <3>1, <4>1
    <3>7. ASSUME NEW r \in WnHeld'
          PROVE  WnSaved(p.before, r)' \/ \E i \in 1..Len(p.changes) : p.changes[i].slot = r
      <4>1. CASE r = s
        BY <4>1, <1>6, <2>10
      <4>2. CASE r # s
        <5>1. WnSaved(o.before, r) \/ \E i \in 1..Len(o.changes) : o.changes[i].slot = r
          BY <4>2, <1>1, <2>12, <3>2 DEF WnIInv, WnOpTakeover
        <5>2. wnOriginal'[r] = wnOriginal[r]
          BY <4>2, <3>2, <3>3
        <5> QED
          BY <5>1, <5>2, <2>4, <2>10 DEF WnSaved
      <4> QED
        BY <4>1, <4>2
    <3>8. WnOpTakeover'
      <4>1. WnAtMostOne(p.before)
        BY <1>1, <2>4, <2>12 DEF WnIInv, WnOpTakeover
      <4> QED
        BY <2>3, <3>5, <3>6, <3>7, <4>1 DEF WnOpTakeover
    <3>9. WnOpChanges' /\ WnOpRestores'
      BY <2>3, <2>4, <2>12, <3>6 DEF WnOpChanges, WnOpRestores
    <3> QED
      BY <2>7, <2>8, <2>11, <3>4, <3>8, <3>9 DEF WnIInv
  <2>13. CASE o.name # "takeover"
    <3>1. /\ WnHeld' = WnHeld \ {s} /\ wnOriginal' = wnOriginal
      BY <2>5, <2>13 DEF WnHeld
    <3>2. WnCovered'
      BY <2>1, <3>1 DEF WnIInv, WnCovered, WnSaved
    <3>3. WnOpTakeover'
      BY <2>3, <2>4, <2>13 DEF WnOpTakeover
    <3>4. ASSUME NEW i \in 1..Len(p.changes), p.changes[i].taken
          PROVE  /\ p.changes[i].servers = "local"
                 /\ p.changes[i].stuck \/ WnSaved(wnBackup, p.changes[i].slot)'
      <4>1. CASE i \in 1..Len(o.changes)
        BY <4>1, <3>4, <1>1, <2>1, <2>10, <3>1 DEF WnIInv, WnOpChanges, WnSaved
      <4>2. CASE p.changes[i] = c
        <5>1. s \in wnTaken
          BY <4>2, <3>4, <1>7
        <5>2. wnServers[s] = "local" /\ (s \in wnStuck \/ WnSaved(wnBackup, s))
          BY <5>1 DEF WnIInv, WnPointed, WnCovered, WnHeld
        <5>3. c.stuck \/ WnSaved(wnBackup, s)'
          BY <5>2, <1>7, <2>1, <3>1 DEF WnSaved
        <5> QED
          BY <4>2, <5>2, <5>3, <1>6
      <4> QED
        BY <4>1, <4>2, <2>10
    <3>5. WnOpChanges'
      BY <2>3, <3>4 DEF WnOpChanges
    <3>6. WnOpRestores'
      <4> SUFFICES ASSUME p.name = "fallback" \/ (p.name \in {"restore", "uninstall"} /\ ~ p.errors),
                          p.step = "work", NEW r \in WnHeld'
                   PROVE  \E i \in 1..Len(p.todo) : p.todo[i] = r
        BY <2>3 DEF WnOpRestores
      <4>1. \E i \in 1..Len(o.todo) : o.todo[i] = r
        BY <1>1, <2>4, <3>1 DEF WnIInv, WnOpRestores
      <4> QED
        BY <4>1, <2>9, <3>1
    <3> QED
      BY <2>7, <2>8, <2>11, <3>2, <3>3, <3>5, <3>6 DEF WnIInv
  <2> QED
    BY <2>12, <2>13
<1> QED
  BY <1>8, <1>9

(* A step of an undo takes back the last change, or reports the slot.  A    *)
(* slot that a takeover had changed is not held any more; a slot that was   *)
(* held before the operation is held again.                                 *)
LEMMA WnUndoKeeps == WnIInv /\ WnUndo => WnIInv'
<1> SUFFICES ASSUME WnIInv, WnUndo PROVE WnIInv'
  OBVIOUS
<1>1. PICK o \in WnOps : /\ wnOp = {o} /\ o.name \in {"takeover", "fallback", "replace"}
                         /\ o.step = "undo" /\ WnThe = o
  BY WnOperation DEF WnUndo, WnIInv
<1>2. o.changes \in Seq(WnChanges) /\ o.changes # <<>> /\ Len(o.changes) \in Nat \ {0}
  BY <1>1 DEF WnOps, WnUndo
<1>3. PICK n \in Nat \ {0} : n = Len(o.changes)
  BY <1>2
<1>4. PICK c \in WnChanges : c = o.changes[n]
  BY <1>2, <1>3
<1>5. PICK p : p = [o EXCEPT !.changes = SubSeq(@, 1, Len(@) - 1)]
  OBVIOUS
<1>6. wnOp' = {p}
  BY <1>1, <1>5 DEF WnUndo
<1>7. /\ p \in WnOps /\ p.name = o.name /\ p.step = "undo" /\ p.before = o.before /\ p.todo = o.todo
      /\ Len(p.changes) = n - 1 /\ \A i \in 1..(n - 1) : p.changes[i] = o.changes[i]
  <2>1. PICK q : q = SubSeq(o.changes, 1, n - 1)
    OBVIOUS
  <2>2. q \in Seq(WnChanges) /\ Len(q) = n - 1 /\ \A i \in 1..(n - 1) : q[i] = o.changes[i]
    BY <1>2, <1>3, <2>1
  <2>3. p = [o EXCEPT !.changes = q]
    BY <1>3, <1>5, <2>1
  <2> QED
    BY <1>1, <2>2, <2>3 DEF WnOps
<1>8. wnFaults' \in 0..MaxWnFaults /\ wnEdits' \in 0..MaxWnEdits
  BY WnBudgets DEF WnIInv, WnUndo
<1>9. /\ c.taken => c.servers = "local" /\ (c.stuck \/ WnSaved(wnBackup, c.slot))
      /\ o.name = "takeover" => ~ c.taken /\ c.servers # "local"
  <2>1. n \in 1..Len(o.changes)
    BY <1>3
  <2> QED
    BY <1>1, <1>4, <2>1 DEF WnIInv, WnOpChanges, WnOpTakeover
<1>10. PICK s \in WnSlots : s = c.slot
  BY <1>4 DEF WnChanges
<1>11. /\ wnBackup' = wnBackup /\ wnOriginal' = wnOriginal
       /\ wnServers' \in [WnSlots -> WnServers]
       /\ wnTaken' \in SUBSET WnSlots /\ wnStuck' \in SUBSET WnSlots
       /\ \A r \in WnSlots : r # s => /\ wnServers'[r] = wnServers[r]
                                      /\ r \in wnTaken' <=> r \in wnTaken
                                      /\ r \in wnStuck' <=> r \in wnStuck
       /\ s \in wnTaken' => wnServers'[s] = "local"
       /\ s \in WnHeld' => o.name # "takeover" /\ WnSaved(wnBackup, s)
  <2>1. CASE WnSet(c.slot, c.servers, c.taken, c.stuck) /\ WnOk
    <3>1. wnServers' = [wnServers EXCEPT ![s] = c.servers] /\ c.servers \in WnServers
      BY <2>1, <1>4, <1>10 DEF WnSet, WnChanges
    <3>2. wnTaken' = IF c.taken THEN wnTaken \cup {s} ELSE wnTaken \ {s}
      BY <2>1, <1>10 DEF WnSet
    <3>3. wnStuck' = IF c.stuck THEN wnStuck \cup {s} ELSE wnStuck \ {s}
      BY <2>1, <1>10 DEF WnSet
    <3>4. wnOriginal' = wnOriginal
      BY <2>1, <1>1, <1>9 DEF WnSet
    <3>5. wnBackup' = wnBackup
      BY DEF WnUndo
    <3>6. s \in wnTaken' <=> c.taken
      BY <3>2
    <3>7. s \in wnStuck' <=> c.stuck
      BY <3>3
    <3>8. wnTaken' \in SUBSET WnSlots /\ wnStuck' \in SUBSET WnSlots
      BY <3>2, <3>3 DEF WnIInv, WnTypes
    <3>9. \A r \in WnSlots : r # s => /\ r \in wnTaken' <=> r \in wnTaken
                                      /\ r \in wnStuck' <=> r \in wnStuck
      BY <3>2, <3>3
    <3>10. /\ wnServers' \in [WnSlots -> WnServers] /\ wnServers'[s] = c.servers
           /\ \A r \in WnSlots : r # s => wnServers'[r] = wnServers[r]
      BY <3>1 DEF WnIInv, WnTypes
    <3> QED
      BY <1>9, <1>10, <3>4, <3>5, <3>6, <3>7, <3>8, <3>9, <3>10 DEF WnHeld
  <2>2. CASE UNCHANGED <<wnServers, wnTaken, wnOriginal>> /\ wnStuck' = wnStuck \cup {c.slot} /\ WnFail
    BY <2>2, <1>10 DEF WnUndo, WnIInv, WnTypes, WnPointed, WnHeld
  <2> QED
    BY <1>1, <1>3, <1>4, <2>1, <2>2 DEF WnUndo
<1>12. \A r \in WnHeld' : r # s => r \in WnHeld
  BY <1>11 DEF WnHeld
<1>13. WnTypes'
  <2>1. wnOp' \in SUBSET WnOps /\ WnAtMostOne(wnOp)'
    BY <1>6, <1>7 DEF WnAtMostOne
  <2>2. wnBackup' \in SUBSET WnBackups /\ WnAtMostOne(wnBackup)' /\ wnOriginal' \in [WnSlots -> WnServers]
    BY <1>11 DEF WnIInv, WnTypes, WnAtMostOne
  <2>3. wnOp # {} /\ wnUp /\ UNCHANGED <<wnConnected, wnServing, wnUp, wnChecked>>
    BY <1>1 DEF WnIInv, WnTypes, WnUndo, WnStay
  <2> QED
    BY <1>8, <1>11, <2>1, <2>2, <2>3 DEF WnIInv, WnTypes
<1>14. WnPointed'
  BY <1>11 DEF WnIInv, WnPointed
<1>15. WnCovered'
  BY <1>11, <1>12 DEF WnIInv, WnCovered, WnSaved
<1>16. WnOpOrdered' /\ WnOpRecorded' /\ WnOpRestores'
  BY <1>1, <1>6, <1>7 DEF WnIInv, WnOpOrdered, WnOpRecorded, WnOpRestores
<1>17. WnOpChanges'
  <2>1. \A i \in 1..(n - 1) : i \in 1..Len(o.changes)
    BY <1>3
  <2>2. ASSUME NEW i \in 1..(n - 1), o.changes[i].taken
        PROVE  /\ o.changes[i].servers = "local"
               /\ o.changes[i].stuck \/ WnSaved(wnBackup, o.changes[i].slot)
    BY <1>1, <2>1, <2>2 DEF WnIInv, WnOpChanges
  <2>3. \A r : WnSaved(wnBackup, r) => WnSaved(wnBackup, r)'
    BY <1>11 DEF WnSaved
  <2>4. \A i \in 1..Len(p.changes) : i \in 1..(n - 1) /\ p.changes[i] = o.changes[i]
    BY <1>7
  <2> QED
    BY <1>6, <2>2, <2>3, <2>4 DEF WnOpChanges
<1>18. WnOpTakeover'
  <2> SUFFICES ASSUME o.name = "takeover"
               PROVE  /\ WnAtMostOne(p.before)
                      /\ \A i \in 1..Len(p.changes) : ~ p.changes[i].taken /\ p.changes[i].servers # "local"
                      /\ \A r \in WnHeld' : \/ WnSaved(p.before, r)'
                                            \/ \E i \in 1..Len(p.changes) : p.changes[i].slot = r
    BY <1>6, <1>7 DEF WnOpTakeover
  <2>1. \A i \in 1..Len(p.changes) : ~ p.changes[i].taken /\ p.changes[i].servers # "local"
    BY <1>1, <1>3, <1>7 DEF WnIInv, WnOpTakeover
  <2>2. ASSUME NEW r \in WnHeld'
        PROVE  WnSaved(p.before, r)' \/ \E i \in 1..Len(p.changes) : p.changes[i].slot = r
    <3>1. r # s /\ r \in WnHeld
      BY <1>11, <1>12
    <3>2. WnSaved(o.before, r) \/ \E i \in 1..n : o.changes[i].slot = r
      BY <1>1, <1>3, <3>1 DEF WnIInv, WnOpTakeover
    <3>3. (\E i \in 1..n : o.changes[i].slot = r) => \E i \in 1..(n - 1) : o.changes[i].slot = r
      BY <1>4, <1>10, <3>1
    <3> QED
      BY <1>7, <1>11, <3>2, <3>3 DEF WnSaved
  <2>3. WnAtMostOne(p.before)
    BY <1>1, <1>7 DEF WnIInv, WnOpTakeover
  <2> QED
    BY <2>1, <2>2, <2>3
<1> QED
  BY <1>13, <1>14, <1>15, <1>16, <1>17, <1>18 DEF WnIInv

(* The end of an undo.  The backup that a takeover puts back holds what the *)
(* slots had that are still held.                                           *)
LEMMA WnUndoneKeeps == WnIInv /\ WnUndone => WnIInv'
<1> SUFFICES ASSUME WnIInv, WnUndone PROVE WnIInv'
  OBVIOUS
<1>1. PICK o \in WnOps : wnOp = {o} /\ WnThe = o
  BY WnOperation DEF WnUndone, WnIInv
<1>2. Len(o.changes) = 0
  BY <1>1 DEF WnUndone
<1>3. wnBackup' = wnBackup \/ (o.name = "takeover" /\ wnBackup' = o.before)
  BY <1>1 DEF WnUndone
<1>4. \A s \in WnHeld : WnSaved(wnBackup', s)
  BY <1>1, <1>2, <1>3 DEF WnIInv, WnCovered, WnOpTakeover
<1>5. wnBackup' \in SUBSET WnBackups /\ WnAtMostOne(wnBackup')
  BY <1>1, <1>3 DEF WnIInv, WnTypes, WnOps, WnOpTakeover
<1>6. WnTypes'
  BY <1>5, WnBudgets DEF WnIInv, WnTypes, WnAtMostOne, WnUndone, WnStay, wnHistory
<1> QED
  BY <1>4, <1>6, WnEnds DEF WnUndone

(* The end of the changes.  The fallback drops the backup of slots that it  *)
(* has set to other servers, all of them.                                   *)
LEMMA WnChangedKeeps == WnIInv /\ WnChanged => WnIInv'
<1> SUFFICES ASSUME WnIInv, WnChanged PROVE WnIInv'
  OBVIOUS
<1>1. PICK o \in WnOps : wnOp = {o} /\ WnThe = o /\ o.step = "work"
  BY WnOperation DEF WnChanged, WnIInv
<1>2. Len(o.todo) = 0
  BY <1>1 DEF WnChanged
<1>3. wnBackup' = wnBackup \/ (o.name = "fallback" /\ wnBackup' = {})
  BY <1>1 DEF WnChanged
<1>4. o.name = "fallback" => WnHeld = {}
  BY <1>1, <1>2 DEF WnIInv, WnOpRestores
<1>5. WnTypes'
  BY <1>3, WnBudgets DEF WnIInv, WnTypes, WnAtMostOne, WnChanged, WnStay, wnHistory
<1> QED
  BY <1>3, <1>4, <1>5, WnEnds DEF WnChanged, WnIInv, WnCovered

(* A restored slot is not held any more; one that failed marks the restore. *)
LEMMA WnRestoreSlotKeeps == WnIInv /\ WnRestoreSlot => WnIInv'
<1> SUFFICES ASSUME WnIInv, WnRestoreSlot PROVE WnIInv'
  OBVIOUS
<1>1. PICK o \in WnOps : /\ wnOp = {o} /\ o.name \in {"restore", "uninstall"}
                         /\ o.step = "work" /\ WnThe = o
  BY WnOperation DEF WnRestoreSlot, WnIInv
<1>2. o.todo \in Seq(WnSlots) /\ o.todo # <<>>
  BY <1>1 DEF WnOps, WnRestoreSlot
<1>3. PICK s \in WnSlots : s = Head(o.todo)
  BY <1>2, WnRest
<1>4. wnFaults' \in 0..MaxWnFaults /\ wnEdits' \in 0..MaxWnEdits
  BY WnBudgets DEF WnIInv, WnRestoreSlot
<1>5. PICK b \in wnBackup :
         \/ /\ IF WnRestoredServers(b, s) = wnServers[s]
                 THEN UNCHANGED <<wnServers, wnHistory>>
                 ELSE WnSet(s, WnRestoredServers(b, s), FALSE, FALSE)
            /\ wnOp' = {[x EXCEPT !.todo = Tail(@)] : x \in wnOp}
         \/ /\ wnOp' = {[x EXCEPT !.todo = Tail(@), !.errors = TRUE] : x \in wnOp}
            /\ UNCHANGED <<wnServers, wnHistory>>
  BY <1>1, <1>3 DEF WnRestoreSlot
<1>6. s \in DOMAIN b /\ b[s] \in {"own", "other"}
  <2>1. 1 \in 1..Len(o.todo) /\ o.todo[1] = s
    BY <1>2, <1>3, WnRest
  <2>2. s \in WnRecordedSlots
    BY <1>1, <2>1 DEF WnIInv, WnOpRecorded
  <2>3. wnBackup = {b} /\ b \in WnBackups
    BY DEF WnIInv, WnTypes, WnAtMostOne
  <2>4. s \in DOMAIN b
    BY <2>2, <2>3 DEF WnRecordedSlots
  <2> QED
    BY <2>3, <2>4, WnBackupDomain
<1>7. PICK done \in BOOLEAN :
         /\ done => /\ \/ WnRestoredServers(b, s) = wnServers[s] /\ UNCHANGED <<wnServers, wnHistory>>
                       \/ /\ WnSet(s, WnRestoredServers(b, s), FALSE, FALSE)
                          /\ WnRestoredServers(b, s) # wnServers[s]
                    /\ wnOp' = {[o EXCEPT !.todo = Tail(@)]}
         /\ ~ done => /\ UNCHANGED <<wnServers, wnHistory>>
                      /\ wnOp' = {[o EXCEPT !.todo = Tail(@), !.errors = TRUE]}
  BY <1>1, <1>5
<1>8. /\ wnOriginal' = wnOriginal /\ wnServers' \in [WnSlots -> WnServers]
      /\ wnTaken' \in SUBSET wnTaken /\ wnStuck' \in SUBSET WnSlots
      /\ WnHeld' \in SUBSET WnHeld
      /\ \A r \in wnTaken' : wnServers'[r] = "local"
      /\ done => s \notin WnHeld'
  <2>1. CASE UNCHANGED <<wnServers, wnHistory>>
    <3>1. done => WnRestoredServers(b, s) = wnServers[s]
      BY <2>1, <1>7 DEF WnSet, WnIInv, WnTypes
    <3>2. done => wnServers[s] # "local"
      BY <3>1, <1>6 DEF WnRestoredServers
    <3> QED
      BY <2>1, <3>2 DEF wnHistory, WnIInv, WnTypes, WnPointed, WnHeld
  <2>2. CASE WnSet(s, WnRestoredServers(b, s), FALSE, FALSE) /\ WnRestoredServers(b, s) # wnServers[s]
    <3>1. wnServers[s] = "local" /\ WnRestoredServers(b, s) = b[s]
      BY <2>2 DEF WnRestoredServers
    <3>2. wnServers' = [wnServers EXCEPT ![s] = b[s]] /\ wnTaken' = wnTaken \ {s} /\ wnStuck' = wnStuck \ {s}
      BY <2>2, <3>1 DEF WnSet
    <3>3. wnOriginal' = wnOriginal
      BY <2>2, <1>1 DEF WnSet
    <3>4. b[s] \in WnServers
      BY <1>6 DEF WnServers
    <3> QED
      BY <3>2, <3>3, <3>4 DEF WnIInv, WnTypes, WnPointed, WnHeld
  <2> QED
    BY <1>7, <2>1, <2>2
<1>9. PICK p \in WnOps : /\ wnOp' = {p} /\ p.name = o.name /\ p.step = o.step /\ p.changes = o.changes
                         /\ p.todo = Tail(o.todo) /\ (~ p.errors => done /\ ~ o.errors)
  <2>1. Tail(o.todo) \in Seq(WnSlots)
    BY <1>2, WnRest
  <2>2. CASE done
    <3>1. PICK p : p = [o EXCEPT !.todo = Tail(@)]
      OBVIOUS
    <3>2. p \in WnOps /\ p.todo = Tail(o.todo) /\ p.errors = o.errors
      BY <2>1, <3>1 DEF WnOps
    <3> QED
      BY <1>7, <2>2, <3>1, <3>2 DEF WnOps
  <2>3. CASE ~ done
    <3>1. PICK p : p = [o EXCEPT !.todo = Tail(@), !.errors = TRUE]
      OBVIOUS
    <3>2. p \in WnOps /\ p.todo = Tail(o.todo) /\ p.errors = TRUE
      BY <2>1, <3>1 DEF WnOps
    <3> QED
      BY <1>7, <2>3, <3>1, <3>2 DEF WnOps
  <2> QED
    BY <2>2, <2>3
<1>10. /\ \A i, j \in 1..Len(p.todo) : i # j => p.todo[i] # p.todo[j]
       /\ \A i \in 1..Len(p.todo) : \E j \in 1..Len(o.todo) : p.todo[i] = o.todo[j]
       /\ \A r : (\E i \in 1..Len(o.todo) : o.todo[i] = r) => r = s \/ \E i \in 1..Len(p.todo) : p.todo[i] = r
  <2>1. WnListedOnce(o.todo)
    BY <1>1 DEF WnIInv, WnOpOrdered, WnListedOnce
  <2>2. o.todo \in Seq(WnSlots) /\ o.todo # <<>>
    BY <1>2, <1>3
  <2>3. s = Head(o.todo) /\ p.todo = Tail(o.todo)
    BY <1>3, <1>9
  <2>4. WnListedOnce(p.todo) /\ WnLeft(o.todo, s, p.todo)
    BY ONLY <2>1, <2>2, <2>3, WnRestListed, Zenon
  <2> QED
    BY ONLY <2>4, Zenon DEF WnListedOnce, WnLeft
<1>11. wnBackup' = wnBackup
  BY DEF WnRestoreSlot
<1>12. WnTypes'
  BY <1>1, <1>4, <1>8, <1>9, <1>11 DEF WnIInv, WnTypes, WnAtMostOne, WnRestoreSlot, WnStay
<1>13. WnPointed' /\ WnCovered'
  BY <1>8, <1>11 DEF WnIInv, WnPointed, WnCovered, WnSaved
<1>14. WnOpOrdered' /\ WnOpTakeover'
  <2>1. WnOpOrdered'
    <3>1. \A i, j \in 1..Len(p.todo) : i # j => p.todo[i] # p.todo[j]
      BY <1>10
    <3> QED
      BY <1>9, <3>1 DEF WnOpOrdered
  <2>2. WnOpTakeover'
    BY <1>1, <1>9 DEF WnOpTakeover
  <2> QED
    BY <2>1, <2>2
<1>15. WnOpRecorded'
  <2>1. \A j \in 1..Len(o.todo) : o.todo[j] \in WnRecordedSlots
    BY <1>1 DEF WnIInv, WnOpRecorded
  <2>2. WnRecordedSlots' = WnRecordedSlots
    BY <1>11 DEF WnRecordedSlots
  <2>3. \A i \in 1..Len(p.todo) : p.todo[i] \in WnRecordedSlots
    BY <1>10, <2>1
  <2> QED
    BY <1>9, <2>2, <2>3 DEF WnOpRecorded
<1>16. WnOpChanges'
  BY <1>1, <1>8, <1>9, <1>11 DEF WnIInv, WnOpChanges, WnSaved
<1>17. WnOpRestores'
  <2> SUFFICES ASSUME ~ p.errors, NEW r \in WnHeld' PROVE \E i \in 1..Len(p.todo) : p.todo[i] = r
    BY <1>1, <1>9 DEF WnOpRestores
  <2>1. r \in WnHeld /\ r # s
    BY <1>8, <1>9
  <2>2. \E i \in 1..Len(o.todo) : o.todo[i] = r
    BY <1>1, <1>9, <2>1 DEF WnIInv, WnOpRestores
  <2> QED
    BY <1>10, <2>1, <2>2
<1> QED
  BY <1>12, <1>13, <1>14, <1>15, <1>16, <1>17 DEF WnIInv

(* The backup goes only when every held slot is back.                       *)
LEMMA WnRestoredKeeps == WnIInv /\ WnRestored => WnIInv'
<1> SUFFICES ASSUME WnIInv, WnRestored PROVE WnIInv'
  OBVIOUS
<1>1. PICK o \in WnOps : wnOp = {o} /\ o.name \in {"restore", "uninstall"} /\ o.step = "work" /\ WnThe = o
  BY WnOperation DEF WnRestored, WnIInv
<1>2. Len(o.todo) = 0
  BY <1>1 DEF WnRestored
<1>3. wnBackup' = wnBackup \/ (~ o.errors /\ wnBackup' = {})
  BY <1>1 DEF WnRestored, WnRestoreDone
<1>4. ~ o.errors => WnHeld = {}
  BY <1>1, <1>2 DEF WnIInv, WnOpRestores
<1>5. wnUp' \in BOOLEAN
  BY DEF WnRestored, WnIInv, WnTypes
<1>6. wnFaults' \in 0..MaxWnFaults /\ wnEdits' \in 0..MaxWnEdits
  BY WnBudgets DEF WnIInv, WnRestored
<1>7. WnTypes'
  BY <1>3, <1>5, <1>6 DEF WnIInv, WnTypes, WnAtMostOne, WnRestored, wnHistory
<1> QED
  BY <1>3, <1>4, <1>7, WnEnds DEF WnRestored, WnIInv, WnCovered

LEMMA WnInductive == WnIInv /\ [WnNext]_wnVars => WnIInv'
<1> SUFFICES ASSUME WnIInv, [WnNext]_wnVars PROVE WnIInv'
  OBVIOUS
<1>1. CASE UNCHANGED wnVars
  <2>1. WnTypes'
    BY <1>1 DEF WnIInv, WnTypes, WnAtMostOne, wnVars, wnHistory
  <2> QED
    BY <1>1, <2>1, WnBesides DEF wnVars
<1>2. CASE WnNext
  BY <1>2, WnCheckTakeOverKeeps, WnTakeOverKeeps, WnReplaceUnmanagedKeeps, WnFallbackKeeps, WnChangeKeeps,
     WnUndoKeeps, WnUndoneKeeps, WnChangedKeeps, WnRestoreKeeps, WnRestoreSlotKeeps, WnRestoredKeeps,
     WnCheckSaveKeeps, WnSaveKeeps, WnCrashKeeps, WnStartKeeps, WnEditKeeps DEF WnNext
<1> QED
  BY <1>1, <1>2

(* The invariant holds in every reachable state.                            *)
THEOREM WnInvariant == WnSpec => []WnIInv
BY WnInitial, WnInductive, PTL DEF WnSpec

------------------------------------------------------------------------------
(* The variables keep their types, a call in progress belongs to a running  *)
(* service, and the backup file never holds the loopback address.           *)
THEOREM WnTypeCorrect == WnSpec => []WnTypeOK
<1>1. WnIInv => WnTypeOK
  <2> SUFFICES ASSUME WnIInv PROVE WnTypeOK
    OBVIOUS
  <2>1. Cardinality(wnBackup) <= 1 /\ Cardinality(wnOp) <= 1
    BY WnAtMostOneCounts DEF WnIInv, WnTypes
  <2>2. \A b \in wnBackup : DOMAIN b \subseteq WnSlots /\ \A s \in DOMAIN b : b[s] \in {"own", "other"}
    BY WnBackupDomain DEF WnIInv, WnTypes
  <2>3. \A o \in wnOp : o.name \in WnOpNames
    BY DEF WnIInv, WnTypes, WnOps
  <2> QED
    BY <2>1, <2>2, <2>3 DEF WnIInv, WnTypes, WnTypeOK
<1> QED
  BY <1>1, WnInvariant, PTL

(* The record as the journal sees it.                                       *)
WnRecorded == {s \in WnRecordedSlots : \E b \in wnBackup : \/ b[s] = wnOriginal[s]
                                                           \/ s \notin wnTaken /\ b[s] = wnServers[s]}

(* The record does not change when one slot does that is in it throughout.  *)
LEMMA WnRecordedStays ==
  ASSUME WnIInv, wnBackup' = wnBackup, NEW s \in WnSlots, s \in WnRecorded, s \in WnRecorded',
         \A r \in WnSlots : r # s => /\ wnOriginal'[r] = wnOriginal[r] /\ wnServers'[r] = wnServers[r]
                                     /\ r \in wnTaken' <=> r \in wnTaken
  PROVE  WnRecorded' = WnRecorded
<1>1. WnRecordedSlots' = WnRecordedSlots /\ WnRecordedSlots \in SUBSET WnSlots
  BY WnSlotsSeen DEF WnRecordedSlots, WnIInv
<1>2. \A r \in WnSlots : r # s => (r \in WnRecorded' <=> r \in WnRecorded)
  BY <1>1 DEF WnRecorded
<1>3. WnRecorded \in SUBSET WnSlots /\ WnRecorded' \in SUBSET WnSlots
  BY <1>1 DEF WnRecorded
<1> QED
  BY <1>2, <1>3

(* Only a change of a takeover and the undo of another operation make the   *)
(* program hold a slot, and its original was and stays recorded.            *)
LEMMA WnHolds ==
  ASSUME WnIInv, WnIInv', [WnNext]_wnVars
  PROVE  WnHeld' \subseteq WnHeld \/ (WnHeld \subseteq WnHeld' /\ WnRecorded' = WnRecorded)
<1>1. CASE UNCHANGED <<wnTaken, wnStuck>>
  BY <1>1 DEF WnHeld
<1>2. CASE WnChange
  <2>1. PICK o \in WnOps : wnOp = {o} /\ o.step = "work" /\ WnThe = o
    BY <1>2, WnOperation DEF WnChange, WnIInv
  <2>2. CASE WnAbandon \/ o.name # "takeover"
    BY <2>1, <2>2, <1>2 DEF WnChange, WnAbandon, WnSet, WnHeld, wnHistory
  <2>3. CASE ~ WnAbandon /\ o.name = "takeover"
    <3>1. o.todo \in Seq(WnSlots) /\ o.todo # <<>>
      BY <2>1, <1>2 DEF WnOps, WnChange
    <3>2. PICK s \in WnSlots : s = Head(o.todo) /\ 1 \in 1..Len(o.todo) /\ s = o.todo[1]
      BY <3>1, WnRest
    <3>3. /\ wnServers' = [wnServers EXCEPT ![s] = "local"] /\ wnTaken' = wnTaken \cup {s}
          /\ wnOriginal' = [wnOriginal EXCEPT ![s] = wnServers[s]] /\ wnStuck' = wnStuck \ {s}
          /\ wnBackup' = wnBackup
      BY <1>2, <2>1, <2>3, <3>2 DEF WnChange, WnSet
    <3>4. /\ wnServers[s] # "local" /\ s \notin wnTaken
          /\ \E b \in wnBackup : s \in DOMAIN b /\ b[s] = wnServers[s]
      BY <2>1, <2>3, <3>2 DEF WnIInv, WnOpTakeover, WnPointed
    <3>5. WnHeld \subseteq WnHeld'
      BY <3>3, <3>4 DEF WnHeld
    <3>6. s \in WnRecorded
      BY <3>4 DEF WnRecorded, WnRecordedSlots
    <3>7. s \in WnRecorded'
      <4>1. wnOriginal'[s] = wnServers[s]
        BY <3>3 DEF WnIInv, WnTypes
      <4> QED
        BY <3>3, <3>4, <4>1 DEF WnRecorded, WnRecordedSlots
    <3>8. \A r \in WnSlots : r # s => /\ wnOriginal'[r] = wnOriginal[r] /\ wnServers'[r] = wnServers[r]
                                      /\ r \in wnTaken' <=> r \in wnTaken
      BY <3>3 DEF WnIInv, WnTypes
    <3> QED
      BY <3>3, <3>5, <3>6, <3>7, <3>8, WnRecordedStays
  <2> QED
    BY <2>2, <2>3
<1>3. CASE WnUndo
  <2>1. PICK o \in WnOps : wnOp = {o} /\ o.step = "undo" /\ WnThe = o
    BY <1>3, WnOperation DEF WnUndo, WnIInv
  <2>2. PICK n \in Nat \ {0} : n = Len(o.changes)
    BY <1>3, <2>1 DEF WnOps, WnUndo
  <2>3. PICK c \in WnChanges : c = o.changes[n] /\ n \in 1..Len(o.changes)
    BY <2>1, <2>2 DEF WnOps
  <2>4. PICK s \in WnSlots : s = c.slot
    BY <2>3 DEF WnChanges
  <2>5. /\ c.taken => c.servers = "local" /\ (c.stuck \/ WnSaved(wnBackup, s))
        /\ o.name = "takeover" => ~ c.taken
    BY <2>1, <2>3, <2>4 DEF WnIInv, WnOpChanges, WnOpTakeover
  <2>6. CASE UNCHANGED wnTaken /\ wnStuck' = wnStuck \cup {s}
    BY <2>6 DEF WnHeld
  <2>7. CASE WnSet(s, c.servers, c.taken, c.stuck)
    <3>1. wnTaken' = IF c.taken THEN wnTaken \cup {s} ELSE wnTaken \ {s}
      BY <2>7 DEF WnSet
    <3>2. wnStuck' = IF c.stuck THEN wnStuck \cup {s} ELSE wnStuck \ {s}
      BY <2>7 DEF WnSet
    <3>3. CASE ~ c.taken \/ c.stuck
      <4>1. s \notin WnHeld'
        BY <3>1, <3>2, <3>3 DEF WnHeld
      <4>2. \A r : r # s /\ r \in WnHeld' => r \in WnHeld
        BY <3>1, <3>2 DEF WnHeld
      <4> QED
        BY <4>1, <4>2
    <3>4. CASE c.taken /\ ~ c.stuck
      <4>1. /\ wnServers' = [wnServers EXCEPT ![s] = c.servers] /\ wnOriginal' = wnOriginal
            /\ wnTaken' = wnTaken \cup {s} /\ wnStuck' = wnStuck \ {s} /\ wnBackup' = wnBackup
        BY <1>3, <2>1, <2>5, <2>7, <3>4 DEF WnSet, WnUndo
      <4>2. WnHeld \subseteq WnHeld'
        BY <4>1 DEF WnHeld
      <4>3. s \in WnRecorded /\ s \in WnRecorded'
        BY <2>5, <3>4, <4>1 DEF WnSaved, WnRecorded, WnRecordedSlots
      <4>4. \A r \in WnSlots : r # s => /\ wnOriginal'[r] = wnOriginal[r] /\ wnServers'[r] = wnServers[r]
                                        /\ r \in wnTaken' <=> r \in wnTaken
        BY <4>1 DEF WnIInv, WnTypes
      <4> QED
        BY <4>1, <4>2, <4>3, <4>4, WnRecordedStays
    <3> QED
      BY <3>3, <3>4
  <2> QED
    BY <1>3, <2>1, <2>2, <2>3, <2>4, <2>6, <2>7 DEF WnUndo
<1>4. CASE WnRestoreSlot
  <2>1. CASE UNCHANGED wnHistory
    BY <2>1, <1>1 DEF wnHistory
  <2>2. ASSUME NEW s, NEW v, WnSet(s, v, FALSE, FALSE)
        PROVE  WnHeld' \subseteq WnHeld
    BY <2>2 DEF WnSet, WnHeld
  <2> QED
    BY <1>4, <2>1, <2>2 DEF WnRestoreSlot
<1>5. CASE WnEdit
  BY <1>5 DEF WnEdit, WnHeld, wnHistory
<1>6. CASE \/ WnCheckTakeOver \/ WnTakeOver \/ WnReplaceUnmanaged \/ WnFallback \/ WnUndone \/ WnChanged
           \/ WnRestore("restore") \/ WnRestore("uninstall") \/ WnRestored \/ WnCheckSave \/ WnSave
           \/ WnCrash \/ WnStart \/ UNCHANGED wnVars
  BY <1>1, <1>6 DEF WnCheckTakeOver, WnTakeOver, WnReplaceUnmanaged, WnFallback, WnUndone, WnChanged,
     WnRestore, WnRestored, WnCheckSave, WnSave, WnCrash, WnStart, wnVars, wnHistory
<1> QED
  BY <1>2, <1>3, <1>4, <1>5, <1>6 DEF WnNext

(* The takeover implements the journal: a slot is pointed to the program    *)
(* only when the backup file holds what it had, and the file holds it until *)
(* the slot is back, across every failed call, undo and crash.              *)
THEOREM WnJournalCorrect == WnSpec => WnJournalled
<1>1. WnInit => WnJournalView!Init
  BY DEF WnInit, WnJournalView!Init, WnRecordedSlots
<1>2. WnIInv /\ WnIInv' /\ [WnNext]_wnVars => [WnJournalView!Next]_<<WnHeld, WnRecorded>>
  <2> SUFFICES ASSUME WnIInv, WnIInv', [WnNext]_wnVars
               PROVE  [WnJournalView!Next]_<<WnHeld, WnRecorded>>
    OBVIOUS
  <2>1. WnHeld' \subseteq WnRecorded' /\ WnRecorded' \in SUBSET WnSlots
    <3>1. WnHeld' \subseteq WnRecorded'
      BY DEF WnIInv, WnCovered, WnSaved, WnRecordedSlots, WnRecorded
    <3>2. WnRecorded' \in SUBSET WnSlots
      BY WnBackupDomain DEF WnIInv, WnTypes, WnRecordedSlots, WnRecorded
    <3> QED
      BY <3>1, <3>2
  <2>2. CASE WnHeld' \subseteq WnHeld
    BY <2>1, <2>2 DEF WnJournalView!Next, WnJournalView!PutBack, WnHeld, WnRecorded
  <2>3. CASE WnHeld \subseteq WnHeld' /\ WnRecorded' = WnRecorded
    BY <2>1, <2>3 DEF WnJournalView!Next, WnJournalView!Replace, WnHeld, WnRecorded
  <2> QED
    BY <2>2, <2>3, WnHolds
<1> QED
  BY <1>1, <1>2, WnInvariant, PTL DEF WnSpec, WnJournalled, WnJournalView!Spec, WnHeld, WnRecorded

(* A restore changes only slots that point to the program, and puts back    *)
(* what a held slot had.                                                    *)
THEOREM WnUserServersCorrect == WnSpec => WnUserServersKept
<1> DEFINE Kept == \A s \in WnSlots : wnServers'[s] # wnServers[s] /\ WnAt({"restore", "uninstall"}, "work")
                      => wnServers[s] = "local" /\ (s \in wnTaken \ wnStuck => wnServers'[s] = wnOriginal[s])
<1>1. WnIInv /\ [WnNext]_wnVars => [Kept]_wnVars
  <2> SUFFICES ASSUME WnIInv, [WnNext]_wnVars,
                      NEW s \in WnSlots, wnServers'[s] # wnServers[s], WnAt({"restore", "uninstall"}, "work")
               PROVE  wnServers[s] = "local" /\ (s \in WnHeld => wnServers'[s] = wnOriginal[s])
    BY DEF WnHeld
  <2>1. PICK o \in WnOps : wnOp = {o} /\ o.name \in {"restore", "uninstall"} /\ o.step = "work" /\ WnThe = o
    BY WnOperation DEF WnIInv
  <2>2. CASE WnRestoreSlot
    <3>1. PICK b \in wnBackup, r \in WnSlots : /\ WnSet(r, WnRestoredServers(b, r), FALSE, FALSE)
                                               /\ WnRestoredServers(b, r) # wnServers[r]
      <4>1. Head(o.todo) \in WnSlots
        BY <2>1, <2>2, WnRest DEF WnRestoreSlot, WnOps
      <4> QED
        BY <2>1, <2>2, <4>1 DEF WnRestoreSlot
    <3>2. r = s /\ wnServers[s] = "local" /\ wnServers'[s] = b[s]
      BY <3>1 DEF WnSet, WnRestoredServers, WnIInv, WnTypes
    <3>3. wnBackup = {b}
      BY DEF WnIInv, WnTypes, WnAtMostOne
    <3> QED
      BY <3>2, <3>3 DEF WnIInv, WnCovered, WnSaved
  <2>3. CASE WnChange \/ WnUndo
    BY <2>1, <2>3 DEF WnChange, WnUndo, WnAt
  <2>4. CASE WnEdit
    BY <2>1, <2>4 DEF WnEdit
  <2>5. CASE \/ WnCheckTakeOver \/ WnTakeOver \/ WnReplaceUnmanaged \/ WnFallback \/ WnUndone \/ WnChanged
             \/ WnRestore("restore") \/ WnRestore("uninstall") \/ WnRestored \/ WnCheckSave \/ WnSave
             \/ WnCrash \/ WnStart \/ UNCHANGED wnVars
    BY <2>5 DEF WnCheckTakeOver, WnTakeOver, WnReplaceUnmanaged, WnFallback, WnUndone, WnChanged,
       WnRestore, WnRestored, WnCheckSave, WnSave, WnCrash, WnStart, wnVars
  <2> QED
    BY <2>2, <2>3, <2>4, <2>5 DEF WnNext
<1> QED
  BY <1>1, WnInvariant, PTL DEF WnSpec, WnUserServersKept

(* When the uninstallation goes on without a backup, no slot is left that   *)
(* the program has taken over, but for those a failed undo has reported.    *)
THEOREM WnUninstallCorrect == WnSpec => WnUninstallRestores
<1>1. WnIInv' /\ [WnNext]_wnVars
        => [WnAt({"uninstall"}, "work") /\ wnOp' = {} /\ wnBackup' = {} => wnTaken' \subseteq wnStuck']_wnVars
  BY DEF WnIInv, WnCovered, WnSaved, WnHeld
<1> QED
  BY <1>1, WnInvariant, PTL DEF WnSpec, WnUninstallRestores
=============================================================================
