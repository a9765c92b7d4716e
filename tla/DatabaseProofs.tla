--------------------------- MODULE DatabaseProofs ---------------------------
(* Machine-checked proofs about what the database keeps of the running       *)
(* server: the security events, for any kinds of events, sizes of the        *)
(* channel and the batch, and numbers of faults, starts and clears; and the  *)
(* log with its statistics, for any entries, retentions, windows and pages.  *)
(*                                                                           *)
(* SeInv follows the path of the writer: who may hold the lock of the        *)
(* statistics, which message is the last of the channel, and that a          *)
(* deletion finds nothing on the way.  It keeps events from crossing a       *)
(* clear.  SeExact adds the counts: an event shown has the total of its row, *)
(* on the way and in the table (SeRemembers).  Its steps need that nothing   *)
(* but single new events is on the way (SeSentGood), that the table holds    *)
(* none of the future (SeTable), and that no two places of memory show one   *)
(* row (SeApart).                                                            *)
(*                                                                           *)
(* DsRight: an hourly row counts the entries of its hour as long as the hour *)
(* is in every window kept since (DsHourExact), a lifetime row those of the  *)
(* entries it stands for (DsLifeExact), the ids of the log follow the clock  *)
(* (DsLogOrdered), and whoever reads has everything behind the cursor still  *)
(* to come (DsReads).  The dashboard's numbers follow: a window is a sum of  *)
(* whole hours, and each ranking is one of its rows by key.                  *)
EXTENDS SecurityEvents, StatisticsStore,
        FunctionTheorems, FiniteSetTheorems, WellFoundedInduction, TLAPS

(* Who stops, starts, waits and writes.                                      *)
SeControl ==
    /\ seServer \in {"down", "reset", "restored", "up", "stopping", "joined", "ending"}
    /\ seWriter \in {"running", "ended"} /\ seSender \in BOOLEAN /\ seQuit \in BOOLEAN
    /\ seFaults \in Nat /\ seEra \in Nat
    /\ seSender <=> seServer \in {"up", "stopping", "joined"}
    /\ seServer \in {"down", "reset", "restored"} => seWriter = "ended"
    /\ seFaults = 0 /\ seSender => seWriter = "running"

(* The lock of the statistics: a worker that waits has not been joined yet,  *)
(* a flush that waits has a sender, a stop is the end of it.                *)
SeHolder ==
    /\ \/ seHold = SeFree
       \/ seHold.op = "record" /\ seHold.message.op = "event" /\ seServer \in {"up", "stopping"}
       \/ seHold.op = "stop" /\ seServer = "ending"
       \/ \E for \in {"clear", "prune"}, part \in {"send", "wait", "do"} :
             /\ seHold = [op |-> "flush", for |-> for, stage |-> part]
             /\ part # "do" => seSender
    /\ ~seQuit /\ (seDue # {} \/ seHold.op = "flush") => seServer \in {"down", "up"}

(* A flush and a stop are the last message in the channel; whoever sent the  *)
(* flush waits for it, and the stop was sent by the last to send.           *)
SeInChannel ==
    /\ \E M : seChannel \in Seq(M)
    /\ \A i \in 1..Len(seChannel) :
          \/ seChannel[i].op = "event"
          \/ seChannel[i].op = "flush" /\ i = Len(seChannel) /\ SeAwaitsReply
          \/ seChannel[i].op = "stop" /\ i = Len(seChannel) /\ seServer = "ending" /\ seHold.op # "stop"
    /\ \E M : seBatch \in Seq(M)
    /\ seWriter = "ended" => seChannel = <<>> /\ seBatch = <<>>

(* A deletion outside of a shutdown finds nothing on the way.               *)
SeBarrier == ~seQuit /\ seHold.op = "flush" /\ seHold.stage = "do" => seChannel = <<>> /\ seBatch = <<>>

SeInv == SeControl /\ SeHolder /\ SeInChannel /\ SeBarrier /\ SeClearedIsGone /\ SeOnlyFaultsLose

(* Server, writer and sender go through their phases together.              *)
LEMMA SeControlStep == SeInv /\ SeNext => SeControl'
<1> SUFFICES ASSUME SeInv, SeNext PROVE SeControl'
  OBVIOUS
<1> USE DEF SeInv, SeControl
<1>1. CASE \E k \in SeKinds : SeRecord(k)
  BY <1>1 DEF SeRecord
<1>2. CASE SeRecordWaited
  BY <1>2 DEF SeRecordWaited
<1>3. CASE \E k \in SeWebKinds : SeWebRecord(k)
  BY <1>3 DEF SeWebRecord
<1>4. CASE SeWebWrite
  <2>1. /\ UNCHANGED <<seServer, seWriter, seSender, seQuit, seEra>>
        /\ (seFaults' = seFaults \/ seFaults' = seFaults + 1)
    BY <1>4, Zenon DEF SeWebWrite
  <2> QED BY <2>1
<1>5. CASE SeWriterTakes
  BY <1>5 DEF SeWriterTakes
<1>6. CASE SeWriterWrites
  BY <1>6 DEF SeWriterWrites, SeWriterFails
<1>7. CASE SeWriterFlushes
  BY <1>7 DEF SeWriterFlushes, SeWriterFails
<1>8. CASE SeWriterStops
  BY <1>8 DEF SeWriterStops, SeWriterFails, SeInChannel
<1>9. CASE SePrune
  BY <1>9 DEF SePrune
<1>10. CASE \E op \in {"clear", "prune"} : SeLock(op)
  BY <1>10 DEF SeLock
<1>11. CASE SeFlushSend
  BY <1>11 DEF SeFlushSend
<1>12. CASE SeDelete
  BY <1>12 DEF SeDelete
<1>13. CASE SeStartReset
  BY <1>13 DEF SeStartReset, SeHolder
<1>14. CASE SeRestore
  BY <1>14 DEF SeRestore
<1>15. CASE SeStartWriter
  BY <1>15 DEF SeStartWriter
<1>16. CASE SeStop
  BY <1>16 DEF SeStop, SeHolder
<1>17. CASE SeShutdown
  BY <1>17 DEF SeShutdown, SeHolder
<1>18. CASE SeStopWriter
  BY <1>18 DEF SeStopWriter, SeHolder
<1>19. CASE SeStopWaited
  BY <1>19 DEF SeStopWaited
<1>20. CASE SeCrash
  <2>1. /\ seServer' = "down" /\ seWriter' = "ended" /\ seSender' = FALSE /\ seQuit' = FALSE
        /\ seFaults' = seFaults + 1 /\ seEra' = seEra
    BY <1>20, Zenon DEF SeCrash
  <2>2. seFaults' \in Nat /\ seEra' \in Nat /\ seFaults' # 0
    BY <2>1
  <2> QED BY <2>1, <2>2, Zenon
<1>21. CASE SeTick
  BY <1>21 DEF SeTick
<1> QED
  BY <1>1, <1>2, <1>3, <1>4, <1>5, <1>6, <1>7, <1>8, <1>9, <1>10, <1>11,
     <1>12, <1>13, <1>14, <1>15, <1>16, <1>17, <1>18, <1>19, <1>20, <1>21 DEF SeNext

(* Whoever holds the lock of the statistics may do so.                       *)
LEMMA SeHolderStep == SeInv /\ SeNext => SeHolder'
<1> SUFFICES ASSUME SeInv, SeNext PROVE SeHolder'
  OBVIOUS
<1> USE DEF SeInv, SeControl, SeHolder, SeUnlocked, SeFree
<1>1. CASE \E k \in SeKinds : SeRecord(k)
  BY <1>1 DEF SeRecord, SeWorkersAlive, SeMessage
<1>2. CASE SeRecordWaited
  BY <1>2 DEF SeRecordWaited
<1>3. CASE \E k \in SeWebKinds : SeWebRecord(k)
  BY <1>3 DEF SeWebRecord
<1>4. CASE SeWebWrite
  BY <1>4 DEF SeWebWrite
<1>5. CASE SeWriterTakes
  BY <1>5 DEF SeWriterTakes
<1>6. CASE SeWriterWrites
  BY <1>6 DEF SeWriterWrites, SeWriterFails, SeAwaitsReply
<1>7. CASE SeWriterFlushes
  BY <1>7 DEF SeWriterFlushes, SeWriterFails, SeAwaitsReply, SeInChannel
<1>8. CASE SeWriterStops
  BY <1>8 DEF SeWriterStops, SeWriterFails, SeAwaitsReply
<1>9. CASE SePrune
  BY <1>9 DEF SePrune, SeRuntimeFree
<1>10. CASE \E op \in {"clear", "prune"} : SeLock(op)
  BY <1>10 DEF SeLock, SeRuntimeFree, SeFirstStage
<1>11. CASE SeFlushSend
  BY <1>11 DEF SeFlushSend
<1>12. CASE SeDelete
  BY <1>12 DEF SeDelete
<1>13. CASE SeStartReset
  BY <1>13 DEF SeStartReset, SeRuntimeFree
<1>14. CASE SeRestore
  BY <1>14 DEF SeRestore
<1>15. CASE SeStartWriter
  BY <1>15 DEF SeStartWriter
<1>16. CASE SeStop
  BY <1>16 DEF SeStop, SeRuntimeFree
<1>17. CASE SeShutdown
  BY <1>17 DEF SeShutdown
<1>18. CASE SeStopWriter
  BY <1>18 DEF SeStopWriter
<1>19. CASE SeStopWaited
  BY <1>19 DEF SeStopWaited
<1>20. CASE SeCrash
  BY <1>20 DEF SeCrash
<1>21. CASE SeTick
  BY <1>21 DEF SeTick
<1> QED
  BY <1>1, <1>2, <1>3, <1>4, <1>5, <1>6, <1>7, <1>8, <1>9, <1>10, <1>11,
     <1>12, <1>13, <1>14, <1>15, <1>16, <1>17, <1>18, <1>19, <1>20, <1>21 DEF SeNext

(* What is kept apart, or nothing at all, loses no increment. *)
LEMMA SeLosesNone ==
    /\ \A rows : SeLoseAnd(rows, {}) => (seLost' => seLost)
    /\ SeLoseNothing => (seLost' => seLost)
  BY Zenon DEF SeLoseAnd, SeLoseNothing

(* Nothing is lost by a server that stops.                                   *)
LEMMA SeLossStep == SeInv /\ SeNext => SeOnlyFaultsLose'
<1> SUFFICES ASSUME SeInv, SeNext PROVE SeOnlyFaultsLose'
  OBVIOUS
<1> USE DEF SeInv, SeControl, SeHolder, SeFree, SeOnlyFaultsLose
<1>1. ASSUME NEW k \in SeKinds, SeRecord(k) PROVE SeOnlyFaultsLose'
  <2>1. seFaults' = seFaults /\ seSender
    BY <1>1 DEF SeRecord, SeWorkersAlive
  <2>2. CASE seWriter = "ended"
    BY <2>1, <2>2
  <2>3. CASE seWriter # "ended"
    <3>1. SeLoseAnd(SeAgain(k), {})
      BY <1>1, <2>1, <2>3, Zenon DEF SeRecord
    <3> QED BY SeLosesNone, <2>1, <3>1, SeLosesNone
  <2> QED BY <2>2, <2>3
<1>2. CASE SeRecordWaited
  <2>1. seFaults' = seFaults /\ (seWriter = "ended" \/ SeLoseNothing)
    BY <1>2, Zenon DEF SeRecordWaited
  <2>2. seHold.op = "record"
    BY <1>2 DEF SeRecordWaited
  <2>3. seSender
    BY <2>2
  <2> QED BY SeLosesNone, <2>1, <2>3 
<1>3. CASE \E k \in SeWebKinds : SeWebRecord(k)
  BY <1>3 DEF SeWebRecord, SeLose, SeLoseAnd, SeLoseNothing
<1>4. CASE SeWebWrite
  <2>1. (SeLoseNothing /\ seFaults' = seFaults) \/ seFaults' = seFaults + 1
    BY <1>4, Zenon DEF SeWebWrite
  <2> QED BY SeLosesNone, <2>1 
<1>5. CASE SeWriterTakes
  BY <1>5 DEF SeWriterTakes
<1>6. CASE SeWriterWrites
  <2>1. (SeLoseNothing /\ seFaults' = seFaults) \/ seFaults' = seFaults + 1
    BY <1>6, Zenon DEF SeWriterWrites, SeWriterFails
  <2> QED BY SeLosesNone, <2>1 
<1>7. CASE SeWriterFlushes
  <2>1. (SeLoseNothing /\ seFaults' = seFaults) \/ seFaults' = seFaults + 1
    BY <1>7, Zenon DEF SeWriterFlushes, SeWriterFails
  <2> QED BY SeLosesNone, <2>1 
<1>8. CASE SeWriterStops
  <2>1. (SeLoseNothing /\ seFaults' = seFaults) \/ seFaults' = seFaults + 1
    BY <1>8, Zenon DEF SeWriterStops, SeWriterFails
  <2> QED BY SeLosesNone, <2>1 
<1>9. CASE SePrune
  BY <1>9 DEF SePrune
<1>10. CASE \E op \in {"clear", "prune"} : SeLock(op)
  BY <1>10 DEF SeLock
<1>11. CASE SeFlushSend
  BY <1>11 DEF SeFlushSend
<1>12. CASE SeDelete
  BY <1>12 DEF SeDelete
<1>13. CASE SeStartReset
  BY <1>13 DEF SeStartReset
<1>14. CASE SeRestore
  BY <1>14 DEF SeRestore
<1>15. CASE SeStartWriter
  BY <1>15 DEF SeStartWriter
<1>16. CASE SeStop
  BY <1>16 DEF SeStop
<1>17. CASE SeShutdown
  BY <1>17 DEF SeShutdown
<1>18. CASE SeStopWriter
  BY <1>18 DEF SeStopWriter
<1>19. CASE SeStopWaited
  BY <1>19 DEF SeStopWaited
<1>20. CASE SeCrash
  BY <1>20 DEF SeCrash, SeLose, SeLoseAnd, SeLoseNothing
<1>21. CASE SeTick
  BY <1>21 DEF SeTick
<1> QED
  BY <1>1, <1>2, <1>3, <1>4, <1>5, <1>6, <1>7, <1>8, <1>9, <1>10, <1>11,
     <1>12, <1>13, <1>14, <1>15, <1>16, <1>17, <1>18, <1>19, <1>20, <1>21 DEF SeNext

(* One message more at the end, one less in front.                          *)
LEMMA SeSent ==
    ASSUME NEW q, NEW M, q \in Seq(M), NEW m
    PROVE  /\ Append(q, m) \in Seq(M \cup {m}) /\ Len(Append(q, m)) = Len(q) + 1
           /\ \A i \in 1..Len(q) : Append(q, m)[i] = q[i]
           /\ Append(q, m)[Len(q) + 1] = m
<1>1. q \in Seq(M \cup {m})
  <2>1. \A i \in 1..Len(q) : q[i] \in M \cup {m}
    OBVIOUS
  <2> QED BY <2>1
<1> QED BY <1>1

(* A sequence of no messages. *)
LEMMA SeNoneLeft == \A M : \A q \in Seq(M) : Len(q) = 0 => q = <<>>
  OBVIOUS

(* The first message is taken, and the others move up. *)
LEMMA SeTaken ==
    ASSUME NEW q, NEW M, q \in Seq(M), q # <<>>
    PROVE  /\ Tail(q) \in Seq(M) /\ Len(Tail(q)) = Len(q) - 1 /\ Len(q) \in Nat \ {0}
           /\ \A i \in 1..Len(Tail(q)) : Tail(q)[i] = q[i + 1]
           /\ Head(q) = q[1] /\ Head(q) \in M
  OBVIOUS

(* The channel after a step that leaves it alone, empties it, adds to it or  *)
(* takes from it.                                                           *)
LEMMA SeChannelStands ==
    ASSUME SeInv, UNCHANGED seChannel, (UNCHANGED seBatch) \/ seBatch' = <<>>, UNCHANGED seWriter,
           SeAwaitsReply => SeAwaitsReply',
           seServer = "ending" => seServer' = "ending" \/ seWriter = "ended",
           seHold'.op = "stop" => UNCHANGED seHold \/ seServer # "ending"
    PROVE  SeInChannel'
<1>1. \E M : seBatch' \in Seq(M)
  <2>1. <<>> \in Seq({})
    OBVIOUS
  <2> QED BY <2>1 DEF SeInv, SeInChannel
<1>2. seWriter' = "ended" => seChannel' = <<>> /\ seBatch' = <<>>
  BY DEF SeInv, SeInChannel
<1>3. ASSUME NEW i \in 1..Len(seChannel')
      PROVE  \/ seChannel'[i].op = "event"
             \/ seChannel'[i].op = "flush" /\ i = Len(seChannel') /\ SeAwaitsReply'
             \/ seChannel'[i].op = "stop" /\ i = Len(seChannel') /\ seServer' = "ending" /\ seHold'.op # "stop"
  BY <1>3 DEF SeInv, SeInChannel
<1> QED BY <1>1, <1>2, <1>3 DEF SeInv, SeInChannel

(* An empty channel has nothing out of place. *)
LEMMA SeChannelEmpty ==
    ASSUME seChannel' = <<>>, seBatch' = <<>>
    PROVE  SeInChannel'
<1>1. <<>> \in Seq({}) /\ Len(<<>>) = 0
  OBVIOUS
<1> QED BY <1>1 DEF SeInChannel

(* A message is sent by whoever may send it. *)
LEMMA SeChannelSent ==
    ASSUME SeInv, NEW m, seChannel' = Append(seChannel, m), UNCHANGED seBatch,
           seWriter = "running", UNCHANGED seWriter,
           ~SeAwaitsReply, seServer # "ending" \/ seHold.op = "stop",
           \/ m.op = "event"
           \/ m.op = "flush" /\ SeAwaitsReply'
           \/ m.op = "stop" /\ seServer' = "ending" /\ seHold'.op # "stop"
    PROVE  SeInChannel'
<1>1. PICK M : seChannel \in Seq(M)
  BY DEF SeInv, SeInChannel
<1>2. \A i \in 1..Len(seChannel) : seChannel[i].op = "event"
  BY DEF SeInv, SeInChannel
<1>3. \A i \in 1..Len(seChannel') : seChannel'[i].op = "event" \/ (i = Len(seChannel') /\ seChannel'[i] = m)
  BY <1>1, <1>2, SeSent
<1>4. seChannel' \in Seq(M \cup {m})
  BY <1>1, SeSent
<1>5. \E N : seBatch' \in Seq(N)
  BY DEF SeInv, SeInChannel
<1> QED BY <1>3, <1>4, <1>5 DEF SeInChannel

(* The writer takes an event into its batch. *)
LEMMA SeChannelTaken ==
    ASSUME SeInv, SeWriterTakes
    PROVE  SeInChannel'
<1>1. PICK M : seChannel \in Seq(M)
  BY DEF SeInv, SeInChannel
<1>2. PICK N : seBatch \in Seq(N)
  BY DEF SeInv, SeInChannel
<1>3. /\ seChannel' = Tail(seChannel) /\ seChannel # <<>> /\ seBatch' = Append(seBatch, Head(seChannel))
      /\ seWriter = "running" /\ UNCHANGED <<seWriter, seServer, seHold>>
  BY DEF SeWriterTakes, SeWriterFree
<1>4. seChannel' \in Seq(M) /\ seBatch' \in Seq(N \cup {Head(seChannel)})
  BY <1>1, <1>2, <1>3, SeTaken, SeSent
<1>5. ASSUME NEW i \in 1..Len(seChannel')
      PROVE  \/ seChannel'[i].op = "event"
             \/ seChannel'[i].op = "flush" /\ i = Len(seChannel') /\ SeAwaitsReply'
             \/ seChannel'[i].op = "stop" /\ i = Len(seChannel') /\ seServer' = "ending" /\ seHold'.op # "stop"
  <2>1. /\ seChannel'[i] = seChannel[i + 1] /\ i + 1 \in 1..Len(seChannel)
        /\ i + 1 = Len(seChannel) => i = Len(seChannel')
    BY <1>1, <1>3, SeTaken
  <2>2. SeAwaitsReply' = SeAwaitsReply
    BY <1>3 DEF SeAwaitsReply
  <2> QED BY <1>3, <2>1, <2>2 DEF SeInv, SeInChannel
<1> QED BY <1>3, <1>4, <1>5 DEF SeInChannel

(* The reply to a flush finds nothing behind it.                             *)
LEMMA SeFlushIsLast ==
    ASSUME SeInv, SeWriterFlushes
    PROVE  Tail(seChannel) = <<>> /\ SeAwaitsReply
<1>1. PICK M : seChannel \in Seq(M)
  BY DEF SeInv, SeInChannel
<1>2. seChannel # <<>> /\ Head(seChannel).op = "flush"
  BY DEF SeWriterFlushes
<1>3. 1 \in 1..Len(seChannel) /\ seChannel[1].op = "flush"
  BY <1>1, <1>2, SeTaken
<1>4. 1 = Len(seChannel) /\ SeAwaitsReply
  BY <1>3 DEF SeInv, SeInChannel
<1>5. Tail(seChannel) \in Seq(M) /\ Len(Tail(seChannel)) = 0
  BY <1>1, <1>2, <1>4, SeTaken
<1> QED BY <1>4, <1>5, SeNoneLeft

(* No flush and no stop ever has a message behind it. *)
LEMMA SeInChannelStep == SeInv /\ SeNext => SeInChannel'
<1> SUFFICES ASSUME SeInv, SeNext PROVE SeInChannel'
  OBVIOUS
<1> USE DEF SeUnlocked, SeFree
<1>1. ASSUME NEW k \in SeKinds, SeRecord(k) PROVE SeInChannel'
  <2>1. SeUnlocked /\ seServer \in {"up", "stopping"} /\ UNCHANGED <<seBatch, seWriter, seServer>>
    BY <1>1 DEF SeRecord, SeWorkersAlive
  <2>2. CASE seWriter # "ended" /\ seChannel' = Append(seChannel, SeMessage(k))
    <3>1. SeMessage(k).op = "event"
      BY DEF SeMessage
    <3>2. seWriter = "running"
      BY <2>2 DEF SeInv, SeControl
    <3> QED BY <2>1, <2>2, <3>1, <3>2, SeChannelSent DEF SeAwaitsReply
  <2>3. CASE UNCHANGED seChannel
    <3>1. seHold'.op # "stop"
      BY <1>1, <2>1 DEF SeRecord
    <3> QED BY <2>1, <2>3, <3>1, SeChannelStands DEF SeAwaitsReply
  <2> QED BY <1>1, <2>2, <2>3 DEF SeRecord
<1>2. CASE SeRecordWaited
  <2>1. /\ seHold.op = "record" /\ seHold'.op # "stop" /\ UNCHANGED <<seBatch, seWriter, seServer>>
        /\ \/ UNCHANGED seChannel
           \/ seWriter = "running" /\ seChannel' = Append(seChannel, seHold.message)
    BY <1>2 DEF SeRecordWaited
  <2>2. seHold.message.op = "event" /\ seServer # "ending"
    BY <2>1 DEF SeInv, SeHolder
  <2>3. ~SeAwaitsReply
    BY <2>1 DEF SeAwaitsReply
  <2>4. CASE UNCHANGED seChannel
    BY <2>1, <2>3, <2>4, SeChannelStands
  <2>5. CASE seWriter = "running" /\ seChannel' = Append(seChannel, seHold.message)
    BY <2>1, <2>2, <2>3, <2>5, SeChannelSent
  <2> QED BY <2>1, <2>4, <2>5
<1>3. CASE \/ \E k \in SeWebKinds : SeWebRecord(k)
           \/ SeWebWrite \/ SePrune \/ SeRestore \/ SeTick
  <2>1. UNCHANGED <<seChannel, seBatch, seWriter, seHold>>
    BY <1>3 DEF SeWebRecord, SeWebWrite, SePrune, SeRestore, SeTick
  <2>2. seServer = "ending" => seServer' = "ending"
    BY <1>3 DEF SeWebRecord, SeWebWrite, SePrune, SeRestore, SeTick
  <2> QED BY <2>1, <2>2, SeChannelStands DEF SeAwaitsReply
<1>4. CASE SeWriterTakes
  BY <1>4, SeChannelTaken
<1>5. CASE SeWriterWrites
  <2>1. \/ UNCHANGED <<seChannel, seWriter, seHold, seServer>> /\ seBatch' = <<>>
        \/ seChannel' = <<>> /\ seBatch' = <<>>
    BY <1>5 DEF SeWriterWrites, SeWriterFails
  <2> QED BY <2>1, SeChannelStands, SeChannelEmpty DEF SeAwaitsReply
<1>6. CASE SeWriterFlushes
  <2>1. seBatch' = <<>> /\ (seChannel' = <<>> \/ seChannel' = Tail(seChannel))
    BY <1>6 DEF SeWriterFlushes, SeWriterFails
  <2> QED BY <1>6, <2>1, SeFlushIsLast, SeChannelEmpty
<1>7. CASE SeWriterStops \/ SeStartWriter \/ SeCrash
  <2>1. seChannel' = <<>> /\ seBatch' = <<>>
    BY <1>7 DEF SeWriterStops, SeWriterFails, SeStartWriter, SeCrash
  <2> QED BY <2>1, SeChannelEmpty
<1>8. ASSUME NEW op \in {"clear", "prune"}, SeLock(op) PROVE SeInChannel'
  <2>1. UNCHANGED <<seChannel, seBatch, seWriter, seServer>> /\ SeUnlocked /\ seHold'.op # "stop"
    BY <1>8 DEF SeLock
  <2> QED BY <2>1, SeChannelStands DEF SeAwaitsReply
<1>9. CASE SeFlushSend
  <2>1. /\ UNCHANGED <<seBatch, seWriter, seServer>>
        /\ seHold.op = "flush" /\ seHold.stage = "send"
        /\ \/ UNCHANGED seChannel /\ seHold' = SeFree
           \/ /\ seWriter = "running" /\ seChannel' = Append(seChannel, [op |-> "flush"])
              /\ seHold' = [seHold EXCEPT !.stage = "wait"]
    BY <1>9 DEF SeFlushSend
  <2>2. CASE UNCHANGED seChannel /\ seHold' = SeFree
    BY <2>1, <2>2, SeChannelStands DEF SeAwaitsReply
  <2>3. CASE /\ seWriter = "running" /\ seChannel' = Append(seChannel, [op |-> "flush"])
             /\ seHold' = [seHold EXCEPT !.stage = "wait"]
    <3>1. ~SeAwaitsReply /\ SeAwaitsReply' /\ seServer # "ending"
      BY <2>1, <2>3 DEF SeAwaitsReply, SeInv, SeControl, SeHolder
    <3> QED BY <2>1, <2>3, <3>1, SeChannelSent
  <2> QED BY <2>1, <2>2, <2>3
<1>10. CASE SeDelete
  <2>1. /\ UNCHANGED <<seChannel, seBatch, seWriter, seServer>>
        /\ seHold.stage = "do" /\ seHold'.op # "stop"
    BY <1>10, Zenon DEF SeDelete
  <2> QED BY <2>1, SeChannelStands DEF SeAwaitsReply
<1>11. CASE SeStartReset \/ SeStop \/ SeShutdown
  <2>1. UNCHANGED <<seChannel, seBatch, seWriter, seHold>> /\ (seServer = "ending" => seWriter = "ended")
    BY <1>11 DEF SeStartReset, SeStop, SeShutdown
  <2> QED BY <2>1, SeChannelStands DEF SeAwaitsReply
<1>12. CASE SeStopWriter
  <2>1. /\ seServer = "joined" /\ SeUnlocked /\ seServer' = "ending" /\ UNCHANGED <<seBatch, seWriter>>
        /\ \/ UNCHANGED seChannel
           \/ seWriter = "running" /\ seChannel' = Append(seChannel, [op |-> "stop"]) /\ UNCHANGED seHold
    BY <1>12 DEF SeStopWriter
  <2>2. CASE UNCHANGED seChannel
    BY <2>1, <2>2, SeChannelStands DEF SeAwaitsReply
  <2>3. CASE seWriter = "running" /\ seChannel' = Append(seChannel, [op |-> "stop"]) /\ UNCHANGED seHold
    BY <2>1, <2>3, SeChannelSent DEF SeAwaitsReply
  <2> QED BY <2>1, <2>2, <2>3
<1>13. CASE SeStopWaited
  <2>1. /\ seHold.op = "stop" /\ seHold' = SeFree /\ UNCHANGED <<seBatch, seWriter, seServer>>
        /\ \/ UNCHANGED seChannel
           \/ seWriter = "running" /\ seChannel' = Append(seChannel, [op |-> "stop"])
    BY <1>13 DEF SeStopWaited
  <2>2. seServer = "ending"
    BY <2>1 DEF SeInv, SeHolder
  <2>3. CASE UNCHANGED seChannel
    BY <2>1, <2>3, SeChannelStands DEF SeAwaitsReply
  <2>4. CASE seWriter = "running" /\ seChannel' = Append(seChannel, [op |-> "stop"])
    BY <2>1, <2>2, <2>4, SeChannelSent DEF SeAwaitsReply
  <2> QED BY <2>1, <2>3, <2>4
<1> QED
  BY <1>1, <1>2, <1>3, <1>4, <1>5, <1>6, <1>7, <1>8, <1>9, <1>10, <1>11, <1>12, <1>13 DEF SeNext

(* The barrier of a deletion stands until it has deleted. *)
LEMMA SeBarrierStep == SeInv /\ SeNext => SeBarrier'
<1> SUFFICES ASSUME SeInv, SeNext, ~seQuit', seHold'.op = "flush", seHold'.stage = "do"
             PROVE  seChannel' = <<>> /\ seBatch' = <<>>
  BY DEF SeBarrier
<1>1. ASSUME UNCHANGED seHold, UNCHANGED seQuit,
             seChannel' = <<>> \/ UNCHANGED seChannel, seBatch' = <<>> \/ UNCHANGED seBatch
      PROVE  seChannel' = <<>> /\ seBatch' = <<>>
  BY <1>1 DEF SeInv, SeBarrier
<1>2. CASE \/ \E k \in SeWebKinds : SeWebRecord(k)
           \/ SeWebWrite \/ SePrune \/ SeRestore \/ SeTick \/ SeStartReset \/ SeStop
  <2>1. UNCHANGED <<seHold, seQuit, seChannel, seBatch>>
    BY <1>2 DEF SeWebRecord, SeWebWrite, SePrune, SeRestore, SeTick, SeStartReset, SeStop
  <2> QED BY <1>1, <2>1
<1>3. CASE SeWriterTakes
  <2>1. seChannel # <<>> /\ UNCHANGED <<seHold, seQuit>>
    BY <1>3 DEF SeWriterTakes
  <2> QED BY <2>1 DEF SeInv, SeBarrier
<1>4. CASE SeWriterWrites \/ SeWriterStops
  <2>1. UNCHANGED seQuit /\ (UNCHANGED seHold \/ seHold' = SeFree)
    BY <1>4 DEF SeWriterWrites, SeWriterStops, SeWriterFails
  <2>2. seBatch' = <<>> /\ (seChannel' = <<>> \/ UNCHANGED seChannel)
    BY <1>4 DEF SeWriterWrites, SeWriterStops, SeWriterFails
  <2> QED BY <1>1, <2>1, <2>2 DEF SeFree
<1>5. CASE SeWriterFlushes
  <2>1. seBatch' = <<>> /\ (seChannel' = <<>> \/ seChannel' = Tail(seChannel))
    BY <1>5 DEF SeWriterFlushes, SeWriterFails
  <2> QED BY <1>5, <2>1, SeFlushIsLast
<1>6. ASSUME NEW op \in {"clear", "prune"}, SeLock(op) PROVE seChannel' = <<>> /\ seBatch' = <<>>
  <2>1. UNCHANGED <<seServer, seQuit, seChannel, seBatch, seWriter>> /\ ~seSender
    BY <1>6 DEF SeLock, SeFirstStage
  <2>2. seServer' \in {"down", "up"}
    BY SeHolderStep DEF SeHolder
  <2>3. seWriter = "ended"
    BY <2>1, <2>2 DEF SeInv, SeControl
  <2> QED BY <2>1, <2>3 DEF SeInv, SeInChannel
<1>7. CASE SeStartWriter \/ SeCrash
  BY <1>7 DEF SeStartWriter, SeCrash
<1>8. CASE SeDelete
  BY <1>8, Zenon DEF SeDelete, SeFree
<1>9. CASE SeShutdown
  BY <1>9 DEF SeShutdown
<1>10. CASE SeRecordWaited \/ SeStopWaited
  BY <1>10 DEF SeRecordWaited, SeStopWaited, SeFree
<1>11. CASE SeFlushSend
  BY <1>11 DEF SeFlushSend, SeFree, SeInv, SeHolder
<1>12. CASE SeStopWriter
  BY <1>12 DEF SeStopWriter, SeUnlocked, SeFree
<1>13. ASSUME NEW k \in SeKinds, SeRecord(k) PROVE FALSE
  BY <1>13 DEF SeRecord, SeUnlocked, SeFree
<1> QED
  BY <1>2, <1>3, <1>4, <1>5, <1>6, <1>7, <1>8, <1>9, <1>10, <1>11, <1>12, <1>13 DEF SeNext

(* An era on the way stays the era, one that is sent is the present one.     *)
LEMMA SeClearStep == SeInv /\ SeNext => SeClearedIsGone'
<1> SUFFICES ASSUME SeInv, SeNext, ~seQuit' PROVE SeClearWaitsForAll'
  BY DEF SeClearedIsGone
<1>1. ASSUME seQuit PROVE SeClearWaitsForAll'
  <2>1. SeCrash
    BY <1>1 DEF SeNext, SeRecord, SeRecordWaited, SeWebRecord, SeWebWrite, SeWriterTakes, SeWriterWrites,
                SeWriterFlushes, SeWriterStops, SePrune, SeLock, SeFlushSend, SeDelete, SeStartReset, SeRestore,
                SeStartWriter, SeStop, SeShutdown, SeStopWriter, SeStopWaited, SeTick
  <2>2. seChannel' = <<>> /\ seBatch' = <<>> /\ seHold' = SeFree
    BY <2>1 DEF SeCrash
  <2> QED BY <2>2 DEF SeClearWaitsForAll, SeFree
<1>2. ASSUME ~seQuit, UNCHANGED seEra, UNCHANGED seChannel \/ seChannel' = <<>>,
             UNCHANGED seBatch \/ seBatch' = <<>>, UNCHANGED seHold \/ seHold'.op # "record"
      PROVE  SeClearWaitsForAll'
  BY <1>2 DEF SeInv, SeClearedIsGone, SeClearWaitsForAll
<1>3. ASSUME ~seQuit, NEW m, m.op = "event" => m.era = seEra, UNCHANGED <<seEra, seBatch>>,
             seChannel' = Append(seChannel, m), seHold'.op # "record"
      PROVE  SeClearWaitsForAll'
  <2>1. PICK M : seChannel \in Seq(M)
    BY DEF SeInv, SeInChannel
  <2>2. \A i \in DOMAIN seChannel' :
          seChannel'[i] = m \/ (i \in DOMAIN seChannel /\ seChannel'[i] = seChannel[i])
    BY <1>3, <2>1, SeSent
  <2> QED BY <1>3, <2>2 DEF SeInv, SeClearedIsGone, SeClearWaitsForAll
<1>4. ASSUME ~seQuit, NEW k \in SeKinds, SeRecord(k) PROVE SeClearWaitsForAll'
  <2>1. UNCHANGED <<seEra, seBatch>> /\ seHold = SeFree
    BY <1>4 DEF SeRecord, SeUnlocked
  <2>2. SeMessage(k).op = "event" /\ SeMessage(k).era = seEra
    BY DEF SeMessage
  <2>3. CASE seChannel' = Append(seChannel, SeMessage(k)) /\ UNCHANGED seHold
    BY <1>3, <1>4, <2>1, <2>2, <2>3 DEF SeFree
  <2>4. CASE UNCHANGED <<seChannel, seHold>>
    BY <1>2, <1>4, <2>1, <2>4
  <2>5. CASE seHold' = [op |-> "record", message |-> SeMessage(k)] /\ UNCHANGED seChannel
    BY <1>4, <2>1, <2>2, <2>5 DEF SeInv, SeClearedIsGone, SeClearWaitsForAll
  <2> QED BY <1>4, <2>3, <2>4, <2>5 DEF SeRecord
<1>5. ASSUME ~seQuit, SeRecordWaited PROVE SeClearWaitsForAll'
  <2>1. /\ seHold.op = "record" /\ seHold' = SeFree /\ UNCHANGED <<seEra, seBatch>>
        /\ UNCHANGED seChannel \/ seChannel' = Append(seChannel, seHold.message)
    BY <1>5 DEF SeRecordWaited
  <2>2. seHold.message.era = seEra
    BY <1>5, <2>1 DEF SeInv, SeClearedIsGone, SeClearWaitsForAll
  <2> QED BY <1>2, <1>3, <1>5, <2>1, <2>2 DEF SeFree
<1>6. ASSUME ~seQuit, SeFlushSend \/ SeStopWriter \/ SeStopWaited PROVE SeClearWaitsForAll'
  <2>1. /\ UNCHANGED <<seEra, seBatch>>
        /\ \/ UNCHANGED seChannel
           \/ seChannel' = Append(seChannel, [op |-> "flush"])
           \/ seChannel' = Append(seChannel, [op |-> "stop"])
    BY <1>6 DEF SeFlushSend, SeStopWriter, SeStopWaited
  <2>2. seHold'.op # "record"
    BY <1>6 DEF SeFlushSend, SeStopWriter, SeStopWaited, SeUnlocked, SeFree, SeInv, SeHolder
  <2> QED BY <1>2, <1>3, <1>6, <2>1, <2>2
<1>7. ASSUME ~seQuit, SeWriterTakes PROVE SeClearWaitsForAll'
  <2>1. PICK M : seChannel \in Seq(M)
    BY DEF SeInv, SeInChannel
  <2>2. PICK N : seBatch \in Seq(N)
    BY DEF SeInv, SeInChannel
  <2>3. /\ seChannel # <<>> /\ Head(seChannel).op = "event" /\ seChannel' = Tail(seChannel)
        /\ seBatch' = Append(seBatch, Head(seChannel)) /\ UNCHANGED <<seEra, seHold>>
    BY <1>7 DEF SeWriterTakes
  <2>4. /\ \A i \in DOMAIN seChannel' : i + 1 \in DOMAIN seChannel /\ seChannel'[i] = seChannel[i + 1]
        /\ 1 \in DOMAIN seChannel /\ Head(seChannel) = seChannel[1]
    BY <2>1, <2>3, SeTaken
  <2>5. \A i \in DOMAIN seBatch' :
          seBatch'[i] = Head(seChannel) \/ (i \in DOMAIN seBatch /\ seBatch'[i] = seBatch[i])
    BY <2>2, <2>3, SeSent
  <2> QED BY <1>7, <2>3, <2>4, <2>5 DEF SeInv, SeClearedIsGone, SeClearWaitsForAll
<1>8. ASSUME ~seQuit, SeWriterFlushes PROVE SeClearWaitsForAll'
  <2>1. /\ seBatch' = <<>> /\ (seChannel' = <<>> \/ seChannel' = Tail(seChannel))
        /\ UNCHANGED seEra
    BY <1>8 DEF SeWriterFlushes, SeWriterFails
  <2>2. seHold'.op # "record"
    <3>1. seHold' = SeFree \/ seHold' = [seHold EXCEPT !.stage = "do"] \/ UNCHANGED seHold
      BY <1>8 DEF SeWriterFlushes, SeWriterFails
    <3>2. SeAwaitsReply
      BY <1>8, SeFlushIsLast
    <3> QED BY <3>1, <3>2 DEF SeAwaitsReply, SeFree, SeInv, SeHolder
  <2> QED BY <1>2, <1>8, <2>1, <2>2, SeFlushIsLast
<1>9. ASSUME ~seQuit, SeDelete PROVE SeClearWaitsForAll'
  <2>1. /\ seHold.op = "flush" /\ seHold.stage = "do" /\ seHold' = SeFree
        /\ UNCHANGED <<seChannel, seBatch>>
    BY <1>9, Zenon DEF SeDelete
  <2>2. seChannel = <<>> /\ seBatch = <<>>
    BY <1>9, <2>1 DEF SeInv, SeBarrier
  <2> QED BY <2>1, <2>2 DEF SeClearWaitsForAll, SeFree
<1>10. ASSUME ~seQuit, SeWriterWrites \/ SeWriterStops \/ SeStartWriter \/ SeCrash PROVE SeClearWaitsForAll'
  <2>1. UNCHANGED seEra /\ (UNCHANGED seHold \/ seHold' = SeFree)
    BY <1>10 DEF SeWriterWrites, SeWriterStops, SeWriterFails, SeStartWriter, SeCrash
  <2>2. (UNCHANGED seChannel \/ seChannel' = <<>>) /\ seBatch' = <<>>
    BY <1>10 DEF SeWriterWrites, SeWriterStops, SeWriterFails, SeStartWriter, SeCrash
  <2> QED BY <1>2, <1>10, <2>1, <2>2 DEF SeFree
<1>11. ASSUME ~seQuit, \/ \E k \in SeWebKinds : SeWebRecord(k)
                       \/ SeWebWrite \/ SePrune \/ SeRestore \/ SeTick \/ SeStartReset \/ SeStop \/ SeShutdown
       PROVE SeClearWaitsForAll'
  <2>1. UNCHANGED <<seEra, seChannel, seBatch, seHold>>
    BY <1>11 DEF SeWebRecord, SeWebWrite, SePrune, SeRestore, SeTick, SeStartReset, SeStop, SeShutdown
  <2> QED BY <1>2, <1>11, <2>1
<1>12. ASSUME ~seQuit, NEW op \in {"clear", "prune"}, SeLock(op) PROVE SeClearWaitsForAll'
  <2>1. UNCHANGED <<seEra, seChannel, seBatch>> /\ seHold'.op = "flush"
    BY <1>12 DEF SeLock
  <2> QED BY <1>2, <1>12, <2>1
<1> QED
  BY <1>1, <1>4, <1>5, <1>6, <1>7, <1>8, <1>9, <1>10, <1>11, <1>12 DEF SeNext

(* Nothing runs at first. *)
LEMMA SeInitially == SeInit => SeInv
<1> SUFFICES ASSUME SeInit PROVE SeInv
  OBVIOUS
<1>1. <<>> \in Seq({}) /\ Len(<<>>) = 0
  OBVIOUS
<1>2. SeControl
  BY DEF SeInit, SeControl
<1>3. SeHolder
  BY DEF SeInit, SeHolder, SeFree
<1>4. SeInChannel
  BY <1>1 DEF SeInit, SeInChannel
<1>5. SeBarrier /\ SeClearedIsGone /\ SeOnlyFaultsLose
  BY DEF SeInit, SeBarrier, SeClearedIsGone, SeClearWaitsForAll, SeOnlyFaultsLose, SeFree
<1> QED BY <1>2, <1>3, <1>4, <1>5 DEF SeInv

(* Whatever else happens in the process leaves it alone. *)
LEMMA SeStutters == SeInv /\ UNCHANGED seVars => SeInv'
  BY DEF seVars, SeInv, SeControl, SeHolder, SeInChannel, SeBarrier, SeClearedIsGone, SeClearWaitsForAll,
         SeOnlyFaultsLose, SeAwaitsReply

(* SecurityEventWriter with its callers: the inductive invariant of the     *)
(* path from a worker to the table.                                         *)
THEOREM SeInvariant == SeSpec => []SeInv
<1>1. SeInv /\ [SeNext]_seVars => SeInv'
  BY SeControlStep, SeHolderStep, SeInChannelStep, SeBarrierStep, SeClearStep, SeLossStep, SeStutters DEF SeInv
<1> QED BY SeInitially, <1>1, PTL DEF SeSpec

(* The two parts of SeEventsKept that say of the writer's path that nothing  *)
(* crosses a clear and nothing is lost: outside of a shutdown no event that  *)
(* was recorded before a clear is on its way after it, and only a fault     *)
(* loses one, however a worker, a clear, a prune, a stop and the writer mix. *)
THEOREM SeNothingStray == SeSpec => [](SeClearedIsGone /\ SeOnlyFaultsLose)
  BY SeInvariant, PTL DEF SeInv

------------------------------------------------------------------------------
(* Induction over a set of numbers. *)
LEMMA SeAllNumbers ==
    ASSUME NEW S \in SUBSET Nat, 0 \in S, \A n \in S : n + 1 \in S
    PROVE  S = Nat
<1> SUFFICES ASSUME S # Nat PROVE FALSE
  OBVIOUS
<1> DEFINE T == Nat \ S
<1>1. T \subseteq Nat /\ T # {}
  OBVIOUS
<1>2. PICK x \in T : \A y \in T : ~(<<y, x>> \in OpToRel(<, Nat))
  <2> HIDE DEF T
  <2> QED BY <1>1, NatLessThanWellFounded, WFMin
<1>3. \A y \in T : ~(y < x)
  BY <1>1, <1>2 DEF OpToRel
<1>4. x \in Nat /\ x # 0 /\ x \notin S
  BY <1>2
<1>5. x - 1 \in Nat /\ x - 1 < x /\ (x - 1) + 1 = x
  BY <1>4
<1>6. x - 1 \in S
  BY <1>3, <1>5
<1> QED BY <1>4, <1>5, <1>6

(* The tables that a batch goes through, one per event. *)
SeRun(t, db, events, n) == t = [i \in 0..n |-> IF i = 0 THEN db ELSE SeUpsert(t[i - 1], events[i])]

(* A batch of any length goes through its tables. *)
LEMMA SeStepsExist ==
    ASSUME NEW db, NEW events
    PROVE  \A n \in Nat : \E t : SeRun(t, db, events, n)
<1> DEFINE S == {n \in Nat : \E t : SeRun(t, db, events, n)}
<1>1. 0 \in S
  <2> DEFINE t == [i \in 0..0 |-> db]
  <2>1. t = [i \in 0..0 |-> IF i = 0 THEN db ELSE SeUpsert(t[i - 1], events[i])]
    OBVIOUS
  <2> QED BY <2>1 DEF SeRun
<1>2. ASSUME NEW n \in S PROVE n + 1 \in S
  <2>1. PICK t : SeRun(t, db, events, n)
    OBVIOUS
  <2> DEFINE u == [i \in 0..n+1 |-> IF i = n + 1 THEN SeUpsert(t[n], events[n + 1]) ELSE t[i]]
  <2>2. n \in Nat
    OBVIOUS
  <2>3. ASSUME NEW i \in 0..n+1
        PROVE  u[i] = IF i = 0 THEN db ELSE SeUpsert(u[i - 1], events[i])
    <3>1. CASE i = n + 1
      <4>1. i - 1 = n /\ n \in 0..n+1 /\ n # n + 1 /\ i # 0
        BY <2>2, <3>1
      <4> QED BY <3>1, <4>1
    <3>2. CASE i # n + 1 /\ i # 0
      <4>1. i \in 0..n /\ i - 1 \in 0..n+1 /\ i - 1 # n + 1
        BY <2>2, <3>2
      <4>2. t[i] = SeUpsert(t[i - 1], events[i])
        <5> HIDE DEF u
        <5> QED BY <2>1, <3>2, <4>1, Zenon DEF SeRun
      <4> QED BY <3>2, <4>1, <4>2
    <3>3. CASE i # n + 1 /\ i = 0
      <4>1. i \in 0..n
        BY <2>2, <3>3
      <4>2. t[i] = db
        <5> HIDE DEF u
        <5> QED BY <2>1, <3>3, <4>1, Zenon DEF SeRun
      <4> QED BY <3>3, <4>2
    <3> QED BY <3>1, <3>2, <3>3
  <2>4. u = [i \in 0..n+1 |-> u[i]]
    OBVIOUS
  <2>5. u = [i \in 0..n+1 |-> IF i = 0 THEN db ELSE SeUpsert(u[i - 1], events[i])]
    <3> HIDE DEF u
    <3> QED BY <2>3, <2>4, Zenon
  <2>6. n + 1 \in Nat
    BY <2>2
  <2> HIDE DEF u
  <2> QED BY <2>5, <2>6 DEF SeRun
<1>3. S \in SUBSET Nat
  OBVIOUS
<1>4. S = Nat
  <2> HIDE DEF S
  <2> QED BY <1>1, <1>2, <1>3, SeAllNumbers
<1> QED BY <1>4

(* What is stored is the last of them. *)
LEMMA SeStoredLast ==
    ASSUME NEW events, Len(events) \in Nat
    PROVE  \E t : SeRun(t, seDb, events, Len(events)) /\ SeStored(events) = t[Len(events)]
<1> DEFINE t == CHOOSE u : u = [i \in 0..Len(events) |-> IF i = 0 THEN seDb ELSE SeUpsert(u[i - 1], events[i])]
<1>1. \E u : SeRun(u, seDb, events, Len(events))
  BY SeStepsExist
<1>2. SeRun(t, seDb, events, Len(events))
  BY <1>1, Zenon DEF SeRun
<1>3. SeStored(events) = t[Len(events)]
  BY Zenon DEF SeStored
<1> QED
  <2> HIDE DEF t
  <2> QED BY <1>2, <1>3

(* A new event is of the present at the latest, and counts once. *)
SeGood(e, now) == e \in SeEvents /\ e.count = 1 /\ e.first <= e.last /\ e.last <= now

(* A table of events until now. *)
SeTable(db, now) ==
    \A r \in DOMAIN db :
        /\ r \in (SeKinds \cup SeWebKinds) \X (0..MaxSeTime)
        /\ db[r].last \in 0..MaxSeTime /\ db[r].count \in Nat \ {0}
        /\ r[2] <= db[r].last /\ db[r].last <= now
SeCount(db, r) == IF r \in DOMAIN db THEN db[r].count ELSE 0
SeOne(e, r) == IF SeRow(e) = r THEN 1 ELSE 0

(* A row counts a number of events, none when it is not there. *)
LEMMA SeCountType ==
    ASSUME NEW db, NEW now, SeTable(db, now), NEW r
    PROVE  SeCount(db, r) \in Nat
  BY DEF SeTable, SeCount

(* UPSERT_SECURITY_EVENT_SQL adds one to the row of the event, and to no    *)
(* other.                                                                   *)
LEMMA SeUpsertOnce ==
    ASSUME NEW db, NEW now \in Nat, SeTable(db, now), NEW e, SeGood(e, now)
    PROVE  /\ SeTable(SeUpsert(db, e), now)
           /\ \A r : SeCount(SeUpsert(db, e), r) = SeCount(db, r) + SeOne(e, r)
           /\ DOMAIN SeUpsert(db, e) = DOMAIN db \cup {SeRow(e)}
<1> DEFINE u == SeUpsert(db, e)
<1>0. MaxSeTime \in Nat
  BY SeConstants DEF SeConstants
<1>1. /\ e.kind \in SeKinds \cup SeWebKinds /\ e.first \in 0..MaxSeTime /\ e.last \in 0..MaxSeTime
      /\ e.count = 1 /\ e.first <= e.last /\ e.last <= now
  BY DEF SeGood, SeEvents
<1>2. DOMAIN u = DOMAIN db \cup {SeRow(e)}
  BY DEF SeUpsert
<1>3. \A r \in DOMAIN db : r # SeRow(e) => u[r] = db[r]
  BY DEF SeUpsert
<1>4. ASSUME SeRow(e) \in DOMAIN db
      PROVE  /\ u[SeRow(e)].last = IF db[SeRow(e)].last > e.last THEN db[SeRow(e)].last ELSE e.last
             /\ u[SeRow(e)].count = db[SeRow(e)].count + 1
  BY <1>1, <1>4 DEF SeUpsert
<1>5. ASSUME SeRow(e) \notin DOMAIN db
      PROVE  u[SeRow(e)].last = e.last /\ u[SeRow(e)].count = 1
  BY <1>1, <1>5 DEF SeUpsert
<1>6. SeRow(e) \in (SeKinds \cup SeWebKinds) \X (0..MaxSeTime) /\ SeRow(e)[2] = e.first
  BY <1>1 DEF SeRow
<1>7. \A r : SeCount(u, r) = SeCount(db, r) + SeOne(e, r)
  <2> SUFFICES ASSUME NEW r PROVE SeCount(u, r) = SeCount(db, r) + SeOne(e, r)
    OBVIOUS
  <2>1. SeCount(db, r) \in Nat
    BY SeCountType
  <2> HIDE DEF u
  <2>2. CASE r = SeRow(e)
    BY <1>2, <1>4, <1>5, <2>2 DEF SeCount, SeOne
  <2>3. CASE r # SeRow(e)
    BY <1>2, <1>3, <2>1, <2>3 DEF SeCount, SeOne
  <2> QED BY <2>2, <2>3
<1>8. SeTable(u, now)
  <2> HIDE DEF u
  <2> SUFFICES ASSUME NEW r \in DOMAIN u
               PROVE  /\ r \in (SeKinds \cup SeWebKinds) \X (0..MaxSeTime)
                      /\ u[r].last \in 0..MaxSeTime /\ u[r].count \in Nat \ {0}
                      /\ r[2] <= u[r].last /\ u[r].last <= now
    BY DEF SeTable
  <2>1. CASE r # SeRow(e)
    BY <1>2, <1>3, <2>1 DEF SeTable
  <2>2. CASE r = SeRow(e) /\ r \notin DOMAIN db
    BY <1>1, <1>5, <1>6, <2>2
  <2>3. CASE r = SeRow(e) /\ r \in DOMAIN db
    <3>1. /\ db[r].last \in 0..MaxSeTime /\ db[r].count \in Nat \ {0}
          /\ r[2] <= db[r].last /\ db[r].last <= now
      BY <2>3 DEF SeTable
    <3>2. u[r].last = (IF db[r].last > e.last THEN db[r].last ELSE e.last) /\ u[r].count = db[r].count + 1
      BY <1>4, <2>3
    <3>3. r[2] = e.first
      BY <1>6, <2>3
    <3>4. r \in (SeKinds \cup SeWebKinds) \X (0..MaxSeTime)
      BY <1>6, <2>3
    <3>5. u[r].count \in Nat \ {0}
      BY <3>1, <3>2
    <3>6. u[r].last \in 0..MaxSeTime /\ u[r].last <= now /\ r[2] <= u[r].last
      BY <1>0, <1>1, <3>1, <3>2, <3>3
    <3> QED BY <3>4, <3>5, <3>6
  <2> QED BY <2>1, <2>2, <2>3
<1> QED BY <1>2, <1>7, <1>8

(* Of a sequence, those until i that satisfy S. *)
LEMMA SeCountNext ==
    ASSUME NEW i \in Nat, NEW S
    PROVE  /\ Cardinality((1..i) \cap S) \in Nat
           /\ Cardinality((1..i+1) \cap S) =
                Cardinality((1..i) \cap S) + IF i + 1 \in S THEN 1 ELSE 0
<1>1. IsFiniteSet(1..i)
  BY FS_Interval
<1>2. IsFiniteSet((1..i) \cap S)
  BY <1>1, FS_Subset
<1>3. Cardinality((1..i) \cap S) \in Nat
  BY <1>2, FS_CardinalityType
<1>4. CASE i + 1 \in S
  <2>1. (1..i+1) \cap S = ((1..i) \cap S) \cup {i + 1} /\ i + 1 \notin (1..i) \cap S
    BY <1>4
  <2>2. Cardinality(((1..i) \cap S) \cup {i + 1}) = Cardinality((1..i) \cap S) + 1
    BY <1>2, <2>1, FS_AddElement
  <2> QED BY <1>3, <1>4, <2>1, <2>2
<1>5. CASE i + 1 \notin S
  <2>1. (1..i+1) \cap S = (1..i) \cap S
    BY <1>5
  <2> QED BY <1>3, <1>5, <2>1
<1> QED BY <1>3, <1>4, <1>5

(* The same, of whatever table and event. *)
LEMMA SeUpserts ==
    \A now \in Nat : \A d, e, u : SeTable(d, now) /\ SeGood(e, now) /\ u = SeUpsert(d, e) =>
        SeTable(u, now) /\ \A r : SeCount(u, r) = SeCount(d, r) + SeOne(e, r)
<1> SUFFICES ASSUME NEW now \in Nat, NEW d, NEW e, SeTable(d, now), SeGood(e, now)
             PROVE  /\ SeTable(SeUpsert(d, e), now)
                    /\ \A r : SeCount(SeUpsert(d, e), r) = SeCount(d, r) + SeOne(e, r)
  OBVIOUS
<1> QED
  BY SeUpsertOnce

(* Every event of a batch is counted once, whatever else it holds. *)
LEMMA SeRunCounts ==
    ASSUME NEW db, NEW now \in Nat, SeTable(db, now), NEW events, NEW n \in Nat,
           \A i \in 1..n : SeGood(events[i], now), NEW t, SeRun(t, db, events, n)
    PROVE  /\ SeTable(t[n], now)
           /\ \A r : SeCount(t[n], r) = SeCount(db, r) + Cardinality({i \in 1..n : SeRow(events[i]) = r})
<1> DEFINE Of(r) == {i \in 1..n : SeRow(events[i]) = r}
           S == {i \in Nat : i <= n => /\ SeTable(t[i], now)
                                       /\ \A r : SeCount(t[i], r) = SeCount(db, r) + Cardinality((1..i) \cap Of(r))}
<1>1. 0 \in S
  <2>1. t[0] = db
    BY DEF SeRun
  <2>2. \A r : (1..0) \cap Of(r) = {}
    OBVIOUS
  <2>3. \A r : SeCount(db, r) \in Nat
    BY SeCountType
  <2> QED BY <2>1, <2>2, <2>3, FS_EmptySet
<1>2. ASSUME NEW i \in S PROVE i + 1 \in S
  <2>1. SUFFICES ASSUME i + 1 <= n
                 PROVE  /\ SeTable(t[i + 1], now)
                        /\ \A r : SeCount(t[i + 1], r) = SeCount(db, r) + Cardinality((1..i+1) \cap Of(r))
    OBVIOUS
  <2>2. i \in Nat /\ i <= n /\ i + 1 \in 1..n /\ (i + 1) - 1 = i /\ i + 1 # 0 /\ i + 1 \in 0..n
    BY <2>1
  <2>3. SeTable(t[i], now) /\ \A r : SeCount(t[i], r) = SeCount(db, r) + Cardinality((1..i) \cap Of(r))
    BY <2>2
  <2>4. t[i + 1] = SeUpsert(t[i], events[i + 1])
    <3> HIDE DEF S, Of
    <3> QED BY <2>2 DEF SeRun
  <2>5. /\ SeTable(t[i + 1], now)
        /\ \A r : SeCount(t[i + 1], r) = SeCount(t[i], r) + SeOne(events[i + 1], r)
    <3>1. SeGood(events[i + 1], now)
      BY <2>2
    <3> HIDE DEF S, Of
    <3>2. SeTable(t[i], now)
      BY <2>3
    <3> QED BY <2>4, <3>1, <3>2, SeUpserts
  <2>6. ASSUME NEW r PROVE SeCount(t[i + 1], r) = SeCount(db, r) + Cardinality((1..i+1) \cap Of(r))
    <3>1. SeCount(db, r) \in Nat
      BY SeCountType
    <3>2. i + 1 \in Of(r) <=> SeRow(events[i + 1]) = r
      BY <2>2
    <3> HIDE DEF Of, S
    <3>3. /\ Cardinality((1..i) \cap Of(r)) \in Nat
          /\ Cardinality((1..i+1) \cap Of(r)) = Cardinality((1..i) \cap Of(r)) + IF i + 1 \in Of(r) THEN 1 ELSE 0
      BY <2>2, SeCountNext
    <3> QED BY <2>3, <2>5, <3>1, <3>2, <3>3 DEF SeOne
  <2> QED BY <2>5, <2>6
<1>3. S \in SUBSET Nat
  OBVIOUS
<1>4. S = Nat
  <2> HIDE DEF S
  <2> QED BY <1>1, <1>2, <1>3, SeAllNumbers
<1>5. \A r : (1..n) \cap Of(r) = Of(r)
  OBVIOUS
<1> QED BY <1>4, <1>5

(* The events of a row among the messages of a channel or batch.            *)
LEMMA SeEventsAppended ==
    ASSUME NEW M, NEW q \in Seq(M), NEW m, NEW r
    PROVE  /\ SeEventsOf(q, r) \in Nat
           /\ SeEventsOf(Append(q, m), r) =
                SeEventsOf(q, r) + IF m.op = "event" /\ SeRow(m.event) = r THEN 1 ELSE 0
<1> DEFINE a == Append(q, m)
           S == {i \in 1..Len(q)+1 : a[i].op = "event" /\ SeRow(a[i].event) = r}
<1>1. /\ Len(q) \in Nat /\ DOMAIN q = 1..Len(q) /\ DOMAIN a = 1..Len(q)+1
      /\ \A i \in 1..Len(q) : a[i] = q[i]
      /\ a[Len(q) + 1] = m
  OBVIOUS
<1>2. {i \in DOMAIN q : q[i].op = "event" /\ SeRow(q[i].event) = r} = (1..Len(q)) \cap S
  <2> HIDE DEF a
  <2> QED BY <1>1
<1>3. {i \in DOMAIN a : a[i].op = "event" /\ SeRow(a[i].event) = r} = (1..Len(q)+1) \cap S
  <2> HIDE DEF a
  <2> QED BY <1>1
<1>4. Len(q) + 1 \in S <=> m.op = "event" /\ SeRow(m.event) = r
  <2> HIDE DEF a
  <2> QED BY <1>1
<1> HIDE DEF S, a
<1>5. /\ Cardinality((1..Len(q)) \cap S) \in Nat
      /\ Cardinality((1..Len(q)+1) \cap S) =
            Cardinality((1..Len(q)) \cap S) + IF Len(q) + 1 \in S THEN 1 ELSE 0
  BY <1>1, SeCountNext
<1>6. SeEventsOf(q, r) = Cardinality((1..Len(q)) \cap S)
  BY <1>2 DEF SeEventsOf
<1>7. SeEventsOf(a, r) = Cardinality((1..Len(q)+1) \cap S)
  BY <1>3 DEF SeEventsOf
<1> QED BY <1>4, <1>5, <1>6, <1>7 DEF a

(* No event among no messages. *)
LEMMA SeEventsNone == \A r : SeEventsOf(<<>>, r) = 0
  BY FS_EmptySet DEF SeEventsOf

(* The first message is an event of the row or is not. *)
LEMMA SeEventsTaken ==
    ASSUME NEW M, NEW q \in Seq(M), q # <<>>, NEW r
    PROVE  SeEventsOf(q, r) =
             SeEventsOf(Tail(q), r) + IF Head(q).op = "event" /\ SeRow(Head(q).event) = r THEN 1 ELSE 0
<1> DEFINE S == {i \in DOMAIN q : q[i].op = "event" /\ SeRow(q[i].event) = r}
           T == {i \in DOMAIN Tail(q) : Tail(q)[i].op = "event" /\ SeRow(Tail(q)[i].event) = r}
           U == S \ {1}
<1>1. /\ Len(q) \in Nat \ {0} /\ DOMAIN q = 1..Len(q) /\ DOMAIN Tail(q) = 1..Len(q)-1
      /\ \A i \in 1..Len(q)-1 : Tail(q)[i] = q[i + 1]
      /\ Head(q) = q[1]
  OBVIOUS
<1>2. IsFiniteSet(S) /\ IsFiniteSet(T)
  <2>1. IsFiniteSet(1..Len(q)) /\ IsFiniteSet(1..Len(q)-1)
    BY <1>1, FS_Interval
  <2> QED BY <1>1, <2>1, FS_Subset
<1>3. Cardinality(T) = Cardinality(U)
  <2> DEFINE f == [i \in T |-> i + 1]
  <2>1. \A i \in T : i \in 1..Len(q)-1 /\ i + 1 \in U
    BY <1>1
  <2>2. \A j \in U : j - 1 \in T /\ (j - 1) + 1 = j
    <3> SUFFICES ASSUME NEW j \in U PROVE j - 1 \in T /\ (j - 1) + 1 = j
      OBVIOUS
    <3>1. j \in 1..Len(q) /\ j # 1 /\ q[j].op = "event" /\ SeRow(q[j].event) = r
      BY <1>1
    <3>2. j - 1 \in 1..Len(q)-1 /\ (j - 1) + 1 = j
      BY <1>1, <3>1
    <3> QED BY <1>1, <3>1, <3>2
  <2> HIDE DEF T, U
  <2>3. f \in Bijection(T, U)
    <3>1. \A i, j \in T : f[i] = f[j] => i = j
      BY <1>1, <2>1
    <3>2. \A j \in U : \E i \in T : f[i] = j
      BY <2>2
    <3>3. f \in [T -> U]
      BY <2>1
    <3> QED BY <3>1, <3>2, <3>3, Fun_IsBij
  <2>4. ExistsBijection(T, U)
    BY <2>3 DEF ExistsBijection
  <2> QED BY <1>2, <2>4, FS_Bijection
<1>4. Cardinality(S) \in Nat /\ Cardinality(U) = IF 1 \in S THEN Cardinality(S) - 1 ELSE Cardinality(S)
  <2> HIDE DEF S
  <2> QED BY <1>2, FS_RemoveElement, FS_CardinalityType
<1>5. 1 \in S <=> Head(q).op = "event" /\ SeRow(Head(q).event) = r
  BY <1>1
<1>6. SeEventsOf(q, r) = Cardinality(S) /\ SeEventsOf(Tail(q), r) = Cardinality(T)
  BY DEF SeEventsOf
<1> HIDE DEF S, T, U
<1> QED BY <1>3, <1>4, <1>5, <1>6

(* A batch written moves its events from the way to the table. *)
LEMMA SeStoredCounts ==
    ASSUME NEW now \in Nat, SeTable(seDb, now), NEW M, seBatch \in Seq(M),
           \A i \in 1..Len(seBatch) : seBatch[i].op = "event" /\ SeGood(seBatch[i].event, now)
    PROVE  /\ SeTable(SeStored(SeBatched), now)
           /\ \A r : SeCount(SeStored(SeBatched), r) = SeCount(seDb, r) + SeEventsOf(seBatch, r)
<1>1. Len(seBatch) \in Nat /\ DOMAIN seBatch = 1..Len(seBatch)
  OBVIOUS
<1>2. SeBatched = [i \in 1..Len(seBatch) |-> seBatch[i].event]
  BY <1>1 DEF SeBatched
<1>3. Len(SeBatched) = Len(seBatch)
  BY <1>1, <1>2
<1>4. PICK t : SeRun(t, seDb, SeBatched, Len(SeBatched)) /\ SeStored(SeBatched) = t[Len(SeBatched)]
  BY <1>1, <1>3, SeStoredLast
<1>5. \A i \in 1..Len(seBatch) : SeGood(SeBatched[i], now)
  BY <1>2
<1>6. /\ SeTable(t[Len(seBatch)], now)
      /\ \A r : SeCount(t[Len(seBatch)], r) =
                  SeCount(seDb, r) + Cardinality({i \in 1..Len(seBatch) : SeRow(SeBatched[i]) = r})
  <2>1. SeRun(t, seDb, SeBatched, Len(seBatch))
    BY <1>3, <1>4
  <2> QED BY <1>1, <1>5, <2>1, SeRunCounts
<1>7. \A r : SeEventsOf(seBatch, r) = Cardinality({i \in 1..Len(seBatch) : SeRow(SeBatched[i]) = r})
  <2> SUFFICES ASSUME NEW r
               PROVE  SeEventsOf(seBatch, r) = Cardinality({i \in 1..Len(seBatch) : SeRow(SeBatched[i]) = r})
    OBVIOUS
  <2>1. {i \in DOMAIN seBatch : seBatch[i].op = "event" /\ SeRow(seBatch[i].event) = r}
        = {i \in 1..Len(seBatch) : SeRow(SeBatched[i]) = r}
    BY <1>1, <1>2
  <2> QED BY <2>1 DEF SeEventsOf
<1> QED BY <1>3, <1>4, <1>6, <1>7

------------------------------------------------------------------------------
(* The shown events are in the order of their last occurrence.              *)
SeOrdered(mem, now) ==
    /\ mem \in Seq(SeEvents) /\ Len(mem) <= SeShown
    /\ \A i, j \in 1..Len(mem) : i <= j => mem[i].last <= mem[j].last
    /\ \A i \in 1..Len(mem) : mem[i].count # 0 /\ mem[i].first <= mem[i].last /\ mem[i].last <= now

(* Some places of it, in order.                                             *)
SePlaces(mem, g, n) ==
    g \in [1..n -> 1..Len(mem)] /\ \A i, j \in 1..n : i < j => g[i] < g[j]

(* Some of the shown events, in order, can be shown. *)
LEMMA SePickedOrdered ==
    ASSUME NEW mem, NEW now, SeOrdered(mem, now), NEW n \in Nat, n <= SeShown, NEW g, SePlaces(mem, g, n)
    PROVE  SeOrdered([j \in 1..n |-> mem[g[j]]], now)
<1> DEFINE p == [j \in 1..n |-> mem[g[j]]]
<1>1. \A j \in 1..n : g[j] \in 1..Len(mem) /\ p[j] = mem[g[j]] /\ mem[g[j]] \in SeEvents
  BY DEF SePlaces, SeOrdered
<1>2. p \in Seq(SeEvents) /\ Len(p) = n
  BY <1>1
<1> HIDE DEF p
<1>3. \A i, j \in 1..n : i <= j => p[i].last <= p[j].last
  <2> SUFFICES ASSUME NEW i \in 1..n, NEW j \in 1..n, i <= j PROVE p[i].last <= p[j].last
    OBVIOUS
  <2>1. g[i] <= g[j]
    <3>1. CASE i = j
      BY <1>1, <3>1
    <3>2. CASE i < j
      BY <1>1, <3>2 DEF SePlaces
    <3> QED BY <3>1, <3>2
  <2> QED BY <1>1, <2>1 DEF SeOrdered
<1>4. \A j \in 1..n : p[j].count # 0 /\ p[j].first <= p[j].last /\ p[j].last <= now
  BY <1>1 DEF SeOrdered
<1>5. SeOrdered(p, now)
  BY <1>2, <1>3, <1>4 DEF SeOrdered
<1> QED BY <1>5 DEF p

(* One of the present may follow them. *)
LEMMA SeAddedOrdered ==
    ASSUME NEW mem, NEW now \in Nat, SeOrdered(mem, now), Len(mem) < SeShown,
           NEW e \in SeEvents, e.last = now, e.first <= now, e.count # 0
    PROVE  SeOrdered(Append(mem, e), now)
<1> DEFINE a == Append(mem, e)
<1>1. mem \in Seq(SeEvents) /\ Len(mem) \in Nat /\ SeShown \in Nat
  BY SeConstants DEF SeOrdered, SeConstants
<1>2. /\ a \in Seq(SeEvents) /\ Len(a) = Len(mem) + 1
      /\ \A i \in 1..Len(mem) : a[i] = mem[i]
      /\ a[Len(mem) + 1] = e
  BY <1>1
<1> HIDE DEF a
<1>3. \A i \in 1..Len(mem) : mem[i] \in SeEvents /\ mem[i].last <= now
  BY <1>1 DEF SeOrdered
<1>4. \A i, j \in 1..Len(a) : i <= j => a[i].last <= a[j].last
  <2> SUFFICES ASSUME NEW i \in 1..Len(a), NEW j \in 1..Len(a), i <= j PROVE a[i].last <= a[j].last
    OBVIOUS
  <2>1. CASE j \in 1..Len(mem)
    <3>1. i \in 1..Len(mem)
      BY <2>1
    <3> QED BY <1>2, <2>1, <3>1 DEF SeOrdered
  <2>2. CASE j = Len(mem) + 1 /\ i \in 1..Len(mem)
    BY <1>2, <1>3, <2>2
  <2>3. CASE j = Len(mem) + 1 /\ i = Len(mem) + 1
    BY <1>2, <2>3
  <2> QED BY <1>1, <1>2, <2>1, <2>2, <2>3
<1>5. \A i \in 1..Len(a) : a[i].count # 0 /\ a[i].first <= a[i].last /\ a[i].last <= now
  <2> SUFFICES ASSUME NEW i \in 1..Len(a)
               PROVE  a[i].count # 0 /\ a[i].first <= a[i].last /\ a[i].last <= now
    OBVIOUS
  <2>1. CASE i \in 1..Len(mem)
    BY <1>2, <2>1 DEF SeOrdered
  <2>2. CASE i = Len(mem) + 1
    BY <1>2, <2>2
  <2> QED BY <1>1, <1>2, <2>1, <2>2
<1>6. Len(a) <= SeShown
  BY <1>1, <1>2
<1>7. SeOrdered(a, now)
  BY <1>2, <1>4, <1>5, <1>6 DEF SeOrdered
<1> QED BY <1>7 DEF a

(* Of finitely many numbers one is the greatest. *)
LEMMA SeGreatest ==
    ASSUME NEW n \in Nat, NEW S \in SUBSET (1..n), S # {}
    PROVE  Max(S) \in S /\ \A j \in S : j <= Max(S)
<1> DEFINE T == {n - i : i \in S}
<1>0. \A i \in S : n - i \in Nat
  OBVIOUS
<1>1. T \subseteq Nat /\ T # {}
  BY <1>0
<1>2. PICK x \in T : \A y \in T : ~(<<y, x>> \in OpToRel(<, Nat))
  <2> HIDE DEF T
  <2> QED BY <1>1, NatLessThanWellFounded, WFMin
<1>3. \A y \in T : ~(y < x)
  BY <1>1, <1>2 DEF OpToRel
<1>4. PICK i \in S : x = n - i
  BY <1>2
<1>5. \A j \in S : i >= j
  <2> SUFFICES ASSUME NEW j \in S PROVE i >= j
    OBVIOUS
  <2>1. n - j \in T
    OBVIOUS
  <2>2. ~(n - j < n - i)
    BY <1>3, <1>4, <2>1
  <2> QED BY <2>2
<1>6. \E m \in S : \A j \in S : m >= j
  BY <1>5
<1>7. Max(S) \in S /\ \A j \in S : Max(S) >= j
  BY <1>6, Zenon DEF Max
<1> QED BY <1>7

SeListed(q, n) == q = [j \in 1..n |-> q[j]]

(* Two sequences, one after the other. *)
LEMMA SeJoined ==
    ASSUME NEW M, NEW a \in Seq(M), NEW b \in Seq(M)
    PROVE  \E c : /\ c = a \o b
                  /\ \A j \in 1..Len(a) : c[j] = a[j]
                  /\ \A j \in Len(a)+1..Len(a)+Len(b) : c[j] = b[j - Len(a)]
                  /\ SeListed(c, Len(a) + Len(b))
<1> DEFINE c == a \o b
<1>1. c \in Seq(M) /\ Len(c) = Len(a) + Len(b)
  OBVIOUS
<1>2. \A j \in 1..Len(a) : c[j] = a[j]
  OBVIOUS
<1>3. \A j \in Len(a)+1..Len(a)+Len(b) : c[j] = b[j - Len(a)]
  OBVIOUS
<1>4. c = a \o b
  OBVIOUS
<1> HIDE DEF c
<1>5. c = [j \in 1..Len(c) |-> c[j]]
  BY <1>1
<1>6. c = [j \in 1..Len(a)+Len(b) |-> c[j]]
  BY <1>1, <1>5
<1> QED BY <1>2, <1>3, <1>4, <1>6 DEF SeListed

(* One removed, the others stay in order.                                   *)
LEMMA SeRemoved ==
    ASSUME NEW M, NEW mem \in Seq(M), NEW i \in 1..Len(mem)
    PROVE  \E g : /\ SePlaces(mem, g, Len(mem) - 1) /\ \A j \in 1..Len(mem)-1 : g[j] # i
                  /\ RemoveAt(mem, i) = [j \in 1..Len(mem)-1 |-> mem[g[j]]]
<1> DEFINE n == Len(mem) - 1
           g == [j \in 1..n |-> IF j < i THEN j ELSE j + 1]
           a == SubSeq(mem, 1, i - 1)
           b == SubSeq(mem, i + 1, Len(mem))
<1>1. Len(mem) \in Nat \ {0} /\ n \in Nat /\ i \in Nat
  OBVIOUS
<1>2. /\ a \in Seq(M) /\ Len(a) = i - 1
      /\ \A j \in 1..i-1 : a[j] = mem[j]
  OBVIOUS
<1>3. /\ b \in Seq(M) /\ Len(b) = Len(mem) - i
      /\ \A j \in 1..Len(mem)-i : b[j] = mem[i + j]
  <2>1. CASE i = Len(mem)
    BY <2>1
  <2>2. CASE i < Len(mem)
    BY <2>2
  <2> QED BY <2>1, <2>2
<1>4. PICK c : /\ c = a \o b
               /\ \A j \in 1..Len(a) : c[j] = a[j]
               /\ \A j \in Len(a)+1..Len(a)+Len(b) : c[j] = b[j - Len(a)]
               /\ SeListed(c, Len(a) + Len(b))
  <2>1. a \in Seq(M) /\ b \in Seq(M)
    BY <1>2, <1>3
  <2> HIDE DEF a, b
  <2> QED BY <2>1, SeJoined, Zenon
<1>5. /\ Len(a) = i - 1 /\ Len(a) + Len(b) = n
      /\ \A j \in 1..i-1 : c[j] = mem[j]
      /\ \A j \in i..n : c[j] = mem[j + 1]
  <2>1. (i - 1) + (Len(mem) - i) = n
    BY <1>1
  <2> HIDE DEF a, b, n
  <2>2. Len(a) + Len(b) = n
    BY <1>2, <1>3, <2>1
  <2>3. \A j \in 1..i-1 : c[j] = mem[j]
    BY <1>2, <1>4
  <2>4. ASSUME NEW j \in i..n PROVE c[j] = mem[j + 1]
    <3>1. j \in (i-1)+1..n /\ j - (i - 1) \in 1..Len(mem)-i /\ i + (j - (i - 1)) = j + 1
      BY <1>1, <2>1
    <3>2. c[j] = b[j - (i - 1)]
      BY <1>2, <1>4, <2>2, <3>1
    <3>3. b[j - (i - 1)] = mem[i + (j - (i - 1))]
      BY <1>3, <3>1
    <3> QED BY <3>1, <3>2, <3>3
  <2> QED BY <1>2, <2>2, <2>3, <2>4
<1>6. a \o b = [j \in 1..n |-> mem[g[j]]]
  <2>1. \A j \in 1..n : c[j] = mem[g[j]]
    <3> SUFFICES ASSUME NEW j \in 1..n PROVE c[j] = mem[g[j]]
      OBVIOUS
    <3>1. CASE j < i
      <4>1. j \in 1..i-1 /\ g[j] = j
        BY <3>1
      <4> QED BY <1>5, <4>1
    <3>2. CASE ~(j < i)
      <4>1. j \in i..n /\ g[j] = j + 1
        BY <1>1, <3>2
      <4> QED BY <1>5, <4>1
    <3> QED BY <3>1, <3>2
  <2>2. c = [j \in 1..n |-> c[j]]
    BY <1>4, <1>5 DEF SeListed
  <2>3. c = [j \in 1..n |-> mem[g[j]]]
    <3> HIDE DEF g
    <3> QED BY <2>1, <2>2
  <2> QED BY <1>4, <2>3
<1>7. SePlaces(mem, g, n) /\ \A j \in 1..n : g[j] # i
  <2>1. g \in [1..n -> 1..Len(mem)]
    BY <1>1
  <2>2. \A j, l \in 1..n : j < l => g[j] < g[l]
    BY <1>1
  <2>3. \A j \in 1..n : g[j] # i
    BY <1>1
  <2> QED BY <2>1, <2>2, <2>3 DEF SePlaces
<1>8. RemoveAt(mem, i) = a \o b
  BY DEF RemoveAt
<1> HIDE DEF g, a, b
<1> QED BY <1>6, <1>7, <1>8

(* An event of kind k joins the shown ones: some of them, in order, and it. *)
SeJoins(k, g, n, e) ==
    /\ n \in Nat /\ n < SeShown /\ SePlaces(seMem, g, n) /\ e \in SeEvents
    /\ SeAppended(k) = Append([j \in 1..n |-> seMem[g[j]]], e)
    /\ e.kind = k /\ e.last = seNow /\ e.first <= seNow
    /\ \/ SeSame(k) = {} /\ e.first = seNow /\ e.count = 1
       \/ \E i \in 1..Len(seMem) : /\ SeRow(e) = SeRow(seMem[i]) /\ e.count = seMem[i].count + 1
                                   /\ \A j \in 1..n : g[j] # i

(* An event of the same kind inside the window moves to the back. *)
LEMMA SeAppendedMerged ==
    ASSUME SeOrdered(seMem, seNow), seNow \in 1..MaxSeTime, NEW k, SeSame(k) # {}
    PROVE  \E g, n, e : SeJoins(k, g, n, e)
<1> DEFINE i == Max(SeSame(k))
           n == Len(seMem) - 1
           e == [seMem[i] EXCEPT !.last = seNow, !.count = @ + 1]
<1>0. MaxSeTime \in Nat
  BY SeConstants DEF SeConstants
<1>1. seMem \in Seq(SeEvents) /\ Len(seMem) \in Nat /\ Len(seMem) <= SeShown /\ SeShown \in Nat
  BY SeConstants DEF SeOrdered, SeConstants
<1>2. i \in SeSame(k)
  <2>1. SeSame(k) \in SUBSET (1..Len(seMem))
    BY <1>1 DEF SeSame
  <2> QED BY <1>1, <2>1, SeGreatest
<1>3. i \in 1..Len(seMem) /\ seMem[i].kind = k
  BY <1>1, <1>2 DEF SeSame
<1> HIDE DEF i
<1>4. PICK g : /\ SePlaces(seMem, g, Len(seMem) - 1) /\ \A j \in 1..Len(seMem)-1 : g[j] # i
               /\ RemoveAt(seMem, i) = [j \in 1..Len(seMem)-1 |-> seMem[g[j]]]
  BY <1>1, <1>3, SeRemoved
<1>5. n \in Nat /\ n < SeShown
  BY <1>1, <1>3
<1>6. seMem[i] \in SeEvents /\ seMem[i].first <= seMem[i].last /\ seMem[i].last <= seNow
  BY <1>1, <1>3 DEF SeOrdered
<1>7. /\ e \in SeEvents /\ e.kind = k /\ e.last = seNow /\ e.first = seMem[i].first
      /\ e.count = seMem[i].count + 1
  <2>1. seNow \in 0..MaxSeTime
    BY <1>0
  <2>2. ASSUME NEW m \in SeEvents
        PROVE  /\ [m EXCEPT !.last = seNow, !.count = @ + 1] \in SeEvents
               /\ [m EXCEPT !.last = seNow, !.count = @ + 1].kind = m.kind
               /\ [m EXCEPT !.last = seNow, !.count = @ + 1].last = seNow
               /\ [m EXCEPT !.last = seNow, !.count = @ + 1].first = m.first
               /\ [m EXCEPT !.last = seNow, !.count = @ + 1].count = m.count + 1
    <3> DEFINE u == [kind |-> m.kind, first |-> m.first, last |-> seNow, count |-> m.count + 1]
    <3>1. m.kind \in SeKinds \cup SeWebKinds /\ m.first \in 0..MaxSeTime /\ m.count \in Nat
      BY DEF SeEvents
    <3>2. u \in SeEvents
      BY <2>1, <3>1 DEF SeEvents
    <3>3. [m EXCEPT !.last = seNow, !.count = @ + 1] = u
      <4>1. [m EXCEPT !.last = seNow] = [kind |-> m.kind, first |-> m.first, last |-> seNow, count |-> m.count]
        BY DEF SeEvents
      <4>2. [m EXCEPT !.last = seNow, !.count = @ + 1] = [[m EXCEPT !.last = seNow] EXCEPT !.count = m.count + 1]
        BY DEF SeEvents
      <4>3. \A v : v = [kind |-> m.kind, first |-> m.first, last |-> seNow, count |-> m.count]
                    => [v EXCEPT !.count = m.count + 1] = u
        OBVIOUS
      <4> HIDE DEF u
      <4> QED BY <4>1, <4>2, <4>3
    <3> QED BY <3>2, <3>3
  <2> QED BY <1>3, <1>6, <2>2
<1>8. e.first <= seNow
  <2>1. /\ seMem[i].first \in 0..MaxSeTime /\ seMem[i].last \in 0..MaxSeTime
    BY <1>6 DEF SeEvents
  <2> QED BY <1>0, <1>6, <1>7, <2>1
<1>9. SeRow(e) = SeRow(seMem[i])
  BY <1>3, <1>7 DEF SeRow
<1>10. SeAppended(k) = Append(RemoveAt(seMem, i), e)
  BY DEF SeAppended, i
<1>11. SeAppended(k) = Append([j \in 1..n |-> seMem[g[j]]], e)
  BY <1>4, <1>10
<1> HIDE DEF e, n
<1>12. SePlaces(seMem, g, n) /\ \A j \in 1..n : g[j] # i
  BY <1>4 DEF n
<1>13. SeJoins(k, g, n, e)
  BY <1>3, <1>5, <1>7, <1>8, <1>9, <1>11, <1>12 DEF SeJoins
<1> QED BY <1>13

(* All but the first. *)
LEMMA SeTailIs ==
    ASSUME NEW M, NEW q \in Seq(M), Len(q) >= 1
    PROVE  Tail(q) = [j \in 1..Len(q)-1 |-> q[j + 1]]
<1> DEFINE c == Tail(q)
<1>1. c \in Seq(M) /\ Len(c) = Len(q) - 1 /\ \A j \in 1..Len(q)-1 : c[j] = q[j + 1]
  OBVIOUS
<1> HIDE DEF c
<1>2. c = [j \in 1..Len(c) |-> c[j]]
  BY <1>1
<1>3. c = [j \in 1..Len(q)-1 |-> q[j + 1]]
  BY <1>1, <1>2
<1> QED BY <1>3 DEF c

(* Otherwise a new one follows, and a full queue loses its front. *)
LEMMA SeAppendedNew ==
    ASSUME SeOrdered(seMem, seNow), seNow \in 1..MaxSeTime, NEW k \in SeKinds \cup SeWebKinds, SeSame(k) = {}
    PROVE  \E g, n, e : SeJoins(k, g, n, e)
<1> DEFINE e == [kind |-> k, first |-> seNow, last |-> seNow, count |-> 1]
<1>0. MaxSeTime \in Nat
  BY SeConstants DEF SeConstants
<1>1. seMem \in Seq(SeEvents) /\ Len(seMem) \in Nat /\ Len(seMem) <= SeShown /\ SeShown \in Nat \ {0}
  BY SeConstants DEF SeOrdered, SeConstants
<1>2. /\ e \in SeEvents /\ e.kind = k /\ e.last = seNow /\ e.first = seNow /\ e.count = 1
      /\ e.first <= seNow
  BY <1>0 DEF SeEvents
<1>3. SeAppended(k) = Append(IF Len(seMem) >= SeShown THEN Tail(seMem) ELSE seMem, e)
  BY DEF SeAppended
<1> HIDE DEF e
<1>4. CASE Len(seMem) >= SeShown
  <2> DEFINE n == Len(seMem) - 1
             g == [j \in 1..n |-> j + 1]
  <2>1. n \in Nat /\ n < SeShown
    BY <1>1, <1>4
  <2>2. Tail(seMem) = [j \in 1..n |-> seMem[j + 1]]
    BY <1>1, <1>4, SeTailIs
  <2>3. [j \in 1..n |-> seMem[g[j]]] = [j \in 1..n |-> seMem[j + 1]]
    OBVIOUS
  <2>4. g \in [1..n -> 1..Len(seMem)] /\ \A i, j \in 1..n : i < j => g[i] < g[j]
    BY <1>1
  <2> HIDE DEF n, g
  <2>5. SeJoins(k, g, n, e)
    BY <1>2, <1>3, <1>4, <2>1, <2>2, <2>3, <2>4 DEF SeJoins, SePlaces
  <2> QED BY <2>5
<1>5. CASE ~(Len(seMem) >= SeShown)
  <2> DEFINE n == Len(seMem)
             g == [j \in 1..n |-> j]
  <2>1. n \in Nat /\ n < SeShown
    BY <1>1, <1>5
  <2>2. seMem = [j \in 1..n |-> seMem[j]]
    BY <1>1
  <2>3. [j \in 1..n |-> seMem[g[j]]] = [j \in 1..n |-> seMem[j]]
    OBVIOUS
  <2>4. g \in [1..n -> 1..Len(seMem)] /\ \A i, j \in 1..n : i < j => g[i] < g[j]
    BY <1>1
  <2>5. SeAppended(k) = Append(seMem, e)
    BY <1>3, <1>5
  <2> HIDE DEF g
  <2>6. SeAppended(k) = Append([j \in 1..n |-> seMem[g[j]]], e)
    BY <2>2, <2>3, <2>5
  <2> HIDE DEF n
  <2>7. SeJoins(k, g, n, e)
    BY <1>2, <2>1, <2>4, <2>6 DEF SeJoins, SePlaces
  <2> QED BY <2>7
<1> QED BY <1>4, <1>5

(* Whatever joins, the order stands.                                        *)
LEMMA SeAppendedOrdered ==
    ASSUME SeOrdered(seMem, seNow), seNow \in 1..MaxSeTime, NEW k, NEW g, NEW n, NEW e, SeJoins(k, g, n, e)
    PROVE  /\ SeOrdered(SeAppended(k), seNow) /\ Len(SeAppended(k)) = n + 1
           /\ \A j \in 1..n : SeAppended(k)[j] = seMem[g[j]]
           /\ SeAppended(k)[n + 1] = e
<1> DEFINE p == [j \in 1..n |-> seMem[g[j]]]
<1>1. n \in Nat /\ n < SeShown /\ SeShown \in Nat /\ seNow \in Nat
  BY SeConstants DEF SeConstants, SeJoins
<1>2. SeOrdered(p, seNow)
  <2>1. SePlaces(seMem, g, n) /\ n <= SeShown
    BY <1>1 DEF SeJoins
  <2> QED BY <1>1, <2>1, SePickedOrdered
<1>3. \A j \in 1..n : p[j] = seMem[g[j]]
  OBVIOUS
<1>4. p \in Seq(SeEvents) /\ Len(p) = n
  <2>1. Len(p) = n
    BY <1>1
  <2> QED BY <1>2, <2>1 DEF SeOrdered
<1>5. SeAppended(k) = Append(p, e) /\ e \in SeEvents /\ e.last = seNow /\ e.first <= seNow
  BY DEF SeJoins
<1>6. e.count # 0
  <2>1. CASE e.count = 1
    BY <2>1
  <2>2. ASSUME NEW i \in 1..Len(seMem), e.count = seMem[i].count + 1 PROVE e.count # 0
    <3>1. seMem[i] \in SeEvents
      BY DEF SeOrdered
    <3>2. seMem[i].count \in Nat
      BY <3>1 DEF SeEvents
    <3> QED BY <2>2, <3>2
  <2> QED BY <2>1, <2>2 DEF SeJoins
<1> HIDE DEF p
<1>7. SeOrdered(Append(p, e), seNow)
  BY <1>1, <1>2, <1>4, <1>5, <1>6, SeAddedOrdered
<1>8. /\ Len(Append(p, e)) = n + 1 /\ Append(p, e)[n + 1] = e
      /\ \A j \in 1..n : Append(p, e)[j] = p[j]
  BY <1>1, <1>4
<1> QED BY <1>3, <1>5, <1>7, <1>8

------------------------------------------------------------------------------
(* What memory shows of a row is what was sent and what is stored.          *)
SeTotal(r) == SeOnTheWay(r) + SeCount(seDb, r)

(* No row is shown twice. *)
SeApart ==
    \A i, j \in 1..Len(seMem) : i # j /\ SeRow(seMem[i]) = SeRow(seMem[j]) => SeRow(seMem[i]) \in seHoled

SeRemembers == SeOrdered(seMem, seNow) /\ SeApart /\ SeShownIsStored

(* SeShownIsStored, in terms of the totals. *)
LEMMA SeShownTotal ==
    ASSUME seMem \in Seq(SeEvents)
    PROVE  SeShownIsStored <=> \A i \in 1..Len(seMem) :
              SeRow(seMem[i]) \in seHoled \/ seMem[i].count = SeTotal(SeRow(seMem[i]))
<1>1. DOMAIN seMem = 1..Len(seMem)
  OBVIOUS
<1> QED BY <1>1 DEF SeShownIsStored, SeTotal, SeCount

(* The same of the next state. *)
LEMMA SeShownTotalNext ==
    ASSUME seMem' \in Seq(SeEvents),
           \A i \in 1..Len(seMem') : \A r : r = SeRow(seMem'[i]) /\ r \notin seHoled' =>
              seMem'[i].count = SeTotal(r)'
    PROVE  SeShownIsStored'
<1> SUFFICES ASSUME NEW i \in DOMAIN seMem', NEW r, r = SeRow(seMem'[i])
             PROVE  r \in seHoled' \/
                       seMem'[i].count = SeOnTheWay(r)' + (IF r \in DOMAIN seDb' THEN seDb'[r].count ELSE 0)
  BY Zenon DEF SeShownIsStored
<1>1. DOMAIN seMem' = 1..Len(seMem')
  OBVIOUS
<1> QED BY <1>1 DEF SeTotal, SeCount

(* What is shown stays, and so do the totals. *)
LEMMA SeRemembersOn ==
    ASSUME SeRemembers, UNCHANGED seMem, seNow \in Nat, seNow' \in Nat, seNow <= seNow', seHoled \subseteq seHoled',
           MaxSeTime \in Nat,
           \A r : r \notin seHoled' => SeTotal(r)' = SeTotal(r)
    PROVE  SeRemembers'
<1>1. seMem \in Seq(SeEvents) /\ \A i \in 1..Len(seMem) : seMem[i] \in SeEvents
  BY DEF SeRemembers, SeOrdered
<1>2. SeOrdered(seMem, seNow')
  <2>1. \A i \in 1..Len(seMem) : seMem[i].last \in Nat /\ seMem[i].last <= seNow
    <3>1. \A x \in SeEvents : x.last \in Nat
      BY DEF SeEvents
    <3>2. \A i \in 1..Len(seMem) : seMem[i].last <= seNow
      BY DEF SeRemembers, SeOrdered
    <3> QED BY <1>1, <3>1, <3>2
  <2>2. \A i \in 1..Len(seMem) : seMem[i].last <= seNow'
    BY <2>1
  <2> QED BY <2>2 DEF SeRemembers, SeOrdered
<1>3. SeApart'
  BY DEF SeRemembers, SeApart
<1>4. SeShownIsStored'
  <2>1. \A i \in 1..Len(seMem) : SeRow(seMem[i]) \in seHoled \/ seMem[i].count = SeTotal(SeRow(seMem[i]))
    BY <1>1, SeShownTotal DEF SeRemembers
  <2>2. ASSUME NEW i \in 1..Len(seMem'), SeRow(seMem'[i]) \notin seHoled',
               NEW r, r = SeRow(seMem'[i])
        PROVE  seMem'[i].count = SeTotal(r)'
    <3>1. SeTotal(r)' = SeTotal(r) /\ seMem[i].count = SeTotal(r)
      BY <2>1, <2>2
    <3> QED BY <3>1
  <2> QED BY <1>1, <2>2, SeShownTotalNext
<1> QED BY <1>2, <1>3, <1>4 DEF SeRemembers

(* Some of what is shown stays. *)
LEMMA SeRemembersSome ==
    ASSUME SeRemembers, UNCHANGED seNow, seHoled \subseteq seHoled',
           NEW n \in Nat, n <= SeShown, NEW g, SePlaces(seMem, g, n), seMem' = [j \in 1..n |-> seMem[g[j]]],
           \A r : r \notin seHoled' => SeTotal(r)' = SeTotal(r)
    PROVE  SeRemembers'
<1>1. seMem \in Seq(SeEvents)
  BY DEF SeRemembers, SeOrdered
<1>2. SeOrdered(seMem', seNow')
  BY SePickedOrdered DEF SeRemembers
<1>3. /\ seMem' \in Seq(SeEvents) /\ Len(seMem') = n
      /\ \A j \in 1..n : g[j] \in 1..Len(seMem) /\ seMem'[j] = seMem[g[j]]
      /\ \A i, j \in 1..n : i # j => g[i] # g[j]
  <2>1. \A i, j \in 1..n : i # j => g[i] # g[j]
    <3> SUFFICES ASSUME NEW i \in 1..n, NEW j \in 1..n, i # j PROVE g[i] # g[j]
      OBVIOUS
    <3>1. i < j \/ j < i
      OBVIOUS
    <3>2. g[i] < g[j] \/ g[j] < g[i]
      BY <3>1 DEF SePlaces
    <3>3. g[i] \in Int /\ g[j] \in Int
      BY DEF SePlaces
    <3> QED BY <3>2, <3>3
  <2> QED BY <1>2, <2>1 DEF SeOrdered, SePlaces
<1>4. SeApart'
  <2> SUFFICES ASSUME NEW i \in 1..n, NEW j \in 1..n, i # j, SeRow(seMem'[i]) = SeRow(seMem'[j])
               PROVE  SeRow(seMem'[i]) \in seHoled'
    BY <1>3 DEF SeApart
  <2>1. g[i] # g[j] /\ SeRow(seMem[g[i]]) = SeRow(seMem[g[j]])
    BY <1>3
  <2>2. SeRow(seMem[g[i]]) \in seHoled
    BY <1>3, <2>1 DEF SeRemembers, SeApart
  <2> QED BY <1>3, <2>2
<1>5. SeShownIsStored'
  <2>1. \A i \in 1..Len(seMem) : SeRow(seMem[i]) \in seHoled \/ seMem[i].count = SeTotal(SeRow(seMem[i]))
    BY <1>1, SeShownTotal DEF SeRemembers
  <2>2. ASSUME NEW j \in 1..Len(seMem'), SeRow(seMem'[j]) \notin seHoled', NEW r, r = SeRow(seMem'[j])
        PROVE  seMem'[j].count = SeTotal(r)'
    <3>1. seMem'[j] = seMem[g[j]] /\ g[j] \in 1..Len(seMem) /\ r = SeRow(seMem[g[j]])
      BY <1>3, <2>2
    <3>2. SeTotal(r)' = SeTotal(r) /\ seMem[g[j]].count = SeTotal(r)
      BY <2>1, <2>2, <3>1
    <3> QED BY <3>1, <3>2
  <2> QED BY <1>3, <2>2, SeShownTotalNext
<1> QED BY <1>2, <1>4, <1>5 DEF SeRemembers

(* Nothing shown is of the row of a new event, but what is known to differ.  *)
LEMMA SeJoinsAlone ==
    ASSUME SeRemembers, seNow \in 1..MaxSeTime, NEW k, NEW g, NEW n, NEW e, SeJoins(k, g, n, e),
           NEW j \in 1..n, SeRow(seMem[g[j]]) = SeRow(e), SeOnTheWay(SeRow(e)) \in Nat
    PROVE  SeRow(e) \in seHoled \cup SeAgain(k)
<1>1. seMem \in Seq(SeEvents) /\ g[j] \in 1..Len(seMem)
  BY DEF SeRemembers, SeOrdered, SeJoins, SePlaces
<1>2. ASSUME NEW i \in 1..Len(seMem), SeRow(e) = SeRow(seMem[i]), g[j] # i
      PROVE  SeRow(e) \in seHoled
  BY <1>1, <1>2 DEF SeRemembers, SeApart
<1>3. ASSUME SeSame(k) = {}, e.first = seNow, e.kind = k, SeRow(e) \notin seHoled
      PROVE  SeRow(e) \in SeAgain(k)
  <2>1. seMem[g[j]].count = SeTotal(SeRow(e)) /\ seMem[g[j]].count # 0
    BY <1>1, <1>3, SeShownTotal DEF SeRemembers, SeOrdered
  <2>2. SeOnTheWay(SeRow(e)) # 0 \/ SeRow(e) \in DOMAIN seDb
    BY <2>1 DEF SeTotal, SeCount
  <2>3. SeRow(e) = <<k, seNow>>
    BY <1>3 DEF SeRow
  <2> QED BY <1>3, <2>2, <2>3 DEF SeAgain
<1> QED BY <1>2, <1>3 DEF SeJoins

(* Every event joins in one of the two ways. *)
LEMMA SeJoinsExist ==
    ASSUME SeOrdered(seMem, seNow), seNow \in 1..MaxSeTime, NEW k \in SeKinds \cup SeWebKinds
    PROVE  \E g, n, e : SeJoins(k, g, n, e)
  BY SeAppendedMerged, SeAppendedNew

(* What is sent for it is of its row, and counts once.                      *)
LEMMA SeIncrementOf ==
    ASSUME SeOrdered(seMem, seNow), seNow \in 1..MaxSeTime, NEW k, NEW g, NEW n, NEW e, SeJoins(k, g, n, e)
    PROVE  SeGood(SeIncrement(k), seNow) /\ SeRow(SeIncrement(k)) = SeRow(e)
<1>1. Last(SeAppended(k)) = e
  BY SeAppendedOrdered DEF Last
<1>2. SeIncrement(k) = [e EXCEPT !.count = 1]
  BY <1>1 DEF SeIncrement
<1>3. e \in SeEvents /\ e.last = seNow /\ e.first <= seNow
  BY DEF SeJoins
<1>4. /\ SeIncrement(k).kind = e.kind /\ SeIncrement(k).first = e.first /\ SeIncrement(k).last = e.last
      /\ SeIncrement(k).count = 1
  BY <1>2, <1>3 DEF SeEvents
<1>5. SeIncrement(k) \in SeEvents
  BY <1>2, <1>3 DEF SeEvents
<1>6. SeRow(SeIncrement(k)) = SeRow(e)
  BY <1>4 DEF SeRow
<1>7. seNow <= seNow
  OBVIOUS
<1> QED BY <1>3, <1>4, <1>5, <1>6, <1>7 DEF SeGood

(* What is sent is a new event. *)
LEMMA SeIncrementGood ==
    ASSUME SeOrdered(seMem, seNow), seNow \in 1..MaxSeTime, NEW k \in SeKinds \cup SeWebKinds
    PROVE  SeGood(SeIncrement(k), seNow)
  BY SeJoinsExist, SeIncrementOf

(* A new event is shown with the count that its row will have.              *)
LEMMA SeRemembersMore ==
    ASSUME SeRemembers, seNow \in 1..MaxSeTime, UNCHANGED seNow, NEW k \in SeKinds \cup SeWebKinds,
           seMem' = SeAppended(k), seHoled \subseteq seHoled', SeAgain(k) \subseteq seHoled',
           \A r : SeOnTheWay(r) \in Nat /\ SeTotal(r) \in Nat,
           \A r : r \notin seHoled' => SeTotal(r)' = SeTotal(r) + SeOne(SeIncrement(k), r)
    PROVE  SeRemembers'
<1>1. SeOrdered(seMem, seNow) /\ seMem \in Seq(SeEvents)
  BY DEF SeRemembers, SeOrdered
<1>2. PICK g, n, e : SeJoins(k, g, n, e)
  BY <1>1, SeJoinsExist
<1>3. /\ SeOrdered(seMem', seNow) /\ Len(seMem') = n + 1 /\ n \in Nat
      /\ \A j \in 1..n : seMem'[j] = seMem[g[j]] /\ g[j] \in 1..Len(seMem)
      /\ seMem'[n + 1] = e
  <2>1. \A j \in 1..n : g[j] \in 1..Len(seMem)
    BY <1>2 DEF SeJoins, SePlaces
  <2>2. n \in Nat
    BY <1>2 DEF SeJoins
  <2>3. /\ SeOrdered(SeAppended(k), seNow) /\ Len(SeAppended(k)) = n + 1
        /\ \A j \in 1..n : SeAppended(k)[j] = seMem[g[j]]
        /\ SeAppended(k)[n + 1] = e
    BY <1>1, <1>2, SeAppendedOrdered
  <2> QED BY <2>1, <2>2, <2>3
<1>4. SeOrdered(seMem', seNow') /\ seMem' \in Seq(SeEvents)
  BY <1>3 DEF SeOrdered
<1>5. \A j \in 1..n : SeRow(seMem[g[j]]) = SeRow(e) => SeRow(e) \in seHoled'
  BY <1>2, SeJoinsAlone
<1>6. \A i, j \in 1..n : i # j => g[i] # g[j]
  <2> SUFFICES ASSUME NEW i \in 1..n, NEW j \in 1..n, i # j PROVE g[i] # g[j]
    OBVIOUS
  <2>1. i < j \/ j < i
    BY <1>3
  <2>2. g[i] < g[j] \/ g[j] < g[i]
    BY <1>2, <2>1 DEF SeJoins, SePlaces
  <2>3. g[i] \in Int /\ g[j] \in Int
    BY <1>3
  <2> QED BY <2>2, <2>3
<1>7. SeApart'
  <2> SUFFICES ASSUME NEW i \in 1..n+1, NEW j \in 1..n+1, i # j, SeRow(seMem'[i]) = SeRow(seMem'[j])
               PROVE  SeRow(seMem'[i]) \in seHoled'
    BY <1>3 DEF SeApart
  <2>1. CASE i \in 1..n /\ j \in 1..n
    <3>1. g[i] # g[j] /\ SeRow(seMem[g[i]]) = SeRow(seMem[g[j]])
      BY <1>3, <1>6, <2>1
    <3>2. SeRow(seMem[g[i]]) \in seHoled
      BY <1>3, <2>1, <3>1 DEF SeRemembers, SeApart
    <3> QED BY <1>3, <2>1, <3>2
  <2>2. CASE i = n + 1 /\ j \in 1..n
    BY <1>3, <1>5, <2>2
  <2>3. CASE i \in 1..n /\ j = n + 1
    BY <1>3, <1>5, <2>3
  <2> QED BY <1>3, <2>1, <2>2, <2>3
<1>8. SeShownIsStored'
  <2>1. \A i \in 1..Len(seMem) : SeRow(seMem[i]) \in seHoled \/ seMem[i].count = SeTotal(SeRow(seMem[i]))
    BY <1>1, SeShownTotal DEF SeRemembers
  <2>2. SeRow(SeIncrement(k)) = SeRow(e)
    BY <1>1, <1>2, SeIncrementOf
  <2>3. ASSUME NEW j \in 1..n, SeRow(seMem'[j]) \notin seHoled', NEW r, r = SeRow(seMem'[j])
        PROVE  seMem'[j].count = SeTotal(r)'
    <3>1. seMem'[j] = seMem[g[j]] /\ g[j] \in 1..Len(seMem) /\ r = SeRow(seMem[g[j]])
      BY <1>3, <2>3
    <3>2. seMem[g[j]].count = SeTotal(r) /\ r \notin seHoled'
      BY <2>1, <2>3, <3>1
    <3>3. SeRow(e) # r
      BY <1>5, <3>1, <3>2
    <3>4. SeOne(SeIncrement(k), r) = 0
      BY <2>2, <3>3 DEF SeOne
    <3>5. SeTotal(r)' = SeTotal(r) + 0 /\ SeTotal(r) \in Nat
      BY <3>2, <3>4
    <3> QED BY <3>1, <3>2, <3>5
  <2>4. ASSUME SeRow(e) \notin seHoled', NEW r, r = SeRow(e)
        PROVE  e.count = SeTotal(r)'
    <3>1. SeTotal(r)' = SeTotal(r) + 1 /\ SeTotal(r) \in Nat
      BY <2>2, <2>4 DEF SeOne
    <3>2. ASSUME NEW i \in 1..Len(seMem), SeRow(e) = SeRow(seMem[i]), e.count = seMem[i].count + 1
          PROVE  e.count = SeTotal(r)'
      <4>1. seMem[i].count = SeTotal(r)
        BY <2>1, <2>4, <3>2
      <4> QED BY <3>1, <3>2, <4>1
    <3>3. ASSUME SeSame(k) = {}, e.first = seNow, e.count = 1, e.kind = k
          PROVE  e.count = SeTotal(r)'
      <4>1. r = <<k, seNow>> /\ r \notin SeAgain(k)
        BY <2>4, <3>3 DEF SeRow
      <4>2. r \notin DOMAIN seDb /\ ~(SeOnTheWay(r) > 0)
        BY <3>3, <4>1 DEF SeAgain
      <4>3. SeOnTheWay(r) = 0
        BY <4>2
      <4>4. SeTotal(r) = 0
        BY <4>2, <4>3 DEF SeTotal, SeCount
      <4> QED BY <3>1, <3>3, <4>4
    <3> QED BY <1>2, <3>2, <3>3 DEF SeJoins
  <2>5. ASSUME NEW j \in 1..Len(seMem'), NEW r, r = SeRow(seMem'[j]), r \notin seHoled'
        PROVE  seMem'[j].count = SeTotal(r)'
    <3>1. j \in 1..n \/ j = n + 1
      BY <1>3
    <3> QED BY <1>3, <2>3, <2>4, <2>5, <3>1
  <2> QED BY <1>4, <2>5, SeShownTotalNext
<1> QED BY <1>4, <1>7, <1>8 DEF SeRemembers

(* What is read from the table is shown as it is there.                     *)
LEMMA SeRemembersStored ==
    ASSUME SeTable(seDb, seNow), UNCHANGED <<seDb, seNow>>, seMem' \in SeRecent,
           \A r : r \notin seHoled' => SeOnTheWay(r)' = 0
    PROVE  SeRemembers'
<1> DEFINE kept == {r \in DOMAIN seDb : seDb[r].last >= seNow - SeRetention}
           event(r) == [kind |-> r[1], first |-> r[2], last |-> seDb[r].last, count |-> seDb[r].count]
           events == {event(r) : r \in kept}
<1>1. /\ seMem' \in UNION {[1..n -> events] : n \in 0..SeShown}
      /\ \A i, j \in DOMAIN seMem' : i < j => seMem'[i] # seMem'[j] /\ seMem'[i].last <= seMem'[j].last
  BY DEF SeRecent
<1>2. PICK n \in 0..SeShown : seMem' \in [1..n -> events]
  <2> HIDE DEF events
  <2> QED BY <1>1
<1>3. ASSUME NEW r \in kept
      PROVE  /\ event(r) \in SeEvents /\ event(r).count # 0 /\ event(r).first <= event(r).last
             /\ event(r).last <= seNow /\ SeRow(event(r)) = r /\ r \in DOMAIN seDb
             /\ event(r).count = SeCount(seDb, r)
  <2>1. /\ r \in (SeKinds \cup SeWebKinds) \X (0..MaxSeTime)
        /\ seDb[r].last \in 0..MaxSeTime /\ seDb[r].count \in Nat \ {0}
        /\ r[2] <= seDb[r].last /\ seDb[r].last <= seNow
    BY DEF SeTable
  <2>2. event(r) \in SeEvents
    BY <2>1 DEF SeEvents
  <2>3. SeRow(event(r)) = r
    BY <2>1 DEF SeRow
  <2> QED BY <2>1, <2>2, <2>3 DEF SeCount
<1>4. \A e \in events : /\ e \in SeEvents /\ e.count # 0 /\ e.first <= e.last /\ e.last <= seNow
                        /\ SeRow(e) \in DOMAIN seDb /\ e.count = SeCount(seDb, SeRow(e))
                        /\ e = event(SeRow(e))
  <2> SUFFICES ASSUME NEW r \in kept
               PROVE  /\ event(r) \in SeEvents /\ event(r).count # 0 /\ event(r).first <= event(r).last
                      /\ event(r).last <= seNow
                      /\ SeRow(event(r)) \in DOMAIN seDb /\ event(r).count = SeCount(seDb, SeRow(event(r)))
                      /\ event(r) = event(SeRow(event(r)))
    OBVIOUS
  <2> HIDE DEF kept, event
  <2> QED BY <1>3
<1> HIDE DEF event, kept
<1>5. n \in Nat /\ n <= SeShown
  <2>1. SeShown \in Nat
    BY SeConstants DEF SeConstants
  <2> QED BY <2>1
<1> HIDE DEF events
<1>6. /\ seMem' \in Seq(SeEvents) /\ Len(seMem') = n /\ DOMAIN seMem' = 1..n
      /\ \A i \in 1..n : seMem'[i] \in events
  <2>1. \A i \in 1..n : seMem'[i] \in events /\ seMem'[i] \in SeEvents
    BY <1>2, <1>4
  <2> QED BY <1>2, <1>5, <2>1
<1>7. SeOrdered(seMem', seNow')
  <2>1. \A i, j \in 1..n : i <= j => seMem'[i].last <= seMem'[j].last
    <3> SUFFICES ASSUME NEW i \in 1..n, NEW j \in 1..n, i <= j PROVE seMem'[i].last <= seMem'[j].last
      OBVIOUS
    <3>1. CASE i = j
      <4>1. seMem'[i].last \in 0..MaxSeTime
        BY <1>4, <1>6 DEF SeEvents
      <4> QED BY <3>1, <4>1
    <3>2. CASE i < j
      BY <1>1, <1>6, <3>2
    <3> QED BY <3>1, <3>2
  <2>2. \A i \in 1..n : seMem'[i].count # 0 /\ seMem'[i].first <= seMem'[i].last /\ seMem'[i].last <= seNow'
    BY <1>4, <1>6
  <2> QED BY <1>5, <1>6, <2>1, <2>2 DEF SeOrdered
<1>8. SeApart'
  <2> SUFFICES ASSUME NEW i \in 1..n, NEW j \in 1..n, i # j, SeRow(seMem'[i]) = SeRow(seMem'[j])
               PROVE  FALSE
    BY <1>6 DEF SeApart
  <2>1. seMem'[i] = seMem'[j]
    BY <1>4, <1>6
  <2>2. i < j \/ j < i
    OBVIOUS
  <2> QED BY <1>1, <1>6, <2>1, <2>2
<1>9. SeShownIsStored'
  <2>1. ASSUME NEW i \in 1..Len(seMem'), NEW r, r = SeRow(seMem'[i]), r \notin seHoled'
        PROVE  seMem'[i].count = SeTotal(r)'
    <3>1. seMem'[i].count = SeCount(seDb, r) /\ seMem'[i] \in SeEvents
      BY <1>4, <1>6, <2>1
    <3>2. SeOnTheWay(r)' = 0 /\ seMem'[i].count \in Nat
      BY <2>1, <3>1 DEF SeEvents
    <3>3. SeTotal(r)' = SeOnTheWay(r)' + SeCount(seDb, r)
      BY DEF SeTotal, SeCount
    <3> QED BY <3>1, <3>2, <3>3
  <2> QED BY <1>6, <2>1, SeShownTotalNext
<1> QED BY <1>7, <1>8, <1>9 DEF SeRemembers

------------------------------------------------------------------------------
(* What is sent is new, and one web event at most.                          *)
SeSentGood ==
    /\ \A i \in 1..Len(seChannel) : seChannel[i].op = "event" => SeGood(seChannel[i].event, seNow)
    /\ \A i \in 1..Len(seBatch) : seBatch[i].op = "event" /\ SeGood(seBatch[i].event, seNow)
    /\ seHold.op = "record" => SeGood(seHold.message.event, seNow)
    /\ seWeb = {} \/ \E e : seWeb = {e} /\ SeGood(e, seNow)

SeLimits == seNow \in 1..MaxSeTime /\ Len(seChannel) <= SeQueueLimit /\ Len(seBatch) <= SeBatchLimit

(* The inductive invariant. *)
SeExact == SeInv /\ SeLimits /\ SeSentGood /\ SeTable(seDb, seNow) /\ SeRemembers

SeInWeb(r) == Cardinality({e \in seWeb : SeRow(e) = r})
SeInHold(r) == IF seHold.op = "record" /\ SeRow(seHold.message.event) = r THEN 1 ELSE 0

(* The parts of a total. *)
LEMMA SeTotalIs ==
    \A r : /\ SeOnTheWay(r) = SeEventsOf(seBatch, r) + SeEventsOf(seChannel, r) + SeInWeb(r) + SeInHold(r)
           /\ SeTotal(r) = SeOnTheWay(r) + SeCount(seDb, r)
  BY DEF SeOnTheWay, SeTotal, SeInWeb, SeInHold

(* No web event on its way. *)
LEMMA SeWebNone == \A r : seWeb = {} => SeInWeb(r) = 0
<1>1. \A r : seWeb = {} => {e \in seWeb : SeRow(e) = r} = {}
  OBVIOUS
<1> QED BY <1>1, FS_EmptySet DEF SeInWeb

(* One web event is of the row or is not. *)
LEMMA SeWebOne ==
    ASSUME NEW e, NEW S, S = {e}, NEW r
    PROVE  Cardinality({f \in S : SeRow(f) = r}) = SeOne(e, r)
<1>1. CASE SeRow(e) = r
  <2>1. {f \in S : SeRow(f) = r} = {e}
    BY <1>1
  <2> QED BY <1>1, <2>1, FS_Singleton DEF SeOne
<1>2. CASE SeRow(e) # r
  <2>1. {f \in S : SeRow(f) = r} = {}
    BY <1>2
  <2> QED BY <1>2, <2>1, FS_EmptySet DEF SeOne
<1> QED BY <1>1, <1>2

(* The events of a row in a channel are a number. *)
LEMMA SeEventsType ==
    ASSUME NEW q, \E M : q \in Seq(M), NEW r
    PROVE  SeEventsOf(q, r) \in Nat
<1>1. PICK M : q \in Seq(M)
  OBVIOUS
<1> QED BY <1>1, SeEventsAppended

(* All parts of a total are numbers. *)
LEMMA SeTotalType ==
    ASSUME SeExact
    PROVE  \A r : /\ SeEventsOf(seBatch, r) \in Nat /\ SeEventsOf(seChannel, r) \in Nat
                  /\ SeInWeb(r) \in Nat /\ SeInHold(r) \in Nat
                  /\ SeCount(seDb, r) \in Nat /\ SeOnTheWay(r) \in Nat /\ SeTotal(r) \in Nat
<1> SUFFICES ASSUME NEW r
             PROVE  /\ SeEventsOf(seBatch, r) \in Nat /\ SeEventsOf(seChannel, r) \in Nat
                    /\ SeInWeb(r) \in Nat /\ SeInHold(r) \in Nat
                    /\ SeCount(seDb, r) \in Nat /\ SeOnTheWay(r) \in Nat /\ SeTotal(r) \in Nat
  OBVIOUS
<1>1. SeEventsOf(seBatch, r) \in Nat /\ SeEventsOf(seChannel, r) \in Nat
  BY SeEventsType DEF SeExact, SeInv, SeInChannel
<1>2. SeInWeb(r) \in Nat
  <2>1. CASE seWeb = {}
    BY <2>1, SeWebNone
  <2>2. ASSUME NEW e, seWeb = {e} PROVE SeInWeb(r) \in Nat
    <3>1. SeInWeb(r) = SeOne(e, r)
      BY <2>2, SeWebOne DEF SeInWeb
    <3> QED BY <3>1 DEF SeOne
  <2> QED BY <2>1, <2>2 DEF SeExact, SeSentGood
<1>3. SeCount(seDb, r) \in Nat
  BY SeCountType DEF SeExact
<1>4. SeInHold(r) \in Nat
  BY DEF SeInHold
<1> QED BY <1>1, <1>2, <1>3, <1>4, SeTotalIs

(* The parts of a total in the next state. *)
LEMMA SeTotalIsNext ==
    \A r : /\ SeOnTheWay(r)' = SeEventsOf(seBatch', r) + SeEventsOf(seChannel', r) + SeInWeb(r)' + SeInHold(r)'
           /\ SeTotal(r)' = SeOnTheWay(r)' + SeCount(seDb', r)
  BY DEF SeOnTheWay, SeTotal, SeInWeb, SeInHold, SeEventsOf, SeCount

(* Who does not wait with an event has none in the hand. *)
LEMMA SeHandEmpty ==
    /\ seHold.op # "record" => \A r : SeInHold(r) = 0
    /\ seHold'.op # "record" => \A r : SeInHold(r)' = 0
    /\ UNCHANGED seHold => \A r : SeInHold(r)' = SeInHold(r)
  BY DEF SeInHold

(* Nothing is sent, written or deleted. *)
LEMMA SeTotalSame ==
    ASSUME UNCHANGED <<seBatch, seChannel, seWeb, seDb>>,
           (UNCHANGED seHold) \/ (seHold.op # "record" /\ seHold'.op # "record")
    PROVE  \A r : SeTotal(r)' = SeTotal(r)
<1> SUFFICES ASSUME NEW r PROVE SeTotal(r)' = SeTotal(r)
  OBVIOUS
<1>1. SeInHold(r)' = SeInHold(r)
  BY SeHandEmpty
<1>2. SeInWeb(r)' = SeInWeb(r)
  BY DEF SeInWeb
<1> QED BY <1>1, <1>2, SeTotalIs, SeTotalIsNext

(* Nothing is shown, so nothing is wrong. *)
LEMMA SeRemembersNothing ==
    ASSUME seMem' = <<>>
    PROVE  SeRemembers'
<1>1. <<>> \in Seq(SeEvents) /\ Len(<<>>) = 0 /\ DOMAIN <<>> = {}
  OBVIOUS
<1>2. SeShown \in Nat
  BY SeConstants DEF SeConstants
<1> QED BY <1>1, <1>2 DEF SeRemembers, SeOrdered, SeApart, SeShownIsStored

(* A message more in the channel.                                           *)
LEMMA SeChannelMore ==
    ASSUME SeExact, NEW m, seChannel' = Append(seChannel, m), NEW r
    PROVE  SeEventsOf(seChannel', r) =
             SeEventsOf(seChannel, r) + IF m.op = "event" /\ SeRow(m.event) = r THEN 1 ELSE 0
<1>1. PICK M : seChannel \in Seq(M)
  BY DEF SeExact, SeInv, SeInChannel
<1> QED BY <1>1, SeEventsAppended

(* What a dying writer had is known to be lost.                             *)
LEMMA SeFailsKnown ==
    ASSUME SeExact, SeWriterFails, NEW r, r \notin seHoled'
    PROVE  /\ SeEventsOf(seBatch, r) = 0 /\ SeEventsOf(seChannel, r) = 0
           /\ SeEventsOf(seBatch', r) = 0 /\ SeEventsOf(seChannel', r) = 0
           /\ seDb' = seDb /\ seHoled \subseteq seHoled'
           /\ (UNCHANGED seHold) \/ (seHold.op # "record" /\ seHold'.op # "record")
<1>1. /\ seHoled' = seHoled \cup {} \cup SeRows(Range(SeBatched) \cup SeQueued)
      /\ seBatch' = <<>> /\ seChannel' = <<>> /\ seDb' = seDb
      /\ seHold' = IF SeAwaitsReply THEN SeFree ELSE seHold
  BY DEF SeWriterFails, SeLose, SeLoseAnd
<1>2. {i \in DOMAIN seBatch : seBatch[i].op = "event" /\ SeRow(seBatch[i].event) = r} = {}
  <2> SUFFICES ASSUME NEW i \in DOMAIN seBatch, SeRow(seBatch[i].event) = r PROVE FALSE
    OBVIOUS
  <2>1. seBatch[i].event \in Range(SeBatched)
    BY DEF SeBatched, Range
  <2>2. r \in SeRows(Range(SeBatched) \cup SeQueued)
    BY <2>1 DEF SeRows
  <2> QED BY <1>1, <2>2
<1>3. {i \in DOMAIN seChannel : seChannel[i].op = "event" /\ SeRow(seChannel[i].event) = r} = {}
  <2> SUFFICES ASSUME NEW i \in DOMAIN seChannel, seChannel[i].op = "event", SeRow(seChannel[i].event) = r
               PROVE FALSE
    OBVIOUS
  <2>1. seChannel[i] \in {x \in Range(seChannel) : x.op = "event"}
    BY DEF Range
  <2>2. seChannel[i].event \in SeQueued
    BY <2>1 DEF SeQueued
  <2>3. r \in SeRows(Range(SeBatched) \cup SeQueued)
    BY <2>2 DEF SeRows
  <2> QED BY <1>1, <2>3
<1>4. SeEventsOf(seBatch, r) = 0 /\ SeEventsOf(seChannel, r) = 0
  BY <1>2, <1>3, FS_EmptySet DEF SeEventsOf
<1>5. SeEventsOf(seBatch', r) = 0 /\ SeEventsOf(seChannel', r) = 0
  BY <1>1, SeEventsNone
<1>6. (UNCHANGED seHold) \/ (seHold.op # "record" /\ seHold'.op # "record")
  BY <1>1 DEF SeAwaitsReply, SeFree
<1> QED BY <1>1, <1>4, <1>5, <1>6

(* A batch that is written leaves the totals as they are.                   *)
LEMMA SeWrittenSame ==
    ASSUME SeExact, seDb' = SeStored(SeBatched), seBatch' = <<>>, UNCHANGED <<seWeb, seNow>>,
           \A r : SeEventsOf(seChannel', r) = SeEventsOf(seChannel, r),
           (UNCHANGED seHold) \/ (seHold.op # "record" /\ seHold'.op # "record")
    PROVE  SeTable(seDb', seNow') /\ \A r : SeTotal(r)' = SeTotal(r)
<1>1. seNow \in Nat /\ SeTable(seDb, seNow)
  BY DEF SeExact, SeLimits
<1>2. PICK M : seBatch \in Seq(M)
  BY DEF SeExact, SeInv, SeInChannel
<1>3. \A i \in 1..Len(seBatch) : seBatch[i].op = "event" /\ SeGood(seBatch[i].event, seNow)
  BY DEF SeExact, SeSentGood
<1>4. /\ SeTable(SeStored(SeBatched), seNow)
      /\ \A r : SeCount(SeStored(SeBatched), r) = SeCount(seDb, r) + SeEventsOf(seBatch, r)
  BY <1>1, <1>2, <1>3, SeStoredCounts
<1>5. ASSUME NEW r PROVE SeTotal(r)' = SeTotal(r)
  <2>1. SeInHold(r)' = SeInHold(r) /\ SeInWeb(r)' = SeInWeb(r) /\ SeEventsOf(seBatch', r) = 0
    BY SeHandEmpty, SeEventsNone DEF SeInWeb
  <2>2. SeCount(seDb', r) = SeCount(seDb, r) + SeEventsOf(seBatch, r)
    BY <1>4
  <2>3. /\ SeEventsOf(seBatch, r) \in Nat /\ SeEventsOf(seChannel, r) \in Nat
        /\ SeInWeb(r) \in Nat /\ SeInHold(r) \in Nat /\ SeCount(seDb, r) \in Nat
    BY SeTotalType
  <2> QED BY <2>1, <2>2, <2>3, SeTotalIs, SeTotalIsNext
<1> QED BY <1>4, <1>5

(* Nothing joins and nothing counts differently.                            *)
LEMMA SeRemembersAgain ==
    ASSUME SeExact, UNCHANGED <<seMem, seNow>>, seHoled \subseteq seHoled',
           \A r : r \notin seHoled' => SeTotal(r)' = SeTotal(r)
    PROVE  SeRemembers'
<1>1. MaxSeTime \in Nat /\ seNow \in Nat /\ seNow <= seNow
  BY SeConstants DEF SeExact, SeLimits, SeConstants
<1> QED BY <1>1, SeRemembersOn DEF SeExact

(* A kind of DNS event joins and is sent, waits to be sent, or is lost.     *)
LEMMA SeRecordRemembers ==
    ASSUME SeExact, NEW k \in SeKinds, SeRecord(k)
    PROVE  SeRemembers'
<1>1. /\ seMem' = SeAppended(k) /\ UNCHANGED <<seNow, seBatch, seWeb, seDb>> /\ seHold = SeFree
      /\ \/ seHoled' = seHoled \cup SeAgain(k) \cup SeRows({SeIncrement(k)}) /\ UNCHANGED <<seChannel, seHold>>
         \/ seHoled' = seHoled \cup SeAgain(k) \cup SeRows({}) /\ UNCHANGED seHold
            /\ seChannel' = Append(seChannel, SeMessage(k))
         \/ seHoled' = seHoled \cup SeAgain(k) \cup SeRows({}) /\ UNCHANGED seChannel
            /\ seHold' = [op |-> "record", message |-> SeMessage(k)]
  BY DEF SeRecord, SeLoseAnd, SeUnlocked
<1>2. seHoled \subseteq seHoled' /\ SeAgain(k) \subseteq seHoled'
  BY <1>1
<1>3. ASSUME NEW r, r \notin seHoled' PROVE SeTotal(r)' = SeTotal(r) + SeOne(SeIncrement(k), r)
  <2>1. /\ SeEventsOf(seBatch, r) \in Nat /\ SeEventsOf(seChannel, r) \in Nat
        /\ SeInWeb(r) \in Nat /\ SeInHold(r) = 0 /\ SeCount(seDb, r) \in Nat
    BY <1>1, SeTotalType, SeHandEmpty DEF SeFree
  <2>2. SeInWeb(r)' = SeInWeb(r)
    BY <1>1 DEF SeInWeb
  <2>3. SeMessage(k).op = "event" /\ SeMessage(k).event = SeIncrement(k)
    BY DEF SeMessage
  <2>4. CASE seHoled' = seHoled \cup SeAgain(k) \cup SeRows({SeIncrement(k)}) /\ UNCHANGED <<seChannel, seHold>>
    <3>1. SeRow(SeIncrement(k)) # r
      BY <1>3, <2>4 DEF SeRows
    <3>2. SeOne(SeIncrement(k), r) = 0
      BY <3>1 DEF SeOne
    <3>3. SeInHold(r)' = 0
      BY <2>1, <2>4, SeHandEmpty
    <3> QED BY <1>1, <2>1, <2>2, <2>4, <3>2, <3>3, SeTotalIs, SeTotalIsNext
  <2>5. CASE UNCHANGED seHold /\ seChannel' = Append(seChannel, SeMessage(k))
    <3>1. SeEventsOf(seChannel', r) = SeEventsOf(seChannel, r) + SeOne(SeIncrement(k), r)
      BY <2>3, <2>5, SeChannelMore DEF SeOne
    <3>2. SeInHold(r)' = 0
      BY <2>1, <2>5, SeHandEmpty
    <3>3. SeOne(SeIncrement(k), r) \in Nat
      BY DEF SeOne
    <3> QED BY <1>1, <2>1, <2>2, <3>1, <3>2, <3>3, SeTotalIs, SeTotalIsNext
  <2>6. CASE UNCHANGED seChannel /\ seHold' = [op |-> "record", message |-> SeMessage(k)]
    <3>1. SeInHold(r)' = SeOne(SeIncrement(k), r)
      BY <2>3, <2>6 DEF SeInHold, SeOne
    <3>2. SeOne(SeIncrement(k), r) \in Nat
      BY DEF SeOne
    <3> QED BY <1>1, <2>1, <2>2, <2>6, <3>1, <3>2, SeTotalIs, SeTotalIsNext
  <2> QED BY <1>1, <2>4, <2>5, <2>6
<1>4. \A r : SeOnTheWay(r) \in Nat /\ SeTotal(r) \in Nat
  BY SeTotalType
<1> QED BY <1>1, <1>2, <1>3, <1>4, SeRemembersMore DEF SeExact, SeLimits

(* A web event joins, and waits to be written. *)
LEMMA SeWebRecordRemembers ==
    ASSUME SeExact, NEW k \in SeWebKinds, SeWebRecord(k)
    PROVE  SeRemembers'
<1>1. /\ seMem' = SeAppended(k) /\ UNCHANGED <<seNow, seBatch, seChannel, seDb, seHold>>
      /\ seWeb = {} /\ seWeb' = {SeIncrement(k)}
      /\ seHoled' = seHoled \cup SeAgain(k) \cup SeRows({})
  BY DEF SeWebRecord, SeLoseAnd
<1>2. seHoled \subseteq seHoled' /\ SeAgain(k) \subseteq seHoled'
  BY <1>1
<1>3. ASSUME NEW r PROVE SeTotal(r)' = SeTotal(r) + SeOne(SeIncrement(k), r)
  <2>1. /\ SeEventsOf(seBatch, r) \in Nat /\ SeEventsOf(seChannel, r) \in Nat
        /\ SeInWeb(r) = 0 /\ SeInHold(r) \in Nat /\ SeCount(seDb, r) \in Nat
    BY <1>1, SeTotalType, SeWebNone
  <2>2. SeInWeb(r)' = SeOne(SeIncrement(k), r)
    <3>1. SeInWeb(r)' = Cardinality({e \in seWeb' : SeRow(e) = r})
      BY DEF SeInWeb
    <3> QED BY <1>1, <3>1, SeWebOne
  <2>3. SeInHold(r)' = SeInHold(r) /\ SeOne(SeIncrement(k), r) \in Nat
    BY <1>1, SeHandEmpty DEF SeOne
  <2> QED BY <1>1, <2>1, <2>2, <2>3, SeTotalIs, SeTotalIsNext
<1>4. \A r : SeOnTheWay(r) \in Nat /\ SeTotal(r) \in Nat
  BY SeTotalType
<1> QED BY <1>1, <1>2, <1>3, <1>4, SeRemembersMore DEF SeExact, SeLimits

(* A waiting worker's event goes into the channel, or is known to be lost.  *)
LEMMA SeRecordWaitedSame ==
    ASSUME SeExact, SeRecordWaited
    PROVE  seHoled \subseteq seHoled' /\ \A r : r \notin seHoled' => SeTotal(r)' = SeTotal(r)
<1>1. /\ seHold.op = "record" /\ seHold' = SeFree /\ UNCHANGED <<seBatch, seWeb, seDb>>
      /\ \/ seHoled' = seHoled \cup {} \cup SeRows({seHold.message.event}) /\ UNCHANGED seChannel
         \/ UNCHANGED seHoled /\ seChannel' = Append(seChannel, seHold.message)
  BY DEF SeRecordWaited, SeLose, SeLoseAnd, SeLoseNothing
<1>2. seHold.message.op = "event"
  BY <1>1 DEF SeExact, SeInv, SeHolder, SeFree
<1>3. ASSUME NEW r, r \notin seHoled' PROVE SeTotal(r)' = SeTotal(r)
  <2>1. /\ SeEventsOf(seBatch, r) \in Nat /\ SeEventsOf(seChannel, r) \in Nat
        /\ SeInWeb(r) \in Nat /\ SeCount(seDb, r) \in Nat
    BY SeTotalType
  <2>2. SeInHold(r)' = 0
    BY <1>1, SeHandEmpty DEF SeFree
  <2>3. SeInWeb(r)' = SeInWeb(r)
    BY <1>1 DEF SeInWeb
  <2>4. CASE seHoled' = seHoled \cup {} \cup SeRows({seHold.message.event}) /\ UNCHANGED seChannel
    <3>1. SeInHold(r) = 0
      BY <1>3, <2>4 DEF SeRows, SeInHold
    <3> QED BY <1>1, <2>1, <2>2, <2>3, <2>4, <3>1, SeTotalIs, SeTotalIsNext
  <2>5. CASE UNCHANGED seHoled /\ seChannel' = Append(seChannel, seHold.message)
    <3>1. SeEventsOf(seChannel', r) = SeEventsOf(seChannel, r) + SeInHold(r)
      BY <1>1, <1>2, <2>5, SeChannelMore DEF SeInHold
    <3>2. SeInHold(r) \in Nat
      BY DEF SeInHold
    <3> QED BY <1>1, <2>1, <2>2, <2>3, <3>1, <3>2, SeTotalIs, SeTotalIsNext
  <2> QED BY <1>1, <2>4, <2>5
<1> QED BY <1>1, <1>3

(* A web event goes into the table, or is known to be lost. *)
LEMMA SeWebWriteSame ==
    ASSUME SeExact, SeWebWrite
    PROVE  /\ seHoled \subseteq seHoled' /\ \A r : r \notin seHoled' => SeTotal(r)' = SeTotal(r)
           /\ SeTable(seDb', seNow')
<1>1. PICK e : seWeb = {e} /\ SeGood(e, seNow)
  BY DEF SeExact, SeSentGood, SeWebWrite
<1>2. /\ seWeb' = {} /\ UNCHANGED <<seBatch, seChannel, seHold, seNow>>
      /\ \/ seDb' = SeUpsert(seDb, e) /\ UNCHANGED seHoled
         \/ seHoled' = seHoled \cup {} \cup SeRows(seWeb) /\ UNCHANGED seDb
  BY <1>1 DEF SeWebWrite, SeLose, SeLoseAnd, SeLoseNothing
<1>3. seNow \in Nat /\ SeTable(seDb, seNow)
  BY DEF SeExact, SeLimits
<1>4. /\ SeTable(SeUpsert(seDb, e), seNow)
      /\ \A r : SeCount(SeUpsert(seDb, e), r) = SeCount(seDb, r) + SeOne(e, r)
  BY <1>1, <1>3, SeUpsertOnce
<1>5. ASSUME NEW r, r \notin seHoled' PROVE SeTotal(r)' = SeTotal(r)
  <2>1. /\ SeEventsOf(seBatch, r) \in Nat /\ SeEventsOf(seChannel, r) \in Nat
        /\ SeInHold(r) \in Nat /\ SeCount(seDb, r) \in Nat
    BY SeTotalType
  <2>2. SeInHold(r)' = SeInHold(r)
    BY <1>2, SeHandEmpty
  <2>3. SeInWeb(r) = SeOne(e, r)
    BY <1>1, SeWebOne DEF SeInWeb
  <2>4. SeInWeb(r)' = 0
    <3>1. {f \in seWeb' : SeRow(f) = r} = {}
      BY <1>2
    <3> QED BY <3>1, FS_EmptySet DEF SeInWeb
  <2>5. CASE seDb' = SeUpsert(seDb, e)
    <3>1. SeCount(seDb', r) = SeCount(seDb, r) + SeOne(e, r) /\ SeOne(e, r) \in Nat
      BY <1>4, <2>5 DEF SeOne
    <3> QED BY <1>2, <2>1, <2>2, <2>3, <2>4, <3>1, SeTotalIs, SeTotalIsNext
  <2>6. CASE seHoled' = seHoled \cup {} \cup SeRows(seWeb) /\ UNCHANGED seDb
    <3>1. SeRow(e) # r
      BY <1>1, <1>5, <2>6 DEF SeRows
    <3>2. SeOne(e, r) = 0
      BY <3>1 DEF SeOne
    <3> QED BY <1>2, <2>1, <2>2, <2>3, <2>4, <2>6, <3>2, SeTotalIs, SeTotalIsNext
  <2> QED BY <1>2, <2>5, <2>6
<1> QED BY <1>2, <1>3, <1>4, <1>5

(* An event goes from the channel into the batch. *)
LEMMA SeWriterTakesSame ==
    ASSUME SeExact, SeWriterTakes
    PROVE  \A r : SeTotal(r)' = SeTotal(r)
<1>1. /\ seChannel # <<>> /\ seChannel' = Tail(seChannel) /\ seBatch' = Append(seBatch, Head(seChannel))
      /\ UNCHANGED <<seWeb, seDb, seHold>>
  BY DEF SeWriterTakes
<1>2. PICK M : seChannel \in Seq(M)
  BY DEF SeExact, SeInv, SeInChannel
<1>3. PICK N : seBatch \in Seq(N)
  BY DEF SeExact, SeInv, SeInChannel
<1>4. ASSUME NEW r PROVE SeTotal(r)' = SeTotal(r)
  <2> DEFINE one == IF Head(seChannel).op = "event" /\ SeRow(Head(seChannel).event) = r THEN 1 ELSE 0
  <2>1. SeEventsOf(seChannel, r) = SeEventsOf(Tail(seChannel), r) + one
    BY <1>1, <1>2, SeEventsTaken
  <2>2. SeEventsOf(Append(seBatch, Head(seChannel)), r) = SeEventsOf(seBatch, r) + one
    BY <1>3, SeEventsAppended
  <2>3. SeEventsOf(Tail(seChannel), r) \in Nat
    <3>1. Tail(seChannel) \in Seq(M)
      BY <1>1, <1>2
    <3> QED BY <3>1, SeEventsAppended
  <2>4. one \in Nat /\ SeEventsOf(seBatch, r) \in Nat
    BY SeTotalType
  <2>5. SeInHold(r)' = SeInHold(r) /\ SeInWeb(r)' = SeInWeb(r)
    BY <1>1, SeHandEmpty DEF SeInWeb
  <2>6. SeInHold(r) \in Nat /\ SeInWeb(r) \in Nat /\ SeCount(seDb, r) \in Nat
    BY SeTotalType
  <2>7. SeEventsOf(seChannel', r) = SeEventsOf(Tail(seChannel), r)
    BY <1>1
  <2>8. SeEventsOf(seBatch', r) = SeEventsOf(seBatch, r) + one
    BY <1>1, <2>2
  <2> HIDE DEF one
  <2> QED BY <1>1, <2>1, <2>3, <2>4, <2>5, <2>6, <2>7, <2>8, SeTotalIs, SeTotalIsNext
<1> QED BY <1>4

(* A table without some rows.                                               *)
LEMMA SeWithoutCounts ==
    ASSUME NEW rows, SeTable(seDb, seNow)
    PROVE  /\ SeTable(SeWithout(rows), seNow)
           /\ \A r : r \notin rows => SeCount(SeWithout(rows), r) = SeCount(seDb, r)
  BY DEF SeTable, SeWithout, SeCount

(* What a prune deletes is known to differ from what is shown.              *)
LEMMA SeDeletedSame ==
    ASSUME SeExact, NEW rows, seDb' = SeWithout(rows), seHoled' = seHoled \cup rows,
           UNCHANGED <<seBatch, seChannel, seWeb>>,
           (UNCHANGED seHold) \/ (seHold.op # "record" /\ seHold'.op # "record")
    PROVE  \A r : r \notin seHoled' => SeTotal(r)' = SeTotal(r)
<1> SUFFICES ASSUME NEW r, r \notin seHoled' PROVE SeTotal(r)' = SeTotal(r)
  OBVIOUS
<1>1. SeCount(seDb', r) = SeCount(seDb, r)
  BY SeWithoutCounts DEF SeExact
<1>2. SeInHold(r)' = SeInHold(r)
  BY SeHandEmpty
<1>3. SeInWeb(r)' = SeInWeb(r)
  BY DEF SeInWeb
<1> QED BY <1>1, <1>2, <1>3, SeTotalIs, SeTotalIsNext

(* A message that is no event. *)
LEMMA SeSignalSame ==
    ASSUME SeExact, NEW m, m.op # "event", seChannel' = Append(seChannel, m),
           UNCHANGED <<seBatch, seWeb, seDb>>, seHold.op # "record" /\ seHold'.op # "record"
    PROVE  \A r : SeTotal(r)' = SeTotal(r)
<1> SUFFICES ASSUME NEW r PROVE SeTotal(r)' = SeTotal(r)
  OBVIOUS
<1>1. SeEventsOf(seChannel, r) \in Nat
  BY SeTotalType
<1>2. SeEventsOf(seChannel', r) = SeEventsOf(seChannel, r)
  BY <1>1, SeChannelMore
<1>3. SeInHold(r)' = SeInHold(r)
  BY SeHandEmpty
<1>4. SeInWeb(r)' = SeInWeb(r)
  BY DEF SeInWeb
<1> QED BY <1>2, <1>3, <1>4, SeTotalIs, SeTotalIsNext

(* So the totals of the other rows stand. *)
LEMMA SeFailsSame ==
    ASSUME SeExact, SeWriterFails, UNCHANGED seWeb
    PROVE  seHoled \subseteq seHoled' /\ \A r : r \notin seHoled' => SeTotal(r)' = SeTotal(r)
<1>1. seHoled \subseteq seHoled'
  BY DEF SeWriterFails, SeLose, SeLoseAnd
<1>2. ASSUME NEW r, r \notin seHoled' PROVE SeTotal(r)' = SeTotal(r)
  <2>1. /\ SeEventsOf(seBatch, r) = 0 /\ SeEventsOf(seChannel, r) = 0
        /\ SeEventsOf(seBatch', r) = 0 /\ SeEventsOf(seChannel', r) = 0
        /\ seDb' = seDb
        /\ (UNCHANGED seHold) \/ (seHold.op # "record" /\ seHold'.op # "record")
    BY <1>2, SeFailsKnown
  <2>2. SeInHold(r)' = SeInHold(r)
    BY <2>1, SeHandEmpty
  <2>3. SeInWeb(r)' = SeInWeb(r)
    BY DEF SeInWeb
  <2> QED BY <2>1, <2>2, <2>3, SeTotalIs, SeTotalIsNext
<1> QED BY <1>1, <1>2

(* A writer's write, flush or stop: the batch is in the table, or known to   *)
(* be lost.                                                                 *)
LEMMA SeWritesSame ==
    ASSUME SeExact, SeWriterWrites \/ SeWriterFlushes \/ SeWriterStops
    PROVE  /\ seHoled \subseteq seHoled' /\ \A r : r \notin seHoled' => SeTotal(r)' = SeTotal(r)
           /\ SeTable(seDb', seNow')
<1>0. SeInv /\ SeTable(seDb, seNow) /\ (\E M : seChannel \in Seq(M))
  BY DEF SeExact, SeInv, SeInChannel
<1>1. UNCHANGED <<seWeb, seNow>>
  BY DEF SeWriterWrites, SeWriterFlushes, SeWriterStops
<1>2. CASE SeWriterFails
  <2>1. SeTable(seDb', seNow')
    BY <1>0, <1>1, <1>2 DEF SeWriterFails
  <2> QED BY <1>1, <1>2, <2>1, SeFailsSame
<1>3. ASSUME ~SeWriterFails, SeWriterWrites
      PROVE  /\ seDb' = SeStored(SeBatched) /\ seBatch' = <<>> /\ UNCHANGED <<seChannel, seHold, seHoled>>
  BY <1>3 DEF SeWriterWrites, SeLoseNothing
<1>4. ASSUME ~SeWriterFails, SeWriterFlushes
      PROVE  /\ seDb' = SeStored(SeBatched) /\ seBatch' = <<>> /\ UNCHANGED seHoled
             /\ \A r : SeEventsOf(seChannel', r) = SeEventsOf(seChannel, r)
             /\ seHold.op # "record" /\ seHold'.op # "record"
  <2>1. /\ seDb' = SeStored(SeBatched) /\ seBatch' = <<>> /\ UNCHANGED seHoled
        /\ seChannel' = Tail(seChannel) /\ seHold' = [seHold EXCEPT !.stage = "do"]
        /\ seChannel # <<>> /\ Head(seChannel).op = "flush"
    BY <1>4 DEF SeWriterFlushes, SeLoseNothing
  <2>2. PICK M : seChannel \in Seq(M)
    BY <1>0
  <2>3. ASSUME NEW r PROVE SeEventsOf(seChannel', r) = SeEventsOf(seChannel, r)
    <3>1. SeEventsOf(seChannel, r) = SeEventsOf(Tail(seChannel), r) + 0
      BY <2>1, <2>2, SeEventsTaken
    <3>2. Tail(seChannel) \in Seq(M)
      BY <2>1, <2>2
    <3>3. SeEventsOf(Tail(seChannel), r) \in Nat
      BY <3>2, SeEventsAppended
    <3> QED BY <2>1, <3>1, <3>3
  <2>4. seHold.op = "flush"
    BY <1>0, <1>4, SeFlushIsLast DEF SeAwaitsReply
  <2>5. seHold \in [op : {"flush"}, for : {"clear", "prune"}, stage : {"send", "wait", "do"}]
    BY <1>0, <2>4 DEF SeInv, SeHolder, SeFree
  <2>6. seHold'.op = "flush"
    BY <2>1, <2>4, <2>5
  <2> QED BY <2>1, <2>3, <2>4, <2>6
<1>5. ASSUME ~SeWriterFails, SeWriterStops
      PROVE  /\ seDb' = SeStored(SeBatched) /\ seBatch' = <<>> /\ UNCHANGED <<seHoled, seHold>>
             /\ \A r : SeEventsOf(seChannel', r) = SeEventsOf(seChannel, r)
  <2>1. /\ seDb' = SeStored(SeBatched) /\ seBatch' = <<>> /\ UNCHANGED <<seHoled, seHold>>
        /\ seChannel' = <<>>
        /\ seChannel # <<>> /\ Head(seChannel).op = "stop"
    BY <1>5 DEF SeWriterStops, SeLoseNothing
  <2>2. PICK M : seChannel \in Seq(M)
    BY <1>0
  <2>3. Len(seChannel) \in Nat \ {0} /\ Head(seChannel) = seChannel[1]
        /\ Tail(seChannel) \in Seq(M) /\ Len(Tail(seChannel)) = Len(seChannel) - 1
    BY <2>1, <2>2, SeTaken
  <2>4. 1 = Len(seChannel)
    <3>1. 1 \in 1..Len(seChannel) /\ seChannel[1].op = "stop"
      BY <2>1, <2>3
    <3>2. \A i \in 1..Len(seChannel) : seChannel[i].op = "stop" => i = Len(seChannel)
      BY <1>0 DEF SeInv, SeInChannel
    <3> QED BY <3>1, <3>2
  <2>5. Tail(seChannel) = <<>>
    <3> DEFINE all == Len(seChannel)
               some == Len(Tail(seChannel))
    <3>2. 1 = all /\ some = all - 1
      BY <2>3, <2>4
    <3> HIDE DEF all, some
    <3>3. some = 0
      BY <3>2
    <3>1. Len(Tail(seChannel)) = 0
      BY <3>3 DEF some
    <3> QED BY <2>3, <3>1, SeNoneLeft
  <2>6. ASSUME NEW r PROVE SeEventsOf(seChannel', r) = SeEventsOf(seChannel, r)
    <3>1. SeEventsOf(seChannel, r) = SeEventsOf(Tail(seChannel), r) + 0
      BY <2>1, <2>2, SeEventsTaken
    <3>2. SeEventsOf(Tail(seChannel), r) = 0
      BY <2>5, SeEventsNone
    <3> QED BY <2>1, <3>1, <3>2, SeEventsNone
  <2> QED BY <2>1, <2>6
<1>6. ASSUME ~SeWriterFails
      PROVE  /\ seDb' = SeStored(SeBatched) /\ seBatch' = <<>> /\ UNCHANGED seHoled
             /\ \A r : SeEventsOf(seChannel', r) = SeEventsOf(seChannel, r)
             /\ (UNCHANGED seHold) \/ (seHold.op # "record" /\ seHold'.op # "record")
  BY <1>3, <1>4, <1>5, <1>6
<1>7. CASE ~SeWriterFails
  BY <1>1, <1>6, <1>7, SeWrittenSame
<1> QED BY <1>2, <1>7

(* The deletion of a clear empties both; that of a prune keeps the same.     *)
LEMMA SeDeleteRemembers ==
    ASSUME SeExact, SeDelete
    PROVE  SeRemembers'
<1> DEFINE places == {i \in DOMAIN seMem : \A s \in seDue : seMem[i].last >= s}
           rows == UNION {SeExpiredRows(s) : s \in seDue}
<1>1. /\ UNCHANGED <<seBatch, seChannel, seWeb, seNow>> /\ seHold.op = "flush" /\ seHold' = SeFree
      /\ \/ seHold.for = "clear" /\ seMem' \in {<<>>}
         \/ seHold.for # "clear" /\ seDb' = SeWithout(rows) /\ seMem' \in SeRetained(places)
            /\ seHoled' = seHoled \cup rows
         \/ UNCHANGED <<seDb, seMem, seHoled>>
  BY DEF SeDelete
<1>2. (UNCHANGED seHold) \/ (seHold.op # "record" /\ seHold'.op # "record")
  BY <1>1 DEF SeFree
<1>3. CASE seMem' \in {<<>>}
  BY <1>3, SeRemembersNothing
<1>4. CASE seDb' = SeWithout(rows) /\ seMem' \in SeRetained(places) /\ seHoled' = seHoled \cup rows
  <2>1. seMem \in Seq(SeEvents) /\ Len(seMem) <= SeShown /\ SeShown \in Nat
    BY SeConstants DEF SeExact, SeRemembers, SeOrdered, SeConstants
  <2>2. Len(seMem) \in Nat /\ DOMAIN seMem = 1..Len(seMem) /\ places \subseteq 1..Len(seMem)
    BY <2>1
  <2> DEFINE n == Cardinality(places)
  <2>3. n \in Nat /\ n <= Len(seMem)
    <3>1. \A m \in Nat : IsFiniteSet(1..m) /\ Cardinality(1..m) = m
      <4> SUFFICES ASSUME NEW m \in Nat PROVE IsFiniteSet(1..m) /\ Cardinality(1..m) = m
        OBVIOUS
      <4>1. Cardinality(1..m) = IF 1 > m THEN 0 ELSE m - 1 + 1
        BY FS_Interval
      <4> QED BY <4>1, FS_Interval
    <3>2. IsFiniteSet(1..Len(seMem)) /\ Cardinality(1..Len(seMem)) = Len(seMem)
      BY <2>2, <3>1
    <3>3. IsFiniteSet(places) /\ n <= Cardinality(1..Len(seMem))
      BY <2>2, <3>2, FS_Subset
    <3>4. n \in Nat
      BY <3>3, FS_CardinalityType
    <3> QED BY <3>2, <3>3, <3>4
  <2>4. PICK order \in {o \in [1..n -> places] : \A i, j \in 1..n : i < j => o[i] < o[j]} :
             seMem' = [i \in 1..n |-> seMem[order[i]]]
    BY <1>4 DEF SeRetained
  <2> HIDE DEF n, places
  <2>5. SePlaces(seMem, order, n)
    BY <2>2, <2>4 DEF SePlaces
  <2>6. n <= SeShown
    BY <2>1, <2>2, <2>3
  <2>7. \A r : r \notin seHoled' => SeTotal(r)' = SeTotal(r)
    BY <1>1, <1>2, <1>4, SeDeletedSame
  <2>8. seHoled \subseteq seHoled'
    BY <1>4
  <2> QED BY <1>1, <2>3, <2>4, <2>5, <2>6, <2>7, <2>8, SeRemembersSome DEF SeExact
<1>5. CASE UNCHANGED <<seDb, seMem, seHoled>>
  <2>1. \A r : SeTotal(r)' = SeTotal(r)
    BY <1>1, <1>2, <1>5, SeTotalSame
  <2> QED BY <1>1, <1>5, <2>1, SeRemembersAgain
<1> QED BY <1>1, <1>3, <1>4, <1>5

(* A restoration shows the table, with nothing on the way but known rows. *)
LEMMA SeRestoreRemembers ==
    ASSUME SeExact, SeRestore
    PROVE  SeRemembers'
<1>1. /\ UNCHANGED <<seDb, seBatch, seChannel, seWeb, seHold, seNow>> /\ seHold = SeFree /\ seServer = "reset"
      /\ \/ seMem' \in SeRecent /\ seHoled' = seHoled \cup SeRows(seWeb)
         \/ seHoled' = seHoled \cup DOMAIN seDb \cup SeRows(seWeb) /\ UNCHANGED seMem
  BY DEF SeRestore, SeUnlocked
<1>2. CASE seMem' \in SeRecent /\ seHoled' = seHoled \cup SeRows(seWeb)
  <2>1. seChannel = <<>> /\ seBatch = <<>>
    BY <1>1 DEF SeExact, SeInv, SeControl, SeInChannel
  <2>2. ASSUME NEW r, r \notin seHoled' PROVE SeOnTheWay(r)' = 0
    <3>1. {e \in seWeb' : SeRow(e) = r} = {}
      BY <1>1, <1>2, <2>2 DEF SeRows
    <3>2. SeInWeb(r)' = 0
      BY <3>1, FS_EmptySet DEF SeInWeb
    <3>3. SeInHold(r)' = 0
      BY <1>1, SeHandEmpty DEF SeFree
    <3> QED BY <1>1, <2>1, <3>2, <3>3, SeEventsNone, SeTotalIsNext
  <2> QED BY <1>1, <1>2, <2>2, SeRemembersStored DEF SeExact
<1>3. CASE seHoled' = seHoled \cup DOMAIN seDb \cup SeRows(seWeb) /\ UNCHANGED seMem
  <2>1. \A r : SeTotal(r)' = SeTotal(r)
    BY <1>1, SeTotalSame
  <2> QED BY <1>1, <1>3, <2>1, SeRemembersAgain
<1> QED BY <1>1, <1>2, <1>3

(* So does a restart of the process, and nothing is on the way. *)
LEMMA SeCrashRemembers ==
    ASSUME SeExact, SeCrash
    PROVE  SeRemembers'
<1>1. /\ UNCHANGED <<seDb, seNow>> /\ seMem' \in SeRecent
      /\ seChannel' = <<>> /\ seBatch' = <<>> /\ seHold' = SeFree /\ seWeb' = {}
  BY DEF SeCrash
<1>2. ASSUME NEW r PROVE SeOnTheWay(r)' = 0
  <2>1. {e \in seWeb' : SeRow(e) = r} = {}
    BY <1>1
  <2>2. SeInWeb(r)' = 0
    BY <2>1, FS_EmptySet DEF SeInWeb
  <2>3. SeInHold(r)' = 0
    BY <1>1, SeHandEmpty DEF SeFree
  <2> QED BY <1>1, <2>2, <2>3, SeEventsNone, SeTotalIsNext
<1> QED BY <1>1, <1>2, SeRemembersStored DEF SeExact

(* Time passes. *)
LEMMA SeTickRemembers ==
    ASSUME SeExact, SeTick
    PROVE  SeRemembers'
<1>1. /\ seNow' = seNow + 1
      /\ UNCHANGED <<seMem, seDb, seChannel, seBatch, seHold, seWeb, seHoled>>
  BY DEF SeTick
<1>2. \A r : SeTotal(r)' = SeTotal(r)
  BY <1>1, SeTotalSame
<1>3. seNow \in Nat /\ seNow' \in Nat /\ seNow <= seNow' /\ MaxSeTime \in Nat
  BY <1>1, SeConstants DEF SeExact, SeLimits, SeConstants
<1> QED BY <1>1, <1>2, <1>3, SeRemembersOn DEF SeExact

(* The message of a flush or a stop, or a lock taken or let go of.           *)
LEMMA SeLockRemembers ==
    ASSUME SeExact, (\E op \in {"clear", "prune"} : SeLock(op)) \/ SeFlushSend \/ SeStopWriter \/ SeStopWaited
    PROVE  SeRemembers'
<1>1. UNCHANGED <<seMem, seNow, seDb, seBatch, seWeb, seHoled>>
  BY DEF SeLock, SeFlushSend, SeStopWriter, SeStopWaited
<1>2. /\ seHold.op # "record" /\ seHold'.op # "record"
      /\ (UNCHANGED seChannel) \/ \E m \in {[op |-> "flush"], [op |-> "stop"]} : seChannel' = Append(seChannel, m)
  <2>1. CASE \E op \in {"clear", "prune"} : SeLock(op)
    BY <2>1 DEF SeLock, SeUnlocked, SeFree
  <2>2. CASE SeFlushSend
    <3>1. seHold.op = "flush"
      BY <2>2 DEF SeFlushSend
    <3>2. seHold \in [op : {"flush"}, for : {"clear", "prune"}, stage : {"send", "wait", "do"}]
      BY <3>1 DEF SeExact, SeInv, SeHolder, SeFree
    <3>3. seHold' = SeFree \/ seHold' = [seHold EXCEPT !.stage = "wait"]
      BY <2>2 DEF SeFlushSend
    <3>4. seHold'.op # "record"
      BY <3>2, <3>3 DEF SeFree
    <3>5. (UNCHANGED seChannel) \/ seChannel' = Append(seChannel, [op |-> "flush"])
      BY <2>2 DEF SeFlushSend
    <3> QED BY <3>1, <3>4, <3>5
  <2>3. CASE SeStopWriter
    BY <2>3 DEF SeStopWriter, SeUnlocked, SeFree
  <2>4. CASE SeStopWaited
    BY <2>4 DEF SeStopWaited, SeFree
  <2> QED BY <2>1, <2>2, <2>3, <2>4
<1>3. CASE UNCHANGED seChannel
  <2>1. \A r : SeTotal(r)' = SeTotal(r)
    BY <1>1, <1>2, <1>3, SeTotalSame
  <2> QED BY <1>1, <2>1, SeRemembersAgain
<1>4. ASSUME NEW m \in {[op |-> "flush"], [op |-> "stop"]}, seChannel' = Append(seChannel, m)
      PROVE  SeRemembers'
  <2>1. m.op # "event"
    OBVIOUS
  <2>2. \A r : SeTotal(r)' = SeTotal(r)
    BY <1>1, <1>2, <1>4, <2>1, SeSignalSame
  <2> QED BY <1>1, <2>2, SeRemembersAgain
<1> QED BY <1>2, <1>3, <1>4

(* What is shown agrees with what was sent and stored after every step.      *)
LEMMA SeRemembersStep == SeExact /\ SeNext => SeRemembers'
<1> SUFFICES ASSUME SeExact, SeNext PROVE SeRemembers'
  OBVIOUS
<1>1. ASSUME NEW k \in SeKinds, SeRecord(k) PROVE SeRemembers'
  BY <1>1, SeRecordRemembers
<1>2. ASSUME NEW k \in SeWebKinds, SeWebRecord(k) PROVE SeRemembers'
  BY <1>2, SeWebRecordRemembers
<1>3. CASE SeRecordWaited
  <2>1. UNCHANGED <<seMem, seNow>>
    BY <1>3 DEF SeRecordWaited
  <2> QED BY <1>3, <2>1, SeRecordWaitedSame, SeRemembersAgain
<1>4. CASE SeWebWrite
  <2>1. UNCHANGED <<seMem, seNow>>
    BY <1>4 DEF SeWebWrite
  <2> QED BY <1>4, <2>1, SeWebWriteSame, SeRemembersAgain
<1>5. CASE SeWriterTakes
  <2>1. UNCHANGED <<seMem, seNow, seHoled>>
    BY <1>5 DEF SeWriterTakes
  <2> QED BY <1>5, <2>1, SeWriterTakesSame, SeRemembersAgain
<1>6. CASE SeWriterWrites \/ SeWriterFlushes \/ SeWriterStops
  <2>1. UNCHANGED <<seMem, seNow>>
    BY <1>6 DEF SeWriterWrites, SeWriterFlushes, SeWriterStops
  <2> QED BY <1>6, <2>1, SeWritesSame, SeRemembersAgain
<1>7. CASE SePrune
  <2>1. /\ UNCHANGED <<seMem, seNow, seBatch, seChannel, seWeb, seHold>>
        /\ seDb' = SeWithout(SeExpiredRows(seNow - SeRetention))
        /\ seHoled' = seHoled \cup SeExpiredRows(seNow - SeRetention)
    BY <1>7 DEF SePrune
  <2>2. \A r : r \notin seHoled' => SeTotal(r)' = SeTotal(r)
    BY <2>1, SeDeletedSame
  <2>3. seHoled \subseteq seHoled'
    BY <2>1
  <2> QED BY <2>1, <2>2, <2>3, SeRemembersAgain
<1>8. CASE (\E op \in {"clear", "prune"} : SeLock(op)) \/ SeFlushSend \/ SeStopWriter \/ SeStopWaited
  BY <1>8, SeLockRemembers
<1>9. CASE SeDelete
  BY <1>9, SeDeleteRemembers
<1>10. CASE SeStartReset
  BY <1>10, SeRemembersNothing DEF SeStartReset
<1>11. CASE SeRestore
  BY <1>11, SeRestoreRemembers
<1>12. CASE SeStartWriter
  <2>1. /\ UNCHANGED <<seMem, seNow, seHoled, seDb, seHold, seWeb>> /\ seServer = "restored"
        /\ seChannel' = <<>> /\ seBatch' = <<>>
    BY <1>12 DEF SeStartWriter
  <2>2. seChannel = <<>> /\ seBatch = <<>>
    BY <2>1 DEF SeExact, SeInv, SeControl, SeInChannel
  <2>3. \A r : SeTotal(r)' = SeTotal(r)
    BY <2>1, <2>2, SeTotalSame
  <2> QED BY <2>1, <2>3, SeRemembersAgain
<1>13. CASE SeStop \/ SeShutdown
  <2>1. UNCHANGED <<seMem, seNow, seHoled, seDb, seHold, seWeb, seBatch, seChannel>>
    BY <1>13 DEF SeStop, SeShutdown
  <2>2. \A r : SeTotal(r)' = SeTotal(r)
    BY <2>1, SeTotalSame
  <2> QED BY <2>1, <2>2, SeRemembersAgain
<1>14. CASE SeCrash
  BY <1>14, SeCrashRemembers
<1>15. CASE SeTick
  BY <1>15, SeTickRemembers
<1> QED
  BY <1>1, <1>2, <1>3, <1>4, <1>5, <1>6, <1>7, <1>8, <1>9, <1>10, <1>11, <1>12, <1>13, <1>14, <1>15 DEF SeNext

(* What is of the present at the latest stays so. *)
LEMMA SeGoodLater ==
    ASSUME NEW e, NEW now \in Nat, NEW later \in Nat, now <= later, SeGood(e, now)
    PROVE  SeGood(e, later)
<1>1. e.last \in Nat /\ e.last <= now
  BY SeConstants DEF SeGood, SeEvents, SeConstants
<1>2. e.last <= later
  BY <1>1
<1> QED BY <1>2 DEF SeGood

(* A table of the present is one of later. *)
LEMMA SeTableLater ==
    ASSUME NEW db, NEW now \in Nat, NEW later \in Nat, now <= later, SeTable(db, now)
    PROVE  SeTable(db, later)
<1> SUFFICES ASSUME NEW r \in DOMAIN db
             PROVE  /\ r \in (SeKinds \cup SeWebKinds) \X (0..MaxSeTime)
                    /\ db[r].last \in 0..MaxSeTime /\ db[r].count \in Nat \ {0}
                    /\ r[2] <= db[r].last /\ db[r].last <= later
  BY DEF SeTable
<1>1. /\ r \in (SeKinds \cup SeWebKinds) \X (0..MaxSeTime)
      /\ db[r].last \in 0..MaxSeTime /\ db[r].count \in Nat \ {0}
      /\ r[2] <= db[r].last /\ db[r].last <= now
  BY DEF SeTable
<1>2. db[r].last \in Nat
  BY <1>1, SeConstants DEF SeConstants
<1> QED BY <1>1, <1>2

(* Time goes on by one at most. *)
LEMMA SeTimeStep ==
    ASSUME SeExact, SeNext
    PROVE  seNow \in Nat /\ seNow' \in Nat /\ seNow <= seNow' /\ seNow' \in 1..MaxSeTime
<1>1. seNow \in 1..MaxSeTime /\ MaxSeTime \in Nat
  BY SeConstants DEF SeExact, SeLimits, SeConstants
<1>2. CASE SeTick
  BY <1>1, <1>2 DEF SeTick
<1>3. CASE ~SeTick
  <2>1. seNow' = seNow
    BY <1>3 DEF SeNext, SeRecord, SeWebRecord, SeRecordWaited, SeWebWrite, SeWriterTakes, SeWriterWrites,
                SeWriterFlushes, SeWriterStops, SePrune, SeLock, SeFlushSend, SeDelete, SeStartReset, SeRestore,
                SeStartWriter, SeStop, SeShutdown, SeStopWriter, SeStopWaited, SeCrash
  <2> QED BY <1>1, <2>1
<1> QED BY <1>2, <1>3

(* Nothing sent and nothing deleted: the table stands.                      *)
LEMMA SeTableStep == SeExact /\ SeNext => SeTable(seDb', seNow')
<1> SUFFICES ASSUME SeExact, SeNext PROVE SeTable(seDb', seNow')
  OBVIOUS
<1>1. SeTable(seDb, seNow) /\ seNow \in Nat /\ seNow' \in Nat /\ seNow <= seNow'
  BY SeTimeStep DEF SeExact
<1>2. CASE SeWriterWrites \/ SeWriterFlushes \/ SeWriterStops
  BY <1>2, SeWritesSame
<1>3. CASE SeWebWrite
  BY <1>3, SeWebWriteSame
<1>4. CASE SePrune
  <2>1. UNCHANGED seNow /\ seDb' = SeWithout(SeExpiredRows(seNow - SeRetention))
    BY <1>4 DEF SePrune
  <2> QED BY <1>1, <2>1, SeWithoutCounts
<1>5. CASE SeDelete
  <2>1. UNCHANGED seNow /\ ((UNCHANGED seDb) \/ \E rows : seDb' = SeWithout(rows))
    BY <1>5 DEF SeDelete
  <2> QED BY <1>1, <2>1, SeWithoutCounts
<1>6. CASE UNCHANGED seDb
  BY <1>1, <1>6, SeTableLater
<1>7. \/ SeWriterWrites \/ SeWriterFlushes \/ SeWriterStops \/ SeWebWrite \/ SePrune \/ SeDelete
      \/ UNCHANGED seDb
  BY DEF SeNext, SeRecord, SeWebRecord, SeRecordWaited, SeWriterTakes, SeLock, SeFlushSend, SeStartReset,
         SeRestore, SeStartWriter, SeStop, SeShutdown, SeStopWriter, SeStopWaited, SeCrash, SeTick
<1> QED BY <1>2, <1>3, <1>4, <1>5, <1>6, <1>7

(* What a step does to the channel and the batch.                           *)
SeFits(m) == Len(seChannel) < SeQueueLimit /\ seChannel' = Append(seChannel, m)

(* The channel stands, is emptied, gets a message or loses its first. *)
LEMMA SeChannelMoves ==
    ASSUME SeExact, SeNext
    PROVE  \/ UNCHANGED seChannel
           \/ seChannel' = <<>>
           \/ \E m : SeFits(m) /\ (m.op = "event" => SeGood(m.event, seNow))
           \/ seChannel # <<>> /\ seChannel' = Tail(seChannel)
<1> DEFINE moved == \/ UNCHANGED seChannel
                    \/ seChannel' = <<>>
                    \/ \E m : SeFits(m) /\ (m.op = "event" => SeGood(m.event, seNow))
                    \/ seChannel # <<>> /\ seChannel' = Tail(seChannel)
<1> SUFFICES moved
  OBVIOUS
<1>1. ASSUME NEW k \in SeKinds, SeRecord(k) PROVE moved
  <2>1. (UNCHANGED seChannel) \/ SeFits(SeMessage(k))
    BY <1>1 DEF SeRecord, SeFits
  <2>2. SeGood(SeIncrement(k), seNow)
    BY SeIncrementGood DEF SeExact, SeLimits, SeRemembers
  <2>3. SeMessage(k).event = SeIncrement(k)
    BY DEF SeMessage
  <2> QED BY <2>1, <2>2, <2>3
<1>2. CASE SeRecordWaited
  <2>1. (UNCHANGED seChannel) \/ SeFits(seHold.message)
    BY <1>2 DEF SeRecordWaited, SeFits
  <2>2. SeGood(seHold.message.event, seNow)
    BY <1>2 DEF SeRecordWaited, SeExact, SeSentGood
  <2> QED BY <2>1, <2>2
<1>3. CASE SeFlushSend \/ SeStopWriter \/ SeStopWaited
  <2>1. (UNCHANGED seChannel) \/ \E m \in {[op |-> "flush"], [op |-> "stop"]} : SeFits(m)
    BY <1>3 DEF SeFlushSend, SeStopWriter, SeStopWaited, SeFits
  <2>2. \A m \in {[op |-> "flush"], [op |-> "stop"]} : m.op # "event"
    OBVIOUS
  <2> QED BY <2>1, <2>2
<1>4. CASE SeWriterTakes \/ SeWriterWrites \/ SeWriterFlushes \/ SeWriterStops
  BY <1>4 DEF SeWriterTakes, SeWriterWrites, SeWriterFlushes, SeWriterStops, SeWriterFails
<1>5. CASE SeStartWriter \/ SeCrash
  BY <1>5 DEF SeStartWriter, SeCrash
<1>6. CASE UNCHANGED seChannel
  BY <1>6
<1>7. \/ \E k \in SeKinds : SeRecord(k)
      \/ SeRecordWaited \/ SeFlushSend \/ SeStopWriter \/ SeStopWaited
      \/ SeWriterTakes \/ SeWriterWrites \/ SeWriterFlushes \/ SeWriterStops \/ SeStartWriter \/ SeCrash
      \/ UNCHANGED seChannel
  BY DEF SeNext, SeWebRecord, SeWebWrite, SePrune, SeLock, SeDelete, SeStartReset, SeRestore, SeStop, SeShutdown, SeTick
<1> QED BY <1>1, <1>2, <1>3, <1>4, <1>5, <1>6, <1>7

(* The batch stands, is written or gets an event of the channel. *)
LEMMA SeBatchMoves ==
    ASSUME SeExact, SeNext
    PROVE  \/ UNCHANGED seBatch
           \/ seBatch' = <<>>
           \/ /\ seChannel # <<>> /\ Head(seChannel).op = "event" /\ Len(seBatch) < SeBatchLimit
              /\ seBatch' = Append(seBatch, Head(seChannel))
<1>1. CASE SeWriterTakes
  BY <1>1 DEF SeWriterTakes
<1>2. CASE ~SeWriterTakes
  <2>1. (UNCHANGED seBatch) \/ seBatch' = <<>>
    BY <1>2 DEF SeNext, SeRecord, SeWebRecord, SeRecordWaited, SeWebWrite, SeWriterWrites, SeWriterFlushes,
                SeWriterStops, SeWriterFails, SePrune, SeLock, SeFlushSend, SeDelete, SeStartReset, SeRestore,
                SeStartWriter, SeStop, SeShutdown, SeStopWriter, SeStopWaited, SeCrash, SeTick
  <2> QED BY <2>1
<1> QED BY <1>1, <1>2

(* Channel and batch stay within QUEUE_CAPACITY and BATCH_SIZE. *)
LEMMA SeLimitsStep == SeExact /\ SeNext => SeLimits'
<1> SUFFICES ASSUME SeExact, SeNext PROVE SeLimits'
  OBVIOUS
<1>1. /\ Len(seChannel) <= SeQueueLimit /\ SeQueueLimit \in Nat \ {0}
      /\ Len(seBatch) <= SeBatchLimit /\ SeBatchLimit \in Nat \ {0}
  BY SeConstants DEF SeExact, SeLimits, SeConstants
<1>2. Len(seChannel') <= SeQueueLimit
  <2>1. PICK M : seChannel \in Seq(M)
    BY DEF SeExact, SeInv, SeInChannel
  <2>2. Len(seChannel) \in Nat
    BY <2>1
  <2>3. CASE (UNCHANGED seChannel) \/ seChannel' = <<>>
    BY <1>1, <2>3
  <2>4. ASSUME NEW m, SeFits(m) PROVE Len(seChannel') <= SeQueueLimit
    <3>1. Len(seChannel') = Len(seChannel) + 1 /\ Len(seChannel) < SeQueueLimit
      BY <2>1, <2>4, SeSent DEF SeFits
    <3> QED BY <1>1, <2>2, <3>1
  <2>5. CASE seChannel # <<>> /\ seChannel' = Tail(seChannel)
    <3>1. Len(seChannel') = Len(seChannel) - 1
      BY <2>1, <2>5, SeTaken
    <3> QED BY <1>1, <2>2, <3>1
  <2> QED BY <2>3, <2>4, <2>5, SeChannelMoves
<1>3. Len(seBatch') <= SeBatchLimit
  <2>1. PICK M : seBatch \in Seq(M)
    BY DEF SeExact, SeInv, SeInChannel
  <2>2. Len(seBatch) \in Nat
    BY <2>1
  <2>3. CASE (UNCHANGED seBatch) \/ seBatch' = <<>>
    BY <1>1, <2>3
  <2>4. CASE Len(seBatch) < SeBatchLimit /\ seBatch' = Append(seBatch, Head(seChannel))
    <3>1. Len(seBatch') = Len(seBatch) + 1
      BY <2>1, <2>4, SeSent
    <3> QED BY <1>1, <2>2, <2>4, <3>1
  <2> QED BY <2>3, <2>4, SeBatchMoves
<1> QED BY <1>2, <1>3, SeTimeStep DEF SeLimits

(* Only new events are ever on the way.                                     *)
LEMMA SeSentStep == SeExact /\ SeNext => SeSentGood'
<1> SUFFICES ASSUME SeExact, SeNext PROVE SeSentGood'
  OBVIOUS
<1>1. seNow \in Nat /\ seNow' \in Nat /\ seNow <= seNow'
  BY SeTimeStep
<1>2. PICK M : seChannel \in Seq(M)
  BY DEF SeExact, SeInv, SeInChannel
<1>3. PICK N : seBatch \in Seq(N)
  BY DEF SeExact, SeInv, SeInChannel
<1>4. /\ \A i \in 1..Len(seChannel) : seChannel[i].op = "event" => SeGood(seChannel[i].event, seNow)
      /\ \A i \in 1..Len(seBatch) : seBatch[i].op = "event" /\ SeGood(seBatch[i].event, seNow)
      /\ seHold.op = "record" => SeGood(seHold.message.event, seNow)
      /\ seWeb = {} \/ \E e : seWeb = {e} /\ SeGood(e, seNow)
  BY DEF SeExact, SeSentGood
<1>5. ASSUME NEW i \in 1..Len(seChannel'), seChannel'[i].op = "event"
      PROVE  SeGood(seChannel'[i].event, seNow')
  <2>1. CASE UNCHANGED seChannel
    <3>1. SeGood(seChannel[i].event, seNow)
      BY <1>4, <1>5, <2>1
    <3> QED BY <1>1, <2>1, <3>1, SeGoodLater
  <2>2. CASE seChannel' = <<>>
    BY <2>2
  <2>3. ASSUME NEW m, SeFits(m), m.op = "event" => SeGood(m.event, seNow)
        PROVE  SeGood(seChannel'[i].event, seNow')
    <3>1. /\ Len(seChannel') = Len(seChannel) + 1
          /\ \A j \in 1..Len(seChannel) : seChannel'[j] = seChannel[j]
          /\ seChannel'[Len(seChannel) + 1] = m
      BY <1>2, <2>3, SeSent DEF SeFits
    <3>2. Len(seChannel) \in Nat
      BY <1>2
    <3>3. i \in 1..Len(seChannel) \/ i = Len(seChannel) + 1
      BY <3>1, <3>2
    <3>4. SeGood(seChannel'[i].event, seNow)
      BY <1>4, <1>5, <2>3, <3>1, <3>3
    <3> QED BY <1>1, <3>4, SeGoodLater
  <2>4. CASE seChannel # <<>> /\ seChannel' = Tail(seChannel)
    <3>1. /\ Len(seChannel') = Len(seChannel) - 1 /\ Len(seChannel) \in Nat \ {0}
          /\ \A j \in 1..Len(seChannel') : seChannel'[j] = seChannel[j + 1]
      BY <1>2, <2>4, SeTaken
    <3>2. i + 1 \in 1..Len(seChannel) /\ seChannel'[i] = seChannel[i + 1]
      BY <3>1
    <3>3. SeGood(seChannel'[i].event, seNow)
      BY <1>4, <1>5, <3>2
    <3> QED BY <1>1, <3>3, SeGoodLater
  <2> QED BY <2>1, <2>2, <2>3, <2>4, SeChannelMoves
<1>6. ASSUME NEW i \in 1..Len(seBatch')
      PROVE  seBatch'[i].op = "event" /\ SeGood(seBatch'[i].event, seNow')
  <2>1. CASE UNCHANGED seBatch
    <3>1. seBatch[i].op = "event" /\ SeGood(seBatch[i].event, seNow)
      BY <1>4, <1>6, <2>1
    <3> QED BY <1>1, <2>1, <3>1, SeGoodLater
  <2>2. CASE seBatch' = <<>>
    BY <2>2
  <2>3. CASE /\ seChannel # <<>> /\ Head(seChannel).op = "event" /\ seBatch' = Append(seBatch, Head(seChannel))
    <3>1. /\ Len(seBatch') = Len(seBatch) + 1
          /\ \A j \in 1..Len(seBatch) : seBatch'[j] = seBatch[j]
          /\ seBatch'[Len(seBatch) + 1] = Head(seChannel)
      BY <1>3, <2>3, SeSent
    <3>2. Len(seBatch) \in Nat
      BY <1>3
    <3>3. i \in 1..Len(seBatch) \/ i = Len(seBatch) + 1
      BY <3>1, <3>2
    <3>4. Head(seChannel) = seChannel[1] /\ 1 \in 1..Len(seChannel)
      BY <1>2, <2>3, SeTaken
    <3>5. SeGood(Head(seChannel).event, seNow)
      BY <1>4, <2>3, <3>4
    <3>6. seBatch'[i].op = "event" /\ SeGood(seBatch'[i].event, seNow)
      BY <1>4, <2>3, <3>1, <3>3, <3>5
    <3> QED BY <1>1, <3>6, SeGoodLater
  <2> QED BY <2>1, <2>2, <2>3, SeBatchMoves
<1>7. ASSUME seHold'.op = "record" PROVE SeGood(seHold'.message.event, seNow')
  <2>1. ASSUME NEW k \in SeKinds, SeRecord(k) PROVE SeGood(seHold'.message.event, seNow')
    <3>1. (UNCHANGED seHold) \/ seHold' = [op |-> "record", message |-> SeMessage(k)]
      BY <2>1 DEF SeRecord
    <3>2. CASE UNCHANGED seHold
      BY <1>7, <2>1, <3>2 DEF SeRecord, SeUnlocked, SeFree
    <3>3. CASE seHold' = [op |-> "record", message |-> SeMessage(k)]
      <4>1. SeGood(SeIncrement(k), seNow)
        BY SeIncrementGood DEF SeExact, SeLimits, SeRemembers
      <4>2. seHold'.message.event = SeIncrement(k)
        BY <3>3 DEF SeMessage
      <4> QED BY <1>1, <4>1, <4>2, SeGoodLater
    <3> QED BY <3>1, <3>2, <3>3
  <2>2. CASE UNCHANGED seHold
    <3>1. SeGood(seHold.message.event, seNow)
      BY <1>4, <1>7, <2>2
    <3> QED BY <1>1, <2>2, <3>1, SeGoodLater
  <2>3. CASE ~(UNCHANGED seHold) /\ \A k \in SeKinds : ~SeRecord(k)
    <3>1. \/ seHold' = SeFree \/ seHold' = [op |-> "stop"]
          \/ \E for : seHold' = [op |-> "flush", for |-> for, stage |-> SeFirstStage]
          \/ seHold.op = "flush" /\ \E part : seHold' = [seHold EXCEPT !.stage = part]
      <4>1. CASE SeWriterFlushes
        <5>1. seHold.op = "flush"
          BY <4>1, SeFlushIsLast DEF SeExact, SeAwaitsReply
        <5> QED BY <2>3, <4>1, <5>1 DEF SeWriterFlushes, SeWriterFails
      <4>2. CASE SeFlushSend
        BY <4>2 DEF SeFlushSend
      <4>3. CASE ~SeWriterFlushes /\ ~SeFlushSend
        BY <2>3, <4>3 DEF SeNext, SeWebRecord, SeRecordWaited, SeWebWrite, SeWriterTakes, SeWriterWrites,
                SeWriterStops, SeWriterFails, SePrune, SeLock, SeDelete, SeStartReset, SeRestore,
                SeStartWriter, SeStop, SeShutdown, SeStopWriter, SeStopWaited, SeCrash, SeTick
      <4> QED BY <4>1, <4>2, <4>3
    <3>2. seHold.op = "flush" => seHold \in [op : {"flush"}, for : {"clear", "prune"}, stage : {"send", "wait", "do"}]
      BY DEF SeExact, SeInv, SeHolder, SeFree
    <3> QED BY <1>7, <3>1, <3>2 DEF SeFree
  <2> QED BY <2>1, <2>2, <2>3
<1>8. seWeb' = {} \/ \E e : seWeb' = {e} /\ SeGood(e, seNow')
  <2>1. ASSUME NEW k \in SeWebKinds, SeWebRecord(k) PROVE seWeb' = {SeIncrement(k)} /\ SeGood(SeIncrement(k), seNow')
    <3>1. SeGood(SeIncrement(k), seNow)
      BY SeIncrementGood DEF SeExact, SeLimits, SeRemembers
    <3> QED BY <1>1, <2>1, <3>1, SeGoodLater DEF SeWebRecord
  <2>2. CASE UNCHANGED seWeb
    BY <1>1, <1>4, <2>2, SeGoodLater
  <2>3. (\E k \in SeWebKinds : SeWebRecord(k)) \/ seWeb' = {} \/ UNCHANGED seWeb
    BY DEF SeNext, SeRecord, SeRecordWaited, SeWebWrite, SeWriterTakes, SeWriterWrites, SeWriterFlushes,
           SeWriterStops, SePrune, SeLock, SeFlushSend, SeDelete, SeStartReset, SeRestore,
           SeStartWriter, SeStop, SeShutdown, SeStopWriter, SeStopWaited, SeCrash, SeTick
  <2> QED BY <2>1, <2>2, <2>3
<1> QED BY <1>5, <1>6, <1>7, <1>8 DEF SeSentGood

(* Nothing is recorded at first. *)
LEMMA SeExactInitially == SeInit => SeExact
<1> SUFFICES ASSUME SeInit PROVE SeExact
  OBVIOUS
<1>1. SeInv
  BY SeInitially
<1>2. SeLimits
  BY SeConstants DEF SeInit, SeLimits, SeConstants
<1>3. SeSentGood
  BY DEF SeInit, SeSentGood, SeFree
<1>4. SeTable(seDb, seNow)
  BY DEF SeInit, SeTable
<1>5. SeRemembers
  <2>1. seMem = <<>>
    BY DEF SeInit
  <2>2. <<>> \in Seq(SeEvents) /\ Len(<<>>) = 0 /\ DOMAIN <<>> = {}
    OBVIOUS
  <2>3. SeShown \in Nat
    BY SeConstants DEF SeConstants
  <2> QED BY <2>1, <2>2, <2>3 DEF SeRemembers, SeOrdered, SeApart, SeShownIsStored
<1> QED BY <1>1, <1>2, <1>3, <1>4, <1>5 DEF SeExact

(* Whatever else happens in the process leaves the counts alone. *)
LEMMA SeExactStutters == SeExact /\ UNCHANGED seVars => SeExact'
<1> SUFFICES ASSUME SeExact, UNCHANGED seVars PROVE SeExact'
  OBVIOUS
<1>1. UNCHANGED <<seServer, seMem, seDb, seSender, seChannel, seBatch, seWriter, seHold, seWeb, seDue, seQuit,
                  seNow, seEvents, seFaults, seStarts, seHoled, seLost, seEra>>
  BY DEF seVars
<1>2. SeInv'
  BY SeStutters DEF SeExact
<1>3. SeLimits' /\ SeTable(seDb', seNow')
  BY <1>1 DEF SeExact, SeLimits
<1>4. SeSentGood'
  BY <1>1 DEF SeExact, SeSentGood
<1>5. SeRemembers'
  <2>1. \A r : SeTotal(r)' = SeTotal(r)
    BY <1>1, SeTotalSame
  <2> QED BY <1>1, <2>1, SeRemembersAgain
<1> QED BY <1>2, <1>3, <1>4, <1>5 DEF SeExact

(* The steps of the path, together. *)
LEMMA SeInvNext == SeInv /\ SeNext => SeInv'
  BY SeControlStep, SeHolderStep, SeLossStep, SeInChannelStep, SeBarrierStep, SeClearStep DEF SeInv

(* Every step keeps the counts and the path. *)
LEMMA SeExactStep == SeExact /\ [SeNext]_seVars => SeExact'
<1> SUFFICES ASSUME SeExact, [SeNext]_seVars PROVE SeExact'
  OBVIOUS
<1>1. CASE SeNext
  <2>1. SeInv'
    BY <1>1, SeInvNext DEF SeExact
  <2>2. SeLimits' /\ SeSentGood' /\ SeTable(seDb', seNow') /\ SeRemembers'
    BY <1>1, SeLimitsStep, SeSentStep, SeTableStep, SeRemembersStep
  <2> QED BY <2>1, <2>2 DEF SeExact
<1>2. CASE UNCHANGED seVars
  BY <1>2, SeExactStutters
<1> QED BY <1>1, <1>2

(* The counts of memory, of what is on the way and of the table agree.      *)
THEOREM SeExactInvariant == SeSpec => []SeExact
  BY SeExactInitially, SeExactStep, PTL DEF SeSpec

(* The counts and the path are what SeEventsKept asks for. *)
LEMMA SeExactKeeps == SeExact => SeEventsKept
<1> SUFFICES ASSUME SeExact PROVE SeEventsKept
  OBVIOUS
<1>1. SeInv /\ SeLimits /\ SeSentGood /\ SeOrdered(seMem, seNow) /\ SeShownIsStored
  BY DEF SeExact, SeRemembers
<1>2. seMem \in Seq(SeEvents) /\ Len(seMem) <= SeShown /\ DOMAIN seMem = 1..Len(seMem)
  BY <1>1 DEF SeOrdered
<1>3. \A i, j \in DOMAIN seMem : i <= j => seMem[i].last <= seMem[j].last
  BY <1>1, <1>2 DEF SeOrdered
<1>4. Range(SeBatched) \subseteq SeEvents
  <2>1. PICK M : seBatch \in Seq(M)
    BY <1>1 DEF SeInv, SeInChannel
  <2>2. DOMAIN seBatch = 1..Len(seBatch)
    BY <2>1
  <2>3. \A i \in DOMAIN seBatch : seBatch[i].event \in SeEvents
    BY <1>1, <2>2 DEF SeSentGood, SeGood
  <2> QED BY <2>3 DEF SeBatched, Range
<1>5. SeTypeOK
  BY <1>1, <1>2, <1>3, <1>4 DEF SeTypeOK, SeInv, SeControl, SeLimits
<1>6. SeClearedIsGone /\ SeOnlyFaultsLose
  BY <1>1 DEF SeInv
<1> QED BY <1>1, <1>5, <1>6 DEF SeEventsKept

(* SeEventsKept, for any kinds of events, any sizes of the channel, the      *)
(* batch and the shown queue, and any mixture of workers, clears, prunes,   *)
(* restarts and errors of the database: an event that memory shows has      *)
(* exactly the count of its row in the table and of what is on the way to   *)
(* it, unless that row is known to have lost or to share an increment; a    *)
(* clear that is no part of a shutdown leaves nothing recorded before it on *)
(* the way; and only an error or a crash loses one.                         *)
THEOREM SeEventsCorrect == SeSpec => []SeEventsKept
<1>1. SeSpec => []SeExact
  BY SeExactInvariant
<1> QED BY <1>1, SeExactKeeps, PTL

(***************************************************************************)
(* The log and its statistics.                                             *)
(***************************************************************************)
------------------------------------------------------------------------------
(* The key of the totals; whether an entry counts in a column of a key; the  *)
(* entries of some hours that do.                                            *)
DsTotalKey == <<"total", "">>
DsAdds(e, key, c) == key \in DsKeysOf(e) /\ DsDelta(e, key)[c] = 1
DsHitsIn(I, key, c) == {i \in I : DsAdds(dsSeen[i].e, key, c)}
DsHits(h, key, c) == {i \in DOMAIN dsSeen : dsSeen[i].hour = h /\ DsAdds(dsSeen[i].e, key, c)}
(* The hours in which the rows of a key are whole. *)
DsSafe(h, key) == h >= dsNow - dsLeast \/ (key = DsTotalKey /\ h >= dsNow - DsTrend)

(* A column counts an entry or does not. *)
LEMMA DsDeltaIs ==
    \A e, key : \A c \in DsColumns : DsAt(DsDeltas(e), key)[c] = (IF DsAdds(e, key, c) THEN 1 ELSE 0)
<1> SUFFICES ASSUME NEW e, NEW key, NEW c \in DsColumns
             PROVE  DsAt(DsDeltas(e), key)[c] = (IF DsAdds(e, key, c) THEN 1 ELSE 0)
  OBVIOUS
<1>1. DsDelta(e, key)[c] \in {0, 1}
  BY DEF DsColumns, DsDelta, DsOne
<1>2. DOMAIN DsDeltas(e) = DsKeysOf(e)
  BY DEF DsDeltas
<1>3. key \in DsKeysOf(e) => DsDeltas(e)[key] = DsDelta(e, key)
  BY DEF DsDeltas
<1> QED BY <1>1, <1>2, <1>3 DEF DsAt, DsAdds

(* A table with some deltas counted in has the sums. *)
LEMMA DsCountInIs ==
    \A table, deltas : /\ DOMAIN DsCountIn(table, deltas) = DOMAIN table \cup DOMAIN deltas
                       /\ \A row : \A c \in DsColumns :
                             DsAt(DsCountIn(table, deltas), row)[c] = DsAt(table, row)[c] + DsAt(deltas, row)[c]
<1> SUFFICES ASSUME NEW table, NEW deltas
             PROVE  /\ DOMAIN DsCountIn(table, deltas) = DOMAIN table \cup DOMAIN deltas
                    /\ \A row : \A c \in DsColumns :
                          DsAt(DsCountIn(table, deltas), row)[c] = DsAt(table, row)[c] + DsAt(deltas, row)[c]
  OBVIOUS
<1>1. DOMAIN DsCountIn(table, deltas) = DOMAIN table \cup DOMAIN deltas
  BY DEF DsCountIn
<1>2. ASSUME NEW row, NEW c \in DsColumns
      PROVE  DsAt(DsCountIn(table, deltas), row)[c] = DsAt(table, row)[c] + DsAt(deltas, row)[c]
  <2>1. CASE row \in DOMAIN table \cup DOMAIN deltas
    <3>1. DsCountIn(table, deltas)[row] = DsSum(DsAt(table, row), DsAt(deltas, row))
      BY <2>1 DEF DsCountIn
    <3> QED BY <1>1, <2>1, <3>1 DEF DsAt, DsSum
  <2>2. CASE row \notin DOMAIN table \cup DOMAIN deltas
    <3>1. DsAt(DsCountIn(table, deltas), row)[c] = 0 /\ DsAt(table, row)[c] = 0 /\ DsAt(deltas, row)[c] = 0
      BY <1>1, <2>2 DEF DsAt
    <3> QED BY <3>1
  <2> QED BY <2>1, <2>2
<1> QED BY <1>1, <1>2

(* The deltas of this hour. *)
LEMMA DsOfHourIs ==
    \A deltas : /\ DOMAIN DsOfHour(deltas) = {dsNow} \X DOMAIN deltas
                /\ \A h, key : DsAt(DsOfHour(deltas), <<h, key>>) =
                      IF h = dsNow THEN DsAt(deltas, key) ELSE [c \in DsColumns |-> 0]
<1> SUFFICES ASSUME NEW deltas
             PROVE  /\ DOMAIN DsOfHour(deltas) = {dsNow} \X DOMAIN deltas
                    /\ \A h, key : DsAt(DsOfHour(deltas), <<h, key>>) =
                          IF h = dsNow THEN DsAt(deltas, key) ELSE [c \in DsColumns |-> 0]
  OBVIOUS
<1>1. DOMAIN DsOfHour(deltas) = {dsNow} \X DOMAIN deltas
  BY DEF DsOfHour
<1>2. ASSUME NEW h, NEW key
      PROVE  DsAt(DsOfHour(deltas), <<h, key>>) = IF h = dsNow THEN DsAt(deltas, key) ELSE [c \in DsColumns |-> 0]
  <2>1. <<h, key>> \in DOMAIN DsOfHour(deltas) <=> h = dsNow /\ key \in DOMAIN deltas
    BY <1>1
  <2>2. h = dsNow /\ key \in DOMAIN deltas => DsOfHour(deltas)[<<h, key>>] = deltas[key]
    BY DEF DsOfHour
  <2> QED BY <2>1, <2>2 DEF DsAt
<1> QED BY <1>1, <1>2

------------------------------------------------------------------------------
(* The sums over the hours of a key, one for each age. *)
DsSums(f, key, hours) ==
    f = [age \in 0..hours |-> DsSum(DsAt(dsHour, <<DsBack(age), key>>),
                                    IF age = 0 THEN [c \in DsColumns |-> 0] ELSE f[age - 1])]

(* There are such sums, of however many hours. *)
LEMMA DsSumsExist ==
    ASSUME NEW key
    PROVE  \A n \in Nat : \E f : DsSums(f, key, n)
<1> DEFINE S == {n \in Nat : \E f : DsSums(f, key, n)}
           Row(a) == DsAt(dsHour, <<DsBack(a), key>>)
           None == [c \in DsColumns |-> 0]
<1>1. 0 \in S
  <2> DEFINE f == [age \in 0..0 |-> DsSum(Row(0), None)]
  <2>1. \A age \in 0..0 : age = 0
    OBVIOUS
  <2>2. f = [age \in 0..0 |-> DsSum(Row(age), IF age = 0 THEN None ELSE f[age - 1])]
    <3>1. \A age \in 0..0 : DsSum(Row(0), None) = DsSum(Row(age), IF age = 0 THEN None ELSE f[age - 1])
      BY <2>1
    <3>2. f = [age \in 0..0 |-> DsSum(Row(0), None)]
      OBVIOUS
    <3> HIDE DEF f, None, Row
    <3> QED BY <3>1, <3>2
  <2> HIDE DEF f
  <2> QED BY <2>2 DEF DsSums
<1>2. ASSUME NEW n \in S PROVE n + 1 \in S
  <2>1. PICK f : DsSums(f, key, n)
    OBVIOUS
  <2> DEFINE u == [a \in 0..n+1 |-> IF a = n + 1 THEN DsSum(Row(n + 1), f[n]) ELSE f[a]]
  <2>2. n \in Nat
    OBVIOUS
  <2>3. ASSUME NEW a \in 0..n+1
        PROVE  u[a] = DsSum(Row(a), IF a = 0 THEN None ELSE u[a - 1])
    <3>1. CASE a = n + 1
      <4>1. a - 1 = n /\ n \in 0..n+1 /\ n # n + 1 /\ a # 0
        BY <2>2, <3>1
      <4>2. u[a] = DsSum(Row(a), f[n]) /\ u[a - 1] = f[n]
        BY <3>1, <4>1
      <4> HIDE DEF u, Row, None
      <4> QED BY <4>1, <4>2
    <3>2. CASE a # n + 1 /\ a # 0
      <4>1. a \in 0..n /\ a - 1 \in 0..n+1 /\ a - 1 # n + 1
        BY <2>2, <3>2
      <4>2. f[a] = DsSum(Row(a), f[a - 1])
        <5> HIDE DEF u
        <5> QED BY <2>1, <3>2, <4>1, Zenon DEF DsSums
      <4>3. u[a] = f[a] /\ u[a - 1] = f[a - 1]
        BY <3>2, <4>1
      <4> HIDE DEF u, Row, None
      <4> QED BY <3>2, <4>2, <4>3
    <3>3. CASE a # n + 1 /\ a = 0
      <4>1. a \in 0..n
        BY <2>2, <3>3
      <4>2. f[a] = DsSum(Row(a), None)
        <5> HIDE DEF u
        <5> QED BY <2>1, <3>3, <4>1, Zenon DEF DsSums
      <4>3. u[a] = f[a]
        BY <3>3
      <4> HIDE DEF u, Row, None
      <4> QED BY <3>3, <4>2, <4>3
    <3> QED BY <3>1, <3>2, <3>3
  <2>4. u = [a \in 0..n+1 |-> u[a]]
    OBVIOUS
  <2>5. u = [a \in 0..n+1 |-> DsSum(Row(a), IF a = 0 THEN None ELSE u[a - 1])]
    <3> HIDE DEF u, Row, None
    <3> QED BY <2>3, <2>4, Zenon
  <2>6. n + 1 \in Nat
    BY <2>2
  <2> HIDE DEF u
  <2> QED BY <2>5, <2>6 DEF DsSums
<1>3. S \in SUBSET Nat
  OBVIOUS
<1>4. S = Nat
  <2> HIDE DEF S
  <2> QED BY <1>1, <1>2, <1>3, SeAllNumbers
<1> QED BY <1>4

(* DsSumSince is the last of them. *)
LEMMA DsSumLast ==
    ASSUME NEW key, NEW hours \in Nat
    PROVE  \E f : DsSums(f, key, hours) /\ DsSumSince(key, hours) = f[hours]
<1> DEFINE f == CHOOSE g : g = [age \in 0..hours |-> DsSum(DsAt(dsHour, <<DsBack(age), key>>),
                                    IF age = 0 THEN [c \in DsColumns |-> 0] ELSE g[age - 1])]
<1>1. \E g : DsSums(g, key, hours)
  BY DsSumsExist
<1>2. DsSums(f, key, hours)
  BY <1>1, Zenon DEF DsSums
<1>3. DsSumSince(key, hours) = f[hours]
  BY Zenon DEF DsSumSince
<1> QED
  <2> HIDE DEF f
  <2> QED BY <1>2, <1>3
------------------------------------------------------------------------------
(* Numbers and kinds of what is kept. *)
DsKinds ==
    /\ dsRetention \in DsRetentions /\ dsNow \in DsStart..(DsStart + MaxDsTime)
    /\ dsLeast \in Nat /\ dsLeast <= DsDetail(dsRetention) /\ dsWhole \in BOOLEAN
    /\ DOMAIN dsHour \subseteq (0..dsNow) \X DsKeys /\ DOMAIN dsLife \subseteq DsKeys
    /\ dsSeen \in Seq([e : DsEntries, hour : 0..dsNow]) /\ dsCounted \subseteq DOMAIN dsSeen

(* The hour begins after every window. *)
LEMMA DsNumbers ==
    DsKinds => /\ dsNow \in Nat /\ DsStart \in Nat /\ dsNow >= DsStart /\ dsRetention \in Nat
               /\ DsDetail(dsRetention) \in Nat \ {0} /\ DsDetail(dsRetention) <= DsMaxRetention
               /\ DsMaxRetention \in Nat \ {0} /\ DsTrend \in Nat /\ DsLogRetention \in Nat
               /\ DsMaxRetention + DsTrend + DsLogRetention <= dsNow
<1> SUFFICES ASSUME DsKinds
             PROVE  /\ dsNow \in Nat /\ DsStart \in Nat /\ dsNow >= DsStart /\ dsRetention \in Nat
                    /\ DsDetail(dsRetention) \in Nat \ {0} /\ DsDetail(dsRetention) <= DsMaxRetention
                    /\ DsMaxRetention \in Nat \ {0} /\ DsTrend \in Nat /\ DsLogRetention \in Nat
                    /\ DsMaxRetention + DsTrend + DsLogRetention <= dsNow
  OBVIOUS
<1>1. DsMaxRetention \in Nat \ {0} /\ DsTrend \in Nat /\ DsLogRetention \in Nat
  BY DsConstants DEF DsConstants
<1>2. dsRetention \in Nat /\ dsRetention <= DsMaxRetention
  BY DsConstants DEF DsConstants, DsKinds
<1>3. DsStart \in Nat /\ dsNow \in Int /\ dsNow >= DsStart
  <2>1. MaxDsTime \in Nat
    BY DsConstants DEF DsConstants
  <2> QED BY <1>1, <2>1 DEF DsKinds, DsStart
<1> QED BY <1>1, <1>2, <1>3 DEF DsDetail, DsStart

(* The entries seen are finitely many, each of an hour until now. *)
LEMMA DsSeenIs ==
    DsKinds => /\ Len(dsSeen) \in Nat /\ DOMAIN dsSeen = 1..Len(dsSeen)
               /\ \A i \in DOMAIN dsSeen : /\ dsSeen[i].e \in DsEntries
                                           /\ dsSeen[i].hour \in 0..dsNow
<1> DEFINE R == [e : DsEntries, hour : 0..dsNow]
<1> SUFFICES ASSUME DsKinds
             PROVE  /\ Len(dsSeen) \in Nat /\ DOMAIN dsSeen = 1..Len(dsSeen)
                    /\ \A i \in DOMAIN dsSeen : dsSeen[i].e \in DsEntries /\ dsSeen[i].hour \in 0..dsNow
  OBVIOUS
<1>1. dsSeen \in Seq(R)
  BY DEF DsKinds
<1>2. Len(dsSeen) \in Nat /\ DOMAIN dsSeen = 1..Len(dsSeen) /\ \A i \in DOMAIN dsSeen : dsSeen[i] \in R
  <2> HIDE DEF R
  <2> QED BY <1>1
<1>3. \A x \in R : x.e \in DsEntries /\ x.hour \in 0..dsNow
  OBVIOUS
<1> QED
  <2> HIDE DEF R
  <2> QED BY <1>2, <1>3

LEMMA DsFinite ==
    ASSUME DsKinds, NEW I, I \subseteq DOMAIN dsSeen
    PROVE  IsFiniteSet(I) /\ Cardinality(I) \in Nat
<1>1. Len(dsSeen) \in Nat /\ DOMAIN dsSeen = 1..Len(dsSeen)
  BY DsSeenIs
<1>2. IsFiniteSet(1..Len(dsSeen))
  BY <1>1, FS_Interval
<1> QED BY <1>1, <1>2, FS_Subset, FS_CardinalityType

(* The sum over the hours of a window counts the entries of the window.     *)
LEMMA DsSumIs ==
    ASSUME DsKinds, NEW key, NEW hours \in Nat,
           \A h \in (dsNow - hours)..dsNow : \A c \in DsColumns :
               DsAt(dsHour, <<h, key>>)[c] = Cardinality(DsHits(h, key, c))
    PROVE  /\ \A c \in DsColumns :
                 DsSumSince(key, hours)[c] = Cardinality(DsHitsIn(DsSince(DsBack(hours)), key, c))
           /\ DsSumSince(key, hours) = [c \in DsColumns |-> DsSumSince(key, hours)[c]]
<1> DEFINE Within(n, c) == DsHitsIn(DsSince(DsBack(n)), key, c)
<1>0. dsNow \in Nat
  BY DsNumbers
<1>1. PICK f : DsSums(f, key, hours) /\ DsSumSince(key, hours) = f[hours]
  BY DsSumLast
<1>2. \A n \in 0..hours :
         f[n] = DsSum(DsAt(dsHour, <<DsBack(n), key>>), IF n = 0 THEN [c \in DsColumns |-> 0] ELSE f[n - 1])
  BY <1>1, Zenon DEF DsSums
<1>3. \A n \in 0..hours : \A c \in DsColumns :
         f[n][c] = Cardinality(DsHits(dsNow - n, key, c)) + (IF n = 0 THEN 0 ELSE f[n - 1][c])
  <2> SUFFICES ASSUME NEW n \in 0..hours, NEW c \in DsColumns
               PROVE  f[n][c] = Cardinality(DsHits(dsNow - n, key, c)) + (IF n = 0 THEN 0 ELSE f[n - 1][c])
    OBVIOUS
  <2>1. dsNow - n \in (dsNow - hours)..dsNow
    BY <1>0
  <2>2. DsAt(dsHour, <<dsNow - n, key>>)[c] = Cardinality(DsHits(dsNow - n, key, c))
    BY <2>1
  <2>3. f[n][c] = DsAt(dsHour, <<dsNow - n, key>>)[c] + (IF n = 0 THEN [d \in DsColumns |-> 0] ELSE f[n - 1])[c]
    BY <1>2 DEF DsSum, DsBack
  <2> QED BY <2>2, <2>3
<1>4. \A n \in Nat : \A c \in DsColumns : DsHits(dsNow - n, key, c) \subseteq DOMAIN dsSeen /\ Within(n, c) \subseteq DOMAIN dsSeen
  BY DEF DsHits, DsHitsIn, DsSince
<1>5. \A c \in DsColumns : Within(0, c) = DsHits(dsNow - 0, key, c)
  <2> SUFFICES ASSUME NEW c \in DsColumns PROVE Within(0, c) = DsHits(dsNow - 0, key, c)
    OBVIOUS
  <2>1. \A i \in DOMAIN dsSeen : dsSeen[i].hour \in 0..dsNow
    BY DsSeenIs
  <2>2. \A i \in DOMAIN dsSeen : dsSeen[i].hour >= dsNow - 0 <=> dsSeen[i].hour = dsNow - 0
    BY <1>0, <2>1
  <2> QED BY <2>2 DEF DsHitsIn, DsHits, DsSince, DsBack
<1>6. ASSUME NEW n \in Nat, NEW c \in DsColumns
      PROVE  Cardinality(Within(n + 1, c)) = Cardinality(DsHits(dsNow - (n + 1), key, c)) + Cardinality(Within(n, c))
  <2>1. \A i \in DOMAIN dsSeen : dsSeen[i].hour \in 0..dsNow
    BY DsSeenIs
  <2>2. \A i \in DOMAIN dsSeen :
           /\ dsSeen[i].hour >= dsNow - (n + 1) <=> dsSeen[i].hour >= dsNow - n \/ dsSeen[i].hour = dsNow - (n + 1)
           /\ ~(dsSeen[i].hour >= dsNow - n /\ dsSeen[i].hour = dsNow - (n + 1))
    BY <1>0, <2>1
  <2>3. Within(n + 1, c) = Within(n, c) \cup DsHits(dsNow - (n + 1), key, c)
    BY <2>2 DEF DsHitsIn, DsHits, DsSince, DsBack
  <2>4. Within(n, c) \cap DsHits(dsNow - (n + 1), key, c) = {}
    BY <2>2 DEF DsHitsIn, DsHits, DsSince, DsBack
  <2>5. Within(n, c) \subseteq DOMAIN dsSeen /\ DsHits(dsNow - (n + 1), key, c) \subseteq DOMAIN dsSeen
    BY <1>4
  <2>6. /\ IsFiniteSet(Within(n, c)) /\ IsFiniteSet(DsHits(dsNow - (n + 1), key, c))
        /\ Cardinality(Within(n, c)) \in Nat /\ Cardinality(DsHits(dsNow - (n + 1), key, c)) \in Nat
    BY <2>5, DsFinite
  <2> DEFINE W == Within(n, c)  H == DsHits(dsNow - (n + 1), key, c)  V == Within(n + 1, c)
  <2>7. /\ V = W \cup H /\ W \cap H = {} /\ IsFiniteSet(W) /\ IsFiniteSet(H)
        /\ Cardinality(W) \in Nat /\ Cardinality(H) \in Nat
    BY <2>3, <2>4, <2>6
  <2>8. Cardinality(V) = Cardinality(H) + Cardinality(W)
    <3> HIDE DEF V, W, H
    <3>1. Cardinality(W \cup H) = Cardinality(W) + Cardinality(H) - Cardinality(W \cap H)
      BY <2>7, FS_Union
    <3>2. Cardinality(W \cap H) = 0
      BY <2>7, FS_EmptySet
    <3> QED BY <2>7, <3>1, <3>2
  <2> QED BY <2>8
<1> DEFINE S == {n \in Nat : n <= hours => \A c \in DsColumns : f[n][c] = Cardinality(Within(n, c))}
<1>7. 0 \in S
  <2> SUFFICES ASSUME NEW c \in DsColumns PROVE f[0][c] = Cardinality(Within(0, c))
    OBVIOUS
  <2>1. f[0][c] = Cardinality(DsHits(dsNow - 0, key, c)) + 0
    BY <1>3
  <2>2. Within(0, c) \subseteq DOMAIN dsSeen
    BY <1>4
  <2>3. Cardinality(Within(0, c)) \in Nat
    <3> HIDE DEF Within
    <3> QED BY <2>2, DsFinite
  <2>4. f[0][c] = Cardinality(Within(0, c)) + 0
    <3> HIDE DEF Within
    <3> QED BY <2>1, <1>5
  <2> HIDE DEF Within
  <2> QED BY <2>3, <2>4
<1>8. ASSUME NEW n \in S PROVE n + 1 \in S
  <2> SUFFICES ASSUME n + 1 <= hours, NEW c \in DsColumns PROVE f[n + 1][c] = Cardinality(Within(n + 1, c))
    BY <1>0
  <2>1. n \in Nat /\ n + 1 \in 0..hours /\ n <= hours /\ n + 1 # 0 /\ (n + 1) - 1 = n
    OBVIOUS
  <2>2. f[n][c] = Cardinality(Within(n, c))
    BY <2>1
  <2>3. f[n + 1][c] = Cardinality(DsHits(dsNow - (n + 1), key, c)) + f[(n + 1) - 1][c]
    BY <1>3, <2>1
  <2>4. (n + 1) - 1 = n
    BY <2>1
  <2>5. Cardinality(Within(n + 1, c)) = Cardinality(DsHits(dsNow - (n + 1), key, c)) + Cardinality(Within(n, c))
    BY <1>6, <2>1
  <2> HIDE DEF Within
  <2> QED BY <2>2, <2>3, <2>4, <2>5
<1>9. S \in SUBSET Nat
  OBVIOUS
<1>10. S = Nat
  <2> HIDE DEF S
  <2> QED BY <1>7, <1>8, <1>9, SeAllNumbers
<1>11. \A c \in DsColumns : f[hours][c] = Cardinality(Within(hours, c))
  <2>1. hours \in S
    <3> HIDE DEF S
    <3> QED BY <1>10
  <2> QED BY <2>1
<1>12. f[hours] = [c \in DsColumns |-> f[hours][c]]
  <2>1. hours \in 0..hours
    OBVIOUS
  <2>2. PICK a, b : f[hours] = DsSum(a, b)
    BY <1>2, <2>1
  <2> QED BY <2>2 DEF DsSum
<1> QED BY <1>1, <1>11, <1>12

(* One entry more. *)
LEMMA DsCountNext ==
    ASSUME DsKinds, NEW S, NEW T, S \subseteq DOMAIN dsSeen, NEW one \in BOOLEAN,
           T = S \cup (IF one THEN {Len(dsSeen) + 1} ELSE {})
    PROVE  Cardinality(T) = Cardinality(S) + (IF one THEN 1 ELSE 0)
<1>1. IsFiniteSet(S) /\ Cardinality(S) \in Nat
  BY DsFinite
<1>2. Len(dsSeen) + 1 \notin S
  BY DsSeenIs
<1>3. Cardinality(S \cup {Len(dsSeen) + 1}) = Cardinality(S) + 1
  BY <1>1, <1>2, FS_AddElement
<1>4. CASE one
  BY <1>3, <1>4
<1>5. CASE ~one
  <2>1. T = S
    BY <1>5
  <2> QED BY <1>1, <1>5, <2>1
<1> QED BY <1>4, <1>5

(* An entry counts in known keys only. *)
LEMMA DsKnown == \A e \in DsEntries : DsKeysOf(e) \subseteq DsKeys
  BY DEF DsKeys

------------------------------------------------------------------------------
(* The hourly rows of the hours that are whole count the entries of their   *)
(* hour.                                                                     *)
DsHourExact ==
    \A h \in Int : \A key : DsSafe(h, key) =>
        \A c \in DsColumns : DsAt(dsHour, <<h, key>>)[c] = Cardinality(DsHits(h, key, c))
(* The lifetime rows count those they stand for, except their bytes. *)
DsLifeExact ==
    dsWhole => \A key : \A c \in DsColumns \ {"bytes"} :
        DsAt(dsLife, key)[c] = Cardinality(DsHitsIn(dsCounted, key, c))

(* What an entry adds to those seen. *)
LEMMA DsSeenNext ==
    ASSUME DsKinds, NEW e, dsSeen' = Append(dsSeen, [e |-> e, hour |-> dsNow])
    PROVE  /\ DOMAIN dsSeen' = DOMAIN dsSeen \cup {Len(dsSeen) + 1} /\ Len(dsSeen) + 1 \notin DOMAIN dsSeen
           /\ \A i \in DOMAIN dsSeen : dsSeen'[i] = dsSeen[i]
           /\ dsSeen'[Len(dsSeen) + 1].e = e /\ dsSeen'[Len(dsSeen) + 1].hour = dsNow
<1>1. PICK R : dsSeen \in Seq(R)
  BY DEF DsKinds
<1>2. Len(dsSeen) \in Nat /\ DOMAIN dsSeen = 1..Len(dsSeen)
  BY DsSeenIs
<1>3. PICK x : x = [e |-> e, hour |-> dsNow]
  OBVIOUS
<1>4. dsSeen' = Append(dsSeen, x)
  BY <1>3
<1>5. /\ DOMAIN dsSeen' = 1..(Len(dsSeen) + 1) /\ dsSeen'[Len(dsSeen) + 1] = x
      /\ \A i \in 1..Len(dsSeen) : dsSeen'[i] = dsSeen[i]
  BY <1>1, <1>4
<1>6. x.e = e /\ x.hour = dsNow
  BY <1>3
<1> QED BY <1>2, <1>5, <1>6

LEMMA DsHitsNext ==
    ASSUME DsKinds, NEW e, dsSeen' = Append(dsSeen, [e |-> e, hour |-> dsNow])
    PROVE  \A h, key, c : DsHits(h, key, c)' =
               DsHits(h, key, c) \cup (IF h = dsNow /\ DsAdds(e, key, c) THEN {Len(dsSeen) + 1} ELSE {})
<1> SUFFICES ASSUME NEW h, NEW key, NEW c
             PROVE  DsHits(h, key, c)' =
               DsHits(h, key, c) \cup (IF h = dsNow /\ DsAdds(e, key, c) THEN {Len(dsSeen) + 1} ELSE {})
  OBVIOUS
<1> DEFINE n == Len(dsSeen) + 1
<1>1. /\ DOMAIN dsSeen' = DOMAIN dsSeen \cup {n} /\ n \notin DOMAIN dsSeen
      /\ \A i \in DOMAIN dsSeen : dsSeen'[i] = dsSeen[i]
      /\ dsSeen'[n].e = e /\ dsSeen'[n].hour = dsNow
  BY DsSeenNext
<1>2. DsHits(h, key, c)' = {i \in DOMAIN dsSeen' : dsSeen'[i].hour = h /\ DsAdds(dsSeen'[i].e, key, c)}
  BY DEF DsHits, DsAdds
<1> HIDE DEF n
<1>3. \A i : i \in DsHits(h, key, c)' <=> i \in DsHits(h, key, c) \/ (i = n /\ h = dsNow /\ DsAdds(e, key, c))
  BY <1>1, <1>2 DEF DsHits
<1> QED BY <1>3 DEF n

LEMMA DsHitsCounted ==
    ASSUME DsKinds, NEW e, dsSeen' = Append(dsSeen, [e |-> e, hour |-> dsNow]),
           NEW one \in BOOLEAN, dsCounted' = dsCounted \cup (IF one THEN {Len(dsSeen) + 1} ELSE {})
    PROVE  \A key, c : DsHitsIn(dsCounted, key, c)' =
               DsHitsIn(dsCounted, key, c) \cup (IF one /\ DsAdds(e, key, c) THEN {Len(dsSeen) + 1} ELSE {})
<1> SUFFICES ASSUME NEW key, NEW c
             PROVE  DsHitsIn(dsCounted, key, c)' =
               DsHitsIn(dsCounted, key, c) \cup (IF one /\ DsAdds(e, key, c) THEN {Len(dsSeen) + 1} ELSE {})
  OBVIOUS
<1> DEFINE n == Len(dsSeen) + 1
<1>1. /\ n \notin DOMAIN dsSeen /\ dsSeen'[n].e = e
      /\ \A i \in DOMAIN dsSeen : dsSeen'[i] = dsSeen[i]
  BY DsSeenNext
<1>2. dsCounted \subseteq DOMAIN dsSeen
  BY DEF DsKinds
<1>3. DsHitsIn(dsCounted, key, c)' = {i \in dsCounted' : DsAdds(dsSeen'[i].e, key, c)}
  BY DEF DsHitsIn, DsAdds
<1> HIDE DEF n
<1>4. \A i : i \in dsCounted' <=> i \in dsCounted \/ (one /\ i = n)
  BY DEF n
<1>5. \A i : i \in DsHitsIn(dsCounted, key, c)' <=> i \in DsHitsIn(dsCounted, key, c) \/ (one /\ i = n /\ DsAdds(e, key, c))
  BY <1>1, <1>2, <1>3, <1>4 DEF DsHitsIn
<1> QED BY <1>5 DEF n

(* A batch keeps both. *)
LEMMA DsInsertKeeps ==
    ASSUME DsKinds, DsHourExact, DsLifeExact, NEW e \in DsEntries, DsInsert(e)
    PROVE  DsHourExact' /\ DsLifeExact'
<1>1. CASE ~e.statistics
  <2>1. UNCHANGED <<dsHour, dsLife, dsSeen, dsCounted, dsNow, dsLeast, dsWhole>>
    BY <1>1 DEF DsInsert
  <2>2. DsHourExact'
    BY <2>1 DEF DsHourExact, DsSafe, DsHits
  <2>3. DsLifeExact'
    BY <2>1 DEF DsLifeExact, DsHitsIn
  <2> QED BY <2>2, <2>3
<1>2. CASE e.statistics
  <2>1. /\ dsHour' = DsCountIn(dsHour, DsOfHour(DsDeltas(e)))
        /\ dsSeen' = Append(dsSeen, [e |-> e, hour |-> dsNow])
        /\ dsLife' = IF dsRetention = 0 THEN DsCountIn(dsLife, DsDeltas(e)) ELSE dsLife
        /\ dsCounted' = IF dsRetention = 0 THEN dsCounted \cup {Len(dsSeen) + 1} ELSE dsCounted
        /\ UNCHANGED <<dsNow, dsLeast, dsWhole>>
    BY <1>2 DEF DsInsert
  <2>2. ASSUME NEW h \in Int, NEW key, DsSafe(h, key)', NEW c \in DsColumns
        PROVE  DsAt(dsHour', <<h, key>>)[c] = Cardinality(DsHits(h, key, c)')
    <3> DEFINE one == h = dsNow /\ DsAdds(e, key, c)
    <3>1. DsSafe(h, key)
      BY <2>1, <2>2 DEF DsSafe
    <3>2. DsAt(dsHour, <<h, key>>)[c] = Cardinality(DsHits(h, key, c))
      BY <3>1 DEF DsHourExact
    <3>3. DsAt(dsHour', <<h, key>>)[c] = DsAt(dsHour, <<h, key>>)[c] + DsAt(DsOfHour(DsDeltas(e)), <<h, key>>)[c]
      BY <2>1, DsCountInIs
    <3>4. DsAt(DsOfHour(DsDeltas(e)), <<h, key>>)[c] = IF one THEN 1 ELSE 0
      <4>1. DsAt(DsOfHour(DsDeltas(e)), <<h, key>>) =
               IF h = dsNow THEN DsAt(DsDeltas(e), key) ELSE [d \in DsColumns |-> 0]
        BY DsOfHourIs
      <4>2. DsAt(DsDeltas(e), key)[c] = IF DsAdds(e, key, c) THEN 1 ELSE 0
        BY DsDeltaIs
      <4> QED BY <4>1, <4>2
    <3>5. DsHits(h, key, c)' = DsHits(h, key, c) \cup (IF one THEN {Len(dsSeen) + 1} ELSE {})
      BY <2>1, DsHitsNext
    <3>6. DsHits(h, key, c) \subseteq DOMAIN dsSeen /\ one \in BOOLEAN
      BY DEF DsHits
    <3>7. \A T : T = DsHits(h, key, c) \cup (IF one THEN {Len(dsSeen) + 1} ELSE {}) =>
             Cardinality(T) = Cardinality(DsHits(h, key, c)) + (IF one THEN 1 ELSE 0)
      <4> HIDE DEF one
      <4> QED BY <3>6, DsCountNext
    <3> HIDE DEF one
    <3>8. Cardinality(DsHits(h, key, c)') = Cardinality(DsHits(h, key, c)) + (IF one THEN 1 ELSE 0)
      BY <3>5, <3>7
    <3> QED BY <3>2, <3>3, <3>4, <3>8
  <2>3. DsHourExact'
    BY <2>2 DEF DsHourExact
  <2>4. ASSUME dsWhole, NEW key, NEW c \in DsColumns \ {"bytes"}
        PROVE  DsAt(dsLife', key)[c] = Cardinality(DsHitsIn(dsCounted, key, c)')
    <3> DEFINE kept == dsRetention = 0
               one == kept /\ DsAdds(e, key, c)
    <3>1. DsAt(dsLife, key)[c] = Cardinality(DsHitsIn(dsCounted, key, c))
      BY <2>4 DEF DsLifeExact
    <3>2. dsCounted' = dsCounted \cup (IF kept THEN {Len(dsSeen) + 1} ELSE {})
      BY <2>1
    <3>3. DsHitsIn(dsCounted, key, c)' = DsHitsIn(dsCounted, key, c) \cup (IF one THEN {Len(dsSeen) + 1} ELSE {})
      <4>1. kept \in BOOLEAN
        OBVIOUS
      <4> HIDE DEF kept
      <4> QED BY <2>1, <3>2, <4>1, DsHitsCounted
    <3>4. DsHitsIn(dsCounted, key, c) \subseteq DOMAIN dsSeen /\ one \in BOOLEAN
      BY DEF DsHitsIn, DsKinds
    <3>5. \A T : T = DsHitsIn(dsCounted, key, c) \cup (IF one THEN {Len(dsSeen) + 1} ELSE {}) =>
             Cardinality(T) = Cardinality(DsHitsIn(dsCounted, key, c)) + (IF one THEN 1 ELSE 0)
      <4> HIDE DEF one
      <4> QED BY <3>4, DsCountNext
    <3>6. Cardinality(DsHitsIn(dsCounted, key, c)') = Cardinality(DsHitsIn(dsCounted, key, c)) + (IF one THEN 1 ELSE 0)
      <4> HIDE DEF one
      <4> QED BY <3>3, <3>5
    <3>7. DsAt(dsLife', key)[c] = DsAt(dsLife, key)[c] + (IF one THEN 1 ELSE 0)
      <4>1. CASE kept
        <5>1. DsAt(dsLife', key)[c] = DsAt(dsLife, key)[c] + DsAt(DsDeltas(e), key)[c]
          BY <2>1, <4>1, DsCountInIs
        <5>2. DsAt(DsDeltas(e), key)[c] = IF DsAdds(e, key, c) THEN 1 ELSE 0
          BY DsDeltaIs
        <5> QED BY <4>1, <5>1, <5>2
      <4>2. CASE ~kept
        <5>1. DsAt(dsLife, key)[c] \in Nat
          BY <3>1, <3>4, DsFinite
        <5> QED BY <2>1, <4>2, <5>1
      <4> QED BY <4>1, <4>2
    <3> HIDE DEF one
    <3> QED BY <3>1, <3>6, <3>7
  <2>5. DsLifeExact'
    BY <2>1, <2>4 DEF DsLifeExact
  <2> QED BY <2>3, <2>5
<1> QED BY <1>1, <1>2, DsConstants DEF DsConstants

(* A key that an entry of a whole window counts in has a row in it. *)
LEMMA DsKeyFound ==
    ASSUME DsKinds, NEW key, NEW hours \in Nat, NEW c \in DsColumns,
           \A h \in (dsNow - hours)..dsNow : \A d \in DsColumns :
               DsAt(dsHour, <<h, key>>)[d] = Cardinality(DsHits(h, key, d)),
           NEW i \in DsHitsIn(DsSince(DsBack(hours)), key, c)
    PROVE  key \in DsKeysSince(hours)
<1>0. dsNow \in Nat
  BY DsNumbers
<1>1. i \in DOMAIN dsSeen /\ dsSeen[i].hour >= dsNow - hours /\ DsAdds(dsSeen[i].e, key, c)
  BY DEF DsHitsIn, DsSince, DsBack
<1>2. PICK h : h = dsSeen[i].hour
  OBVIOUS
<1>3. h \in 0..dsNow /\ h >= dsNow - hours
  BY <1>1, <1>2, DsSeenIs
<1>4. h \in (dsNow - hours)..dsNow
  BY <1>0, <1>3
<1>5. i \in DsHits(h, key, c) /\ DsHits(h, key, c) \subseteq DOMAIN dsSeen
  BY <1>1, <1>2 DEF DsHits
<1>6. Cardinality(DsHits(h, key, c)) # 0
  <2>1. IsFiniteSet(DsHits(h, key, c))
    BY <1>5, DsFinite
  <2> QED BY <1>5, <2>1, FS_EmptySet
<1>7. DsAt(dsHour, <<h, key>>)[c] # 0
  BY <1>4, <1>6
<1>8. <<h, key>> \in DOMAIN dsHour
  BY <1>7 DEF DsAt
<1> QED BY <1>3, <1>8 DEF DsKeysSince, DsBack

(* The rows of a window that was never kept shorter are whole. *)
LEMMA DsWindowWhole ==
    ASSUME DsKinds, DsHourExact, NEW hours \in Nat, NEW key,
           hours <= dsLeast \/ (key = DsTotalKey /\ hours = DsTrend)
    PROVE  \A h \in (dsNow - hours)..dsNow : \A c \in DsColumns :
               DsAt(dsHour, <<h, key>>)[c] = Cardinality(DsHits(h, key, c))
<1> SUFFICES ASSUME NEW h \in (dsNow - hours)..dsNow
             PROVE  \A c \in DsColumns : DsAt(dsHour, <<h, key>>)[c] = Cardinality(DsHits(h, key, c))
  OBVIOUS
<1>1. dsNow \in Nat /\ dsLeast \in Nat /\ DsTrend \in Nat
  BY DsNumbers DEF DsKinds
<1>2. h \in Int /\ h >= dsNow - hours
  BY <1>1
<1>3. hours <= dsLeast => h >= dsNow - dsLeast
  BY <1>1, <1>2
<1>4. DsSafe(h, key)
  BY <1>2, <1>3 DEF DsSafe
<1> QED BY <1>2, <1>4 DEF DsHourExact

(* A change of the retention keeps both. *)
LEMMA DsSaveKeeps ==
    ASSUME DsKinds, DsHourExact, DsLifeExact, NEW r \in DsRetentions, DsSaveConfig(r)
    PROVE  DsHourExact' /\ DsLifeExact'
<1>1. dsNow \in Nat /\ dsLeast \in Nat /\ dsRetention \in Nat /\ DsDetail(r) \in Nat
  <2>1. dsNow \in Nat /\ dsRetention \in Nat
    BY DsNumbers
  <2>2. r \in Nat /\ DsMaxRetention \in Nat
    BY DsConstants DEF DsConstants
  <2> QED BY <2>1, <2>2 DEF DsDetail, DsKinds
<1>2. UNCHANGED <<dsHour, dsSeen, dsNow>> /\ dsLeast' = IF DsDetail(r) < dsLeast THEN DsDetail(r) ELSE dsLeast
  BY DEF DsSaveConfig
<1>3. dsLeast' \in Nat /\ dsLeast' <= dsLeast
  BY <1>1, <1>2
<1>4. DsHourExact'
  <2>1. \A h \in Int : \A key : DsSafe(h, key)' => DsSafe(h, key)
    BY <1>1, <1>2, <1>3 DEF DsSafe
  <2>2. \A h, key, c : DsHits(h, key, c)' = DsHits(h, key, c)
    BY <1>2 DEF DsHits
  <2> QED BY <1>2, <2>1, <2>2 DEF DsHourExact
<1>5. CASE r = 0 /\ dsRetention # 0
  <2>1. /\ dsLife' = DsRebuilt(dsRetention) /\ dsCounted' = DsSince(DsBack(dsRetention))
        /\ dsWhole' = (dsRetention <= dsLeast)
    BY <1>5 DEF DsSaveConfig, DsSince
  <2>2. ASSUME dsWhole', NEW key, NEW c \in DsColumns \ {"bytes"}
        PROVE  DsAt(dsLife', key)[c] = Cardinality(DsHitsIn(dsCounted, key, c)')
    <3>1. DsHitsIn(dsCounted, key, c)' = DsHitsIn(DsSince(DsBack(dsRetention)), key, c)
      BY <1>2, <2>1 DEF DsHitsIn
    <3>2. \A h \in (dsNow - dsRetention)..dsNow : \A d \in DsColumns :
             DsAt(dsHour, <<h, key>>)[d] = Cardinality(DsHits(h, key, d))
      <4>1. dsRetention <= dsLeast
        BY <2>1, <2>2, Zenon
      <4> QED BY <1>1, <4>1, DsWindowWhole
    <3>3. DsSumSince(key, dsRetention)[c] = Cardinality(DsHitsIn(DsSince(DsBack(dsRetention)), key, c))
      BY <1>1, <3>2, DsSumIs
    <3>4. DsSumSince(key, dsRetention) = [d \in DsColumns |-> DsSumSince(key, dsRetention)[d]]
      BY <1>1, <3>2, DsSumIs
    <3>5. CASE key \in DsKeysSince(dsRetention)
      <4>1. key \in DOMAIN dsLife' /\ dsLife'[key] = [DsSumSince(key, dsRetention) EXCEPT !.bytes = 0]
        BY <2>1, <3>5 DEF DsRebuilt
      <4>2. dsLife'[key][c] = DsSumSince(key, dsRetention)[c]
        <5>1. PICK f : f = DsSumSince(key, dsRetention)
          OBVIOUS
        <5>2. f = [d \in DsColumns |-> f[d]] /\ dsLife'[key] = [f EXCEPT !.bytes = 0]
          BY <3>4, <4>1, <5>1
        <5>3. [f EXCEPT !["bytes"] = 0][c] = f[c]
          BY <5>2
        <5> QED BY <5>1, <5>2, <5>3
      <4> QED BY <3>1, <3>3, <4>1, <4>2 DEF DsAt
    <3>6. CASE key \notin DsKeysSince(dsRetention)
      <4>1. DsHitsIn(DsSince(DsBack(dsRetention)), key, c) = {}
        BY <1>1, <3>2, <3>6, DsKeyFound
      <4>2. DsAt(dsLife', key)[c] = 0
        BY <2>1, <3>6 DEF DsRebuilt, DsAt
      <4> QED BY <3>1, <4>1, <4>2, FS_EmptySet
    <3> QED BY <3>5, <3>6
  <2>3. DsLifeExact'
    BY <2>2 DEF DsLifeExact
  <2> QED BY <1>4, <2>3
<1>6. CASE ~(r = 0 /\ dsRetention # 0)
  <2>1. UNCHANGED <<dsLife, dsCounted, dsWhole, dsSeen>>
    BY <1>2, <1>6 DEF DsSaveConfig
  <2>2. DsLifeExact'
    BY <2>1 DEF DsLifeExact, DsHitsIn
  <2> QED BY <1>4, <2>2
<1> QED BY <1>5, <1>6

(* Pruning takes no row of an hour that is whole. *)
LEMMA DsPruneKeeps ==
    ASSUME DsKinds, DsHourExact, DsLifeExact, DsPrune
    PROVE  DsHourExact' /\ DsLifeExact'
<1>1. UNCHANGED <<dsLife, dsSeen, dsCounted, dsNow, dsLeast, dsWhole>>
  BY DEF DsPrune, dsGhost
<1>2. dsHour' = [row \in {x \in DOMAIN dsHour : DsKept(x)} |-> dsHour[row]]
  BY DEF DsPrune
<1>3. ASSUME NEW h \in Int, NEW key, DsSafe(h, key)
      PROVE  DsAt(dsHour', <<h, key>>) = DsAt(dsHour, <<h, key>>)
  <2>1. <<h, key>>[1] = h /\ <<h, key>>[2] = key
    OBVIOUS
  <2>2. dsNow \in Nat /\ dsLeast \in Nat /\ DsDetail(dsRetention) \in Nat /\ dsLeast <= DsDetail(dsRetention) /\ DsTrend \in Nat
    BY DsNumbers DEF DsKinds
  <2>3. h >= dsNow - dsLeast => h >= DsDetailSince /\ h >= DsTotalSince
    BY <2>2 DEF DsDetailSince, DsTotalSince, DsBack
  <2>4. h >= dsNow - DsTrend => h >= DsTotalSince
    BY <2>2 DEF DsDetailSince, DsTotalSince, DsBack
  <2>5. key = DsTotalKey => key[1] = "total"
    <3>1. <<"total", "">>[1] = "total"
      OBVIOUS
    <3> QED BY <3>1, Zenon DEF DsTotalKey
  <2>6. DsKept(<<h, key>>)
    BY <1>3, <2>1, <2>3, <2>4, <2>5 DEF DsKept, DsSafe
  <2>7. <<h, key>> \in DOMAIN dsHour' <=> <<h, key>> \in DOMAIN dsHour
    BY <1>2, <2>6
  <2>8. <<h, key>> \in DOMAIN dsHour => dsHour'[<<h, key>>] = dsHour[<<h, key>>]
    BY <1>2, <2>6
  <2> QED BY <2>7, <2>8 DEF DsAt
<1>4. DsHourExact'
  <2>1. ASSUME NEW h \in Int, NEW key, DsSafe(h, key)', NEW c \in DsColumns
        PROVE  DsAt(dsHour', <<h, key>>)[c] = Cardinality(DsHits(h, key, c)')
    <3>1. DsSafe(h, key)
      BY <1>1, <2>1 DEF DsSafe
    <3>2. DsAt(dsHour', <<h, key>>) = DsAt(dsHour, <<h, key>>)
      BY <1>3, <3>1
    <3>3. DsAt(dsHour, <<h, key>>)[c] = Cardinality(DsHits(h, key, c))
      BY <3>1 DEF DsHourExact
    <3>4. DsHits(h, key, c)' = DsHits(h, key, c)
      BY <1>1 DEF DsHits
    <3> QED BY <3>2, <3>3, <3>4
  <2> QED BY <2>1 DEF DsHourExact
<1>5. DsLifeExact'
  BY <1>1 DEF DsLifeExact, DsHitsIn
<1> QED BY <1>4, <1>5

(* After a clearing nothing is counted, and no entry is left to count. *)
LEMMA DsClearKeeps ==
    ASSUME DsClearStatistics
    PROVE  DsHourExact' /\ DsLifeExact'
<1>1. dsHour' = DsEmpty /\ dsLife' = DsEmpty /\ dsSeen' = <<>> /\ dsCounted' = {}
  BY DEF DsClearStatistics
<1>2. \A row : \A c \in DsColumns : DsAt(DsEmpty, row)[c] = 0
  BY DEF DsEmpty, DsAt
<1>3. \A h, key, c : DsHits(h, key, c)' = {} /\ DsHitsIn(dsCounted, key, c)' = {}
  BY <1>1 DEF DsHits, DsHitsIn
<1>4. Cardinality({}) = 0
  BY FS_EmptySet
<1> QED BY <1>1, <1>2, <1>3, <1>4 DEF DsHourExact, DsLifeExact

(* The hour that begins has no rows and no entries. *)
LEMMA DsTickKeeps ==
    ASSUME DsKinds, DsHourExact, DsLifeExact, DsTick
    PROVE  DsHourExact' /\ DsLifeExact'
<1>1. dsNow' = dsNow + 1 /\ UNCHANGED <<dsHour, dsLife, dsSeen, dsCounted, dsLeast, dsWhole>>
  BY DEF DsTick, dsTables, dsGhost
<1>2. dsNow \in Nat /\ dsLeast \in Nat /\ DsTrend \in Nat
  BY DsNumbers DEF DsKinds
<1>3. \A h \in Int : \A key : DsSafe(h, key)' => DsSafe(h, key)
  BY <1>1, <1>2 DEF DsSafe
<1>4. \A h, key, c : DsHits(h, key, c)' = DsHits(h, key, c)
  BY <1>1 DEF DsHits
<1>5. DsHourExact'
  BY <1>1, <1>3, <1>4 DEF DsHourExact
<1>6. DsLifeExact'
  BY <1>1 DEF DsLifeExact, DsHitsIn
<1> QED BY <1>5, <1>6

------------------------------------------------------------------------------
(* The ids of the log follow the clock. *)
DsLogOrdered ==
    /\ dsNextId \in Nat \ {0}
    /\ \A row \in dsLog : row.id \in 1..(dsNextId - 1) /\ row.at \in 0..dsNow
    /\ \A a, b \in dsLog : (a.id = b.id => a = b) /\ (a.id < b.id => a.at <= b.at)

(* A place in the log, between what is older and what is newer. *)
DsCursorAt(cursor) ==
    /\ cursor # <<>> /\ cursor[1] \in 0..dsNow /\ cursor[2] \in 1..(dsNextId - 1)
    /\ \A row \in dsLog : /\ row.id > cursor[2] => row.at >= cursor[1]
                          /\ row.id < cursor[2] => row.at <= cursor[1]
                          /\ row.id = cursor[2] => row.at = cursor[1]
DsOnwards(sort, a, b) == IF sort = "oldest" THEN a < b ELSE a > b

(* Someone reading has got ids in order, and knows no later ones. *)
DsReader(rd) ==
    /\ DOMAIN rd = {"sort", "cursor", "got", "wanted", "done"}
    /\ rd.sort \in {"newest", "oldest"} /\ rd.done \in BOOLEAN
    /\ rd.got \in Seq(Int) /\ \A i \in DOMAIN rd.got : rd.got[i] \in 1..(dsNextId - 1)
    /\ \A id \in rd.wanted : id \in 1..(dsNextId - 1)
    /\ \A i, j \in DOMAIN rd.got : i < j => DsOnwards(rd.sort, rd.got[i], rd.got[j])

(* The next page begins behind all that was got, and whoever reads on will  *)
(* come to what was wanted.                                                  *)
DsReadable(rd) ==
    /\ DsReader(rd)
    /\ rd.cursor = <<>> => rd.got = <<>>
    /\ rd.cursor # <<>> => DsCursorAt(rd.cursor)
    /\ rd.cursor # <<>> => \A i \in DOMAIN rd.got : ~DsOnwards(rd.sort, rd.cursor[2], rd.got[i])
    /\ \A row \in DsVisible : row.id \in rd.wanted =>
          row.id \in Range(rd.got) \/ DsAfter(row, rd.sort, rd.cursor)
DsReadToEnd(rd) == DsReader(rd) /\ \A row \in DsVisible : row.id \in rd.wanted => row.id \in Range(rd.got)
DsReads == dsReader = DsNobody \/ (IF dsReader.done THEN DsReadToEnd(dsReader) ELSE DsReadable(dsReader))

(* By time and id is by id. *)
LEMMA DsAfterIs ==
    ASSUME DsKinds, DsLogOrdered, NEW cursor, DsCursorAt(cursor), NEW row \in dsLog, NEW sort \in {"newest", "oldest"}
    PROVE  DsAfter(row, sort, cursor) <=> DsOnwards(sort, cursor[2], row.id)
<1>1. /\ row.id \in Nat /\ row.at \in Nat /\ cursor[1] \in Nat /\ cursor[2] \in Nat /\ cursor # <<>>
  <2>1. dsNow \in Nat /\ dsNextId \in Nat
    BY DsNumbers DEF DsLogOrdered
  <2>2. row.id \in 1..(dsNextId - 1) /\ row.at \in 0..dsNow
    BY DEF DsLogOrdered
  <2>3. cursor # <<>> /\ cursor[1] \in 0..dsNow /\ cursor[2] \in 1..(dsNextId - 1)
    BY DEF DsCursorAt
  <2> QED BY <2>1, <2>2, <2>3
<1>2. /\ row.id > cursor[2] => row.at >= cursor[1]
      /\ row.id < cursor[2] => row.at <= cursor[1]
      /\ row.id = cursor[2] => row.at = cursor[1]
  BY DEF DsCursorAt
<1> QED BY <1>1, <1>2 DEF DsAfter, DsOnwards

(* Every row is such a place. *)
LEMMA DsRowPlace ==
    ASSUME DsKinds, DsLogOrdered, NEW row \in dsLog
    PROVE  DsCursorAt(DsCursor(row)) /\ DsCursor(row)[2] = row.id
<1>1. PICK c : c = <<row.at, row.id>>
  OBVIOUS
<1>2. c # <<>> /\ c[1] = row.at /\ c[2] = row.id
  BY <1>1
<1>3. c[1] \in 0..dsNow /\ c[2] \in 1..(dsNextId - 1)
  BY <1>2 DEF DsLogOrdered
<1>4. \A other \in dsLog : /\ other.id > row.id => other.at >= row.at
                           /\ other.id < row.id => other.at <= row.at
                           /\ other.id = row.id => other.at = row.at
  <2>1. \A other \in dsLog : other.id \in Nat /\ other.at \in Nat
    BY DsNumbers DEF DsLogOrdered
  <2> QED BY <2>1 DEF DsLogOrdered
<1>5. DsCursorAt(c)
  BY <1>2, <1>3, <1>4 DEF DsCursorAt
<1> QED BY <1>1, <1>2, <1>5 DEF DsCursor

(* A page goes on in order, and leaves out only what comes after it. *)
DsPageOf(page, n, rest, sort) ==
    /\ n \in 0..DsPageSize /\ page \in [1..n -> rest]
    /\ \A i, j \in 1..n : i < j => DsOnwards(sort, page[i].id, page[j].id)
    /\ \A row \in rest \ Range(page) : n = DsPageSize /\ DsAfter(row, sort, DsCursor(page[n]))

(* The order of the rows is that of the places behind them. *)
LEMMA DsBeforeIs == \A a, b, sort : DsBefore(a, b, sort) => DsAfter(b, sort, DsCursor(a))
<1> SUFFICES ASSUME NEW a, NEW b, NEW sort, DsBefore(a, b, sort) PROVE DsAfter(b, sort, DsCursor(a))
  OBVIOUS
<1>1. PICK c : c = DsCursor(a)
  OBVIOUS
<1>2. c[1] = a.at /\ c[2] = a.id
  BY <1>1 DEF DsCursor
<1>3. DsAfter(b, sort, c)
  BY <1>2 DEF DsBefore, DsAfter
<1> QED BY <1>1, <1>3

LEMMA DsPageIs ==
    ASSUME DsKinds, DsLogOrdered, NEW sort \in {"newest", "oldest"}, NEW cursor, NEW page \in DsPages(sort, cursor)
    PROVE  \E n \in Nat : /\ DsPageOf(page, n, DsRest(sort, cursor), sort)
                          /\ Len(page) = n /\ DOMAIN page = 1..n
<1> DEFINE rest == DsRest(sort, cursor)
<1>1. rest \subseteq dsLog
  BY DEF DsRest, DsVisible
<1>2. PICK n \in 0..DsPageSize : page \in [1..n -> rest]
  BY DEF DsPages
<1>3. n \in Nat /\ DOMAIN page = 1..n /\ Len(page) = n /\ \A i \in 1..n : page[i] \in dsLog
  <2>1. DsPageSize \in Nat
    BY DsConstants DEF DsConstants
  <2>2. n \in Nat
    BY <2>1
  <2> HIDE DEF rest
  <2> QED BY <1>1, <1>2, <2>2
<1>4. /\ \A i, j \in DOMAIN page : i < j => DsAfter(page[j], sort, DsCursor(page[i]))
      /\ \A row \in rest \ Range(page) :
            Len(page) = DsPageSize /\ DsAfter(row, sort, DsCursor(page[Len(page)]))
  <2>1. /\ \A i, j \in DOMAIN page : i < j => DsBefore(page[i], page[j], sort)
        /\ \A row \in rest \ Range(page) : Len(page) = DsPageSize /\ DsBefore(page[Len(page)], row, sort)
    BY DEF DsPages
  <2> HIDE DEF rest
  <2> QED BY <2>1, DsBeforeIs
<1>5. ASSUME NEW i \in 1..n, NEW j \in 1..n, i < j
      PROVE  DsOnwards(sort, page[i].id, page[j].id)
  <2>1. page[i] \in dsLog /\ page[j] \in dsLog /\ DsAfter(page[j], sort, DsCursor(page[i]))
    BY <1>3, <1>4, <1>5
  <2>2. PICK c : c = DsCursor(page[i])
    OBVIOUS
  <2>3. DsCursorAt(c) /\ c[2] = page[i].id
    BY <2>1, <2>2, DsRowPlace
  <2>4. DsAfter(page[j], sort, c) <=> DsOnwards(sort, c[2], page[j].id)
    BY <2>1, <2>3, DsAfterIs
  <2> QED BY <2>1, <2>2, <2>3, <2>4
<1>6. DsPageOf(page, n, rest, sort)
  <2> HIDE DEF rest
  <2> QED BY <1>2, <1>3, <1>4, <1>5 DEF DsPageOf
<1> QED BY <1>3, <1>6

(* The ids got, with those of a page. *)
LEMMA DsGotIs ==
    ASSUME NEW got \in Seq(Int), NEW n \in Nat, NEW page, DOMAIN page = 1..n, \A i \in 1..n : page[i].id \in Int,
           NEW read, read = got \o [i \in DOMAIN page |-> page[i].id]
    PROVE  /\ read \in Seq(Int) /\ Len(got) \in Nat /\ DOMAIN got = 1..Len(got) /\ DOMAIN read = 1..(Len(got) + n)
           /\ \A i \in 1..Len(got) : read[i] = got[i]
           /\ \A i \in 1..n : read[Len(got) + i] = page[i].id
<1> DEFINE ids == [i \in 1..n |-> page[i].id]
           all == got \o ids
<1>1. ids \in Seq(Int) /\ Len(ids) = n /\ \A i \in 1..n : ids[i] = page[i].id
  OBVIOUS
<1>2. got \o [i \in DOMAIN page |-> page[i].id] = all
  OBVIOUS
<1>3. Len(got) \in Nat /\ DOMAIN got = 1..Len(got)
  OBVIOUS
<1>4. /\ all \in Seq(Int) /\ DOMAIN all = 1..(Len(got) + n)
      /\ \A i \in 1..(Len(got) + n) : all[i] = IF i <= Len(got) THEN got[i] ELSE ids[i - Len(got)]
  <2> HIDE DEF ids
  <2>0. ids \in Seq(Int)
    BY <1>1
  <2>1. all \in Seq(Int) /\ Len(all) = Len(got) + Len(ids)
    BY <2>0
  <2>2. \A i \in 1..(Len(got) + Len(ids)) : all[i] = IF i <= Len(got) THEN got[i] ELSE ids[i - Len(got)]
    BY <1>1
  <2>3. DOMAIN all = 1..Len(all)
    BY <2>1
  <2> HIDE DEF all
  <2> QED BY <1>1, <2>1, <2>2, <2>3
<1>5. \A i \in 1..Len(got) : all[i] = got[i]
  <2> HIDE DEF all, ids
  <2> QED BY <1>3, <1>4
<1>6. \A i \in 1..n : all[Len(got) + i] = page[i].id
  <2> SUFFICES ASSUME NEW i \in 1..n PROVE all[Len(got) + i] = page[i].id
    OBVIOUS
  <2>1. Len(got) + i \in 1..(Len(got) + n) /\ ~(Len(got) + i <= Len(got)) /\ (Len(got) + i) - Len(got) = i
    BY <1>3
  <2> HIDE DEF all, ids
  <2> QED BY <1>1, <1>4, <2>1
<1>7. read = all
  OBVIOUS
<1> QED
  <2> HIDE DEF all, ids
  <2> QED BY <1>2, <1>3, <1>4, <1>5, <1>6, <1>7

(* A page more: it is behind all that was got before, and what is still     *)
(* wanted is behind it.                                                      *)
LEMMA DsPageKeeps ==
    ASSUME DsKinds, DsLogOrdered, NEW rd, DsReadable(rd), DsReadPage(rd),
           UNCHANGED <<dsLog, dsNextId, dsNow>>
    PROVE  DsReads'
<1> DEFINE rest == DsRest(rd.sort, rd.cursor)
<1>0. DsReader(rd) /\ rd.sort \in {"newest", "oldest"} /\ rd.got \in Seq(Int)
  BY DEF DsReadable, DsReader
<1>1. PICK page \in DsPages(rd.sort, rd.cursor) :
         dsReader' = [rd EXCEPT !.got = @ \o [i \in DOMAIN page |-> page[i].id],
                                !.cursor = IF rest \ Range(page) # {} THEN DsCursor(page[Len(page)]) ELSE @,
                                !.done = ~(rest \ Range(page) # {})]
  BY DEF DsReadPage
<1>2. PICK n \in Nat : DsPageOf(page, n, rest, rd.sort) /\ Len(page) = n /\ DOMAIN page = 1..n
  BY <1>0, DsPageIs
<1>3. PICK more : more = (rest \ Range(page) # {})
  OBVIOUS
<1>4. PICK all : all = rd.got \o [i \in DOMAIN page |-> page[i].id]
  OBVIOUS
<1>5. /\ DOMAIN dsReader' = DOMAIN rd /\ dsReader'.sort = rd.sort /\ dsReader'.wanted = rd.wanted
      /\ dsReader'.got = all
      /\ dsReader'.cursor = (IF more THEN DsCursor(page[n]) ELSE rd.cursor)
      /\ dsReader'.done = ~more
  BY <1>0, <1>1, <1>2, <1>3, <1>4 DEF DsReader
<1>6. rest \subseteq dsLog /\ rest \subseteq DsVisible /\ \A row \in rest : DsAfter(row, rd.sort, rd.cursor)
  BY DEF DsRest, DsVisible
<1>7. \A i \in 1..n : page[i] \in rest /\ page[i] \in dsLog /\ page[i].id \in 1..(dsNextId - 1) /\ page[i].id \in Nat
  <2>1. \A i \in 1..n : page[i] \in rest
    <3> HIDE DEF rest
    <3> QED BY <1>2 DEF DsPageOf
  <2>2. \A i \in 1..n : page[i] \in dsLog
    BY <1>6, <2>1
  <2>3. \A row \in dsLog : row.id \in 1..(dsNextId - 1) /\ row.id \in Nat
    BY DEF DsLogOrdered
  <2> QED BY <2>1, <2>2, <2>3
<1> DEFINE m == Len(rd.got)
<1>8. /\ all \in Seq(Int) /\ m \in Nat /\ DOMAIN rd.got = 1..m /\ DOMAIN all = 1..(m + n)
      /\ \A i \in 1..m : all[i] = rd.got[i]
      /\ \A i \in 1..n : all[m + i] = page[i].id
  <2>1. \A i \in 1..n : page[i].id \in Nat
    BY <1>7
  <2> HIDE DEF rest
  <2> QED BY <1>0, <1>2, <1>4, <2>1, DsGotIs
<1> HIDE DEF m
<1>9. \A i \in 1..(m + n) : i \in 1..m \/ \E k \in 1..n : i = m + k
  <2> SUFFICES ASSUME NEW i \in 1..(m + n), i \notin 1..m PROVE \E k \in 1..n : i = m + k
    OBVIOUS
  <2>1. i - m \in 1..n /\ i = m + (i - m)
    BY <1>8
  <2> QED BY <2>1
<1>10. \A i \in 1..m : rd.got[i] \in 1..(dsNextId - 1) /\ rd.got[i] \in Nat
  <2>1. \A i \in DOMAIN rd.got : rd.got[i] \in 1..(dsNextId - 1)
    BY <1>0, Zenon DEF DsReader
  <2>2. \A x \in 1..(dsNextId - 1) : x \in Nat
    BY DEF DsLogOrdered
  <2> QED BY <1>8, <2>1, <2>2
(* What is on the page is behind what was got before. *)
<1>11. \A i \in 1..m : \A k \in 1..n : DsOnwards(rd.sort, rd.got[i], page[k].id)
  <2> SUFFICES ASSUME NEW i \in 1..m, NEW k \in 1..n PROVE DsOnwards(rd.sort, rd.got[i], page[k].id)
    OBVIOUS
  <2>1. rd.got # <<>>
    BY <1>8
  <2>2. PICK c : c = rd.cursor
    OBVIOUS
  <2>3. DsCursorAt(c) /\ ~DsOnwards(rd.sort, c[2], rd.got[i])
    BY <1>8, <2>1, <2>2 DEF DsReadable
  <2>4. page[k] \in dsLog /\ DsAfter(page[k], rd.sort, c)
    BY <1>6, <1>7, <2>2
  <2>5. DsOnwards(rd.sort, c[2], page[k].id)
    BY <1>0, <2>3, <2>4, DsAfterIs
  <2>6. c[2] \in Int /\ rd.got[i] \in Int /\ page[k].id \in Int
    BY <1>7, <1>10, <2>3 DEF DsCursorAt
  <2> QED BY <2>3, <2>5, <2>6 DEF DsOnwards
<1>12. \A i, j \in 1..n : i < j => DsOnwards(rd.sort, page[i].id, page[j].id)
  BY <1>2 DEF DsPageOf
<1>13. ASSUME NEW i \in 1..(m + n), NEW j \in 1..(m + n), i < j
       PROVE  DsOnwards(rd.sort, all[i], all[j])
  <2>1. CASE j \in 1..m
    <3>1. i \in 1..m
      BY <1>8, <1>13, <2>1
    <3>2. DsOnwards(rd.sort, rd.got[i], rd.got[j])
      BY <1>0, <1>8, <1>13, <2>1, <3>1 DEF DsReader
    <3> QED BY <1>8, <2>1, <3>1, <3>2
  <2>2. CASE j \notin 1..m
    <3>1. PICK k \in 1..n : j = m + k
      BY <1>9, <2>2
    <3>2. CASE i \in 1..m
      BY <1>8, <1>11, <3>1, <3>2
    <3>3. CASE i \notin 1..m
      <4>1. PICK l \in 1..n : i = m + l
        BY <1>9, <3>3
      <4>2. l < k
        BY <1>8, <1>13, <3>1, <4>1
      <4>3. DsOnwards(rd.sort, page[l].id, page[k].id)
        BY <1>12, <4>2
      <4> QED BY <1>8, <3>1, <4>1, <4>3
    <3> QED BY <3>2, <3>3
  <2> QED BY <2>1, <2>2
<1>14. DsReader(dsReader)'
  <2>1. \A i \in 1..(m + n) : all[i] \in 1..(dsNextId - 1)
    <3> SUFFICES ASSUME NEW i \in 1..(m + n) PROVE all[i] \in 1..(dsNextId - 1)
      OBVIOUS
    <3>1. CASE i \in 1..m
      BY <1>8, <1>10, <3>1
    <3>2. CASE i \notin 1..m
      <4>1. PICK k \in 1..n : i = m + k
        BY <1>9, <3>2
      <4> QED BY <1>7, <1>8, <4>1
    <3> QED BY <3>1, <3>2
  <2>2. more \in BOOLEAN
    BY <1>3
  <2>3. /\ DOMAIN rd = {"sort", "cursor", "got", "wanted", "done"}
        /\ \A id \in rd.wanted : id \in 1..(dsNextId - 1)
    BY <1>0 DEF DsReader
  <2>4. PICK new : new = dsReader'
    OBVIOUS
  <2>5. DsReader(new)'
    <3>1. /\ DOMAIN new = {"sort", "cursor", "got", "wanted", "done"} /\ new.sort = rd.sort
          /\ new.wanted = rd.wanted /\ new.got = all /\ new.done \in BOOLEAN
      BY <1>5, <2>2, <2>3, <2>4
    <3> QED BY <1>0, <1>8, <1>13, <2>1, <2>3, <3>1 DEF DsReader
  <2> QED BY <2>4, <2>5 DEF DsReader
<1>15. \A row \in DsVisible : row.id \in rd.wanted =>
          \/ row.id \in Range(all)
          \/ row \in rest \ Range(page)
  <2> SUFFICES ASSUME NEW row \in DsVisible, row.id \in rd.wanted, row \notin rest \ Range(page)
               PROVE  row.id \in Range(all)
    OBVIOUS
  <2>1. CASE row.id \in Range(rd.got)
    <3>1. PICK i \in 1..m : rd.got[i] = row.id
      BY <1>8, <2>1 DEF Range
    <3>2. i \in 1..(m + n) /\ all[i] = row.id
      BY <1>8, <3>1
    <3> QED BY <1>8, <3>2 DEF Range
  <2>2. CASE row.id \notin Range(rd.got)
    <3>1. DsAfter(row, rd.sort, rd.cursor)
      BY <2>2 DEF DsReadable
    <3>2. row \in rest
      BY <3>1 DEF DsRest
    <3>3. row \in Range(page)
      <4> HIDE DEF rest
      <4> QED BY <3>2
    <3>4. PICK k \in 1..n : page[k] = row
      BY <1>2, <3>3 DEF Range
    <3>5. m + k \in 1..(m + n) /\ all[m + k] = row.id
      BY <1>8, <3>4
    <3> QED BY <1>8, <3>5 DEF Range
  <2> QED BY <2>1, <2>2
<1>16. CASE ~more
  <2>1. rest \ Range(page) = {}
    BY <1>3, <1>16
  <2>2. \A row \in DsVisible : row.id \in rd.wanted => row.id \in Range(all)
    BY <1>15, <2>1
  <2>3. dsReader'.done /\ DsVisible' = DsVisible
    BY <1>5, <1>16 DEF DsVisible, DsBack
  <2>4. DsReadToEnd(dsReader)'
    BY <1>5, <1>14, <2>2, <2>3 DEF DsReadToEnd
  <2> QED BY <2>3, <2>4 DEF DsReads
<1>17. CASE more
  <2>1. PICK left \in rest : left \notin Range(page)
    BY <1>3, <1>17
  <2>2. n = DsPageSize /\ n \in Nat \ {0}
    <3>1. n = DsPageSize
      <4> HIDE DEF rest
      <4> QED BY <1>2, <2>1 DEF DsPageOf
    <3> QED BY <3>1, DsConstants DEF DsConstants
  <2>3. PICK c : c = DsCursor(page[n])
    OBVIOUS
  <2>4. n \in 1..n /\ page[n] \in dsLog
    BY <1>7, <2>2
  <2>5. DsCursorAt(c) /\ c[2] = page[n].id /\ c # <<>>
    BY <2>3, <2>4, DsRowPlace DEF DsCursorAt
  <2>6. \A i \in 1..(m + n) : ~DsOnwards(rd.sort, c[2], all[i])
    <3> SUFFICES ASSUME NEW i \in 1..(m + n) PROVE ~DsOnwards(rd.sort, c[2], all[i])
      OBVIOUS
    <3>1. i <= m + n /\ m + n \in 1..(m + n) /\ all[m + n] = c[2] /\ c[2] \in Nat
      BY <1>7, <1>8, <2>2, <2>4, <2>5
    <3>2. CASE i = m + n
      BY <3>1, <3>2 DEF DsOnwards
    <3>3. CASE i # m + n
      <4>1. i < m + n
        BY <1>8, <3>1, <3>3
      <4>2. DsOnwards(rd.sort, all[i], c[2])
        BY <1>13, <3>1, <4>1
      <4>3. all[i] \in Int
        BY <1>8
      <4> QED BY <3>1, <4>2, <4>3 DEF DsOnwards
    <3> QED BY <3>2, <3>3
  <2>7. \A row \in DsVisible : row.id \in rd.wanted => row.id \in Range(all) \/ DsAfter(row, rd.sort, c)
    <3>1. \A row \in rest \ Range(page) : DsAfter(row, rd.sort, c)
      <4> HIDE DEF rest
      <4> QED BY <1>2, <2>3 DEF DsPageOf
    <3> HIDE DEF rest
    <3> QED BY <1>15, <3>1
  <2>8. DsVisible' = DsVisible /\ DsCursorAt(c)'
    BY <2>5 DEF DsVisible, DsBack, DsCursorAt
  <2>9. ~dsReader'.done /\ dsReader'.cursor = c
    BY <1>5, <1>17, <2>3
  <2>10. DsReadable(dsReader)'
    BY <1>5, <1>8, <1>14, <2>5, <2>6, <2>7, <2>8, <2>9 DEF DsReadable
  <2> QED BY <2>9, <2>10 DEF DsReads
<1> QED BY <1>3, <1>16, <1>17

(* Whoever reads keeps this, as long as the log only loses rows. *)
LEMMA DsReadsKept ==
    ASSUME DsKinds, DsLogOrdered, DsReads, UNCHANGED <<dsReader, dsNextId>>,
           dsLog' \subseteq dsLog, dsNow' \in Nat, dsNow <= dsNow'
    PROVE  DsReads'
<1>1. dsNow \in Nat /\ DsLogRetention \in Nat
  BY DsNumbers
<1>2. DsVisible' \subseteq DsVisible
  <2>1. \A row \in dsLog : row.at \in Nat
    BY <1>1 DEF DsLogOrdered
  <2> QED BY <1>1, <2>1 DEF DsVisible, DsBack
<1>3. \A c : DsCursorAt(c) => DsCursorAt(c)'
  <2> SUFFICES ASSUME NEW c, DsCursorAt(c) PROVE DsCursorAt(c)'
    OBVIOUS
  <2>1. c # <<>> /\ c[1] \in 0..dsNow' /\ c[2] \in 1..(dsNextId' - 1)
    BY <1>1 DEF DsCursorAt
  <2>2. \A row \in dsLog' : /\ row.id > c[2] => row.at >= c[1]
                            /\ row.id < c[2] => row.at <= c[1]
                            /\ row.id = c[2] => row.at = c[1]
    BY DEF DsCursorAt
  <2> QED BY <2>1, <2>2 DEF DsCursorAt
<1>4. \A rd : DsReader(rd) => DsReader(rd)'
  BY DEF DsReader
<1>5. CASE dsReader = DsNobody
  BY <1>5 DEF DsReads
<1>6. CASE dsReader # DsNobody /\ dsReader.done
  <2>1. DsReadToEnd(dsReader)
    BY <1>6 DEF DsReads
  <2>2. DsReadToEnd(dsReader)'
    <3>1. DsReader(dsReader)'
      BY <1>4, <2>1 DEF DsReadToEnd, DsReader
    <3> QED BY <1>2, <2>1, <3>1 DEF DsReadToEnd
  <2> QED BY <1>6, <2>2 DEF DsReads
<1>7. CASE dsReader # DsNobody /\ ~dsReader.done
  <2>1. DsReadable(dsReader)
    BY <1>7 DEF DsReads
  <2>2. DsReader(dsReader)'
    BY <2>1 DEF DsReadable, DsReader
  <2>3. dsReader.cursor # <<>> => DsCursorAt(dsReader.cursor)'
    <3>1. PICK c : c = dsReader.cursor
      OBVIOUS
    <3>2. c # <<>> => DsCursorAt(c)'
      BY <1>3, <2>1, <3>1 DEF DsReadable
    <3>3. c = dsReader'.cursor
      BY <3>1
    <3> QED BY <3>1, <3>2, <3>3 DEF DsCursorAt
  <2>4. DsReadable(dsReader)'
    BY <1>2, <2>1, <2>2, <2>3 DEF DsReadable
  <2> QED BY <1>7, <2>4 DEF DsReads
<1> QED BY <1>5, <1>6, <1>7

(* A new row has an id that nobody has got or wants, of the latest time. *)
LEMMA DsLoggedKeeps ==
    ASSUME DsKinds, DsLogOrdered, DsReads, UNCHANGED <<dsReader, dsNow>>,
           dsLog' = DsLogged, dsNextId' = dsNextId + 1
    PROVE  DsLogOrdered' /\ DsReads'
<1>1. dsNow \in Nat /\ dsNextId \in Nat \ {0}
  BY DsNumbers DEF DsLogOrdered
<1>2. PICK new : new = [id |-> dsNextId, at |-> dsNow]
  OBVIOUS
<1>3. dsLog' = dsLog \cup {new} /\ new.id = dsNextId /\ new.at = dsNow
  BY <1>2 DEF DsLogged
<1>4. \A row \in dsLog : row.id \in Nat /\ row.id < dsNextId /\ row.id >= 1 /\ row.at \in Nat /\ row.at <= dsNow
  BY <1>1 DEF DsLogOrdered
<1>5. DsLogOrdered'
  <2>1. \A row \in dsLog' : row.id \in 1..(dsNextId' - 1) /\ row.at \in 0..dsNow'
    BY <1>1, <1>3, <1>4
  <2>2. \A a, b \in dsLog' : (a.id = b.id => a = b) /\ (a.id < b.id => a.at <= b.at)
    <3> SUFFICES ASSUME NEW a \in dsLog', NEW b \in dsLog'
                 PROVE  (a.id = b.id => a = b) /\ (a.id < b.id => a.at <= b.at)
      OBVIOUS
    <3>1. CASE a \in dsLog /\ b \in dsLog
      BY <3>1 DEF DsLogOrdered
    <3>2. CASE a = new \/ b = new
      BY <1>1, <1>3, <1>4, <3>2
    <3> QED BY <1>3, <3>1, <3>2
  <2> QED BY <1>1, <2>1, <2>2 DEF DsLogOrdered
<1>6. DsVisible' \subseteq DsVisible \cup {new}
  BY <1>3 DEF DsVisible, DsBack
<1>7. \A c : DsCursorAt(c) => DsCursorAt(c)'
  <2> SUFFICES ASSUME NEW c, DsCursorAt(c) PROVE DsCursorAt(c)'
    OBVIOUS
  <2>1. /\ c # <<>> /\ c[1] \in 0..dsNow /\ c[2] \in 1..(dsNextId - 1)
        /\ \A row \in dsLog : /\ row.id > c[2] => row.at >= c[1]
                              /\ row.id < c[2] => row.at <= c[1]
                              /\ row.id = c[2] => row.at = c[1]
    BY DEF DsCursorAt
  <2>2. c[1] \in 0..dsNow' /\ c[2] \in 1..(dsNextId' - 1)
    BY <1>1, <2>1
  <2>3. new.id > c[2] /\ new.at >= c[1]
    BY <1>1, <1>3, <2>1
  <2>4. \A row \in dsLog' : /\ row.id > c[2] => row.at >= c[1]
                            /\ row.id < c[2] => row.at <= c[1]
                            /\ row.id = c[2] => row.at = c[1]
    <3>1. c[2] \in Int
      BY <2>1
    <3> QED BY <1>1, <1>3, <2>1, <2>3, <3>1
  <2> QED BY <2>1, <2>2, <2>4 DEF DsCursorAt
<1>8. \A rd : DsReader(rd) => DsReader(rd)' /\ new.id \notin rd.wanted
  <2> SUFFICES ASSUME NEW rd, DsReader(rd) PROVE DsReader(rd)' /\ new.id \notin rd.wanted
    OBVIOUS
  <2>1. \A x \in 1..(dsNextId - 1) : x \in 1..(dsNextId' - 1) /\ x # new.id
    BY <1>1, <1>3
  <2>2. new.id \notin rd.wanted
    BY <2>1 DEF DsReader
  <2>3. \A i \in DOMAIN rd.got : rd.got[i] \in 1..(dsNextId' - 1)
    BY <2>1 DEF DsReader
  <2>4. \A id \in rd.wanted : id \in 1..(dsNextId' - 1)
    BY <2>1 DEF DsReader
  <2> QED BY <2>2, <2>3, <2>4 DEF DsReader
<1>9. CASE dsReader = DsNobody
  BY <1>5, <1>9 DEF DsReads
<1>10. CASE dsReader # DsNobody
  <2>1. PICK rd : rd = dsReader
    OBVIOUS
  <2>2. rd = dsReader'
    BY <2>1
  <2>3. DsReader(rd)
    BY <1>10, <2>1 DEF DsReads, DsReadToEnd, DsReadable
  <2>4. DsReader(rd)' /\ new.id \notin rd.wanted
    BY <1>8, <2>3
  <2>5. CASE rd.done
    <3>1. DsReadToEnd(rd)
      BY <1>10, <2>1, <2>5 DEF DsReads
    <3>2. DsReadToEnd(rd)'
      BY <1>6, <2>4, <3>1 DEF DsReadToEnd
    <3>3. DsReadToEnd(dsReader)'
      BY <2>2, <3>2 DEF DsReadToEnd, DsReader
    <3> QED BY <1>5, <2>2, <2>5, <3>3 DEF DsReads
  <2>6. CASE ~rd.done
    <3>1. DsReadable(rd)
      BY <1>10, <2>1, <2>6 DEF DsReads
    <3>2. PICK c : c = rd.cursor
      OBVIOUS
    <3>3. c # <<>> => DsCursorAt(c)'
      BY <1>7, <3>1, <3>2 DEF DsReadable
    <3>4. rd.cursor # <<>> => DsCursorAt(rd.cursor)'
      BY <3>2, <3>3
    <3>5. DsReadable(rd)'
      BY <1>6, <2>4, <3>1, <3>4 DEF DsReadable
    <3>6. DsReadable(dsReader)'
      BY <2>2, <3>5 DEF DsReadable, DsReader, DsCursorAt
    <3> QED BY <1>5, <2>2, <2>6, <3>6 DEF DsReads
  <2> QED BY <2>5, <2>6
<1> QED BY <1>9, <1>10

------------------------------------------------------------------------------
(* The inductive invariant. *)
DsRight == DsKinds /\ DsHourExact /\ DsLifeExact /\ DsLogOrdered /\ DsReads

LEMMA DsFirst == DsInit => DsRight
<1> SUFFICES ASSUME DsInit PROVE DsRight
  OBVIOUS
<1>1. /\ dsNow = DsStart /\ dsRetention \in DsRetentions /\ dsLeast = DsDetail(dsRetention) /\ dsWhole = TRUE
      /\ dsHour = DsEmpty /\ dsLife = DsEmpty /\ dsSeen = <<>> /\ dsCounted = {}
      /\ dsLog = {} /\ dsNextId = 1 /\ dsReader = DsNobody
  BY DEF DsInit
<1>2. DsKinds
  <2>1. /\ DsMaxRetention \in Nat /\ DsTrend \in Nat /\ DsLogRetention \in Nat /\ MaxDsTime \in Nat
        /\ dsRetention \in Nat
    BY <1>1, DsConstants DEF DsConstants
  <2>2. DsStart \in Nat /\ DsStart \in DsStart..(DsStart + MaxDsTime) /\ DsDetail(dsRetention) \in Nat
    BY <2>1 DEF DsStart, DsDetail
  <2>3. DOMAIN DsEmpty = {}
    BY DEF DsEmpty
  <2> QED BY <1>1, <2>2, <2>3 DEF DsKinds
<1>3. \A row : \A c \in DsColumns : DsAt(DsEmpty, row)[c] = 0
  BY DEF DsEmpty, DsAt
<1>4. \A h, key, c : DsHits(h, key, c) = {} /\ DsHitsIn(dsCounted, key, c) = {}
  BY <1>1 DEF DsHits, DsHitsIn
<1>5. DsHourExact /\ DsLifeExact
  BY <1>1, <1>3, <1>4, FS_EmptySet DEF DsHourExact, DsLifeExact
<1>6. DsLogOrdered /\ DsReads
  BY <1>1 DEF DsLogOrdered, DsReads
<1> QED BY <1>2, <1>5, <1>6 DEF DsRight

(* A sequence is one of whatever all its members are. *)
LEMMA DsSeqOf ==
    ASSUME NEW R, NEW s \in Seq(R), NEW T, \A i \in DOMAIN s : s[i] \in T
    PROVE  s \in Seq(T)
  OBVIOUS

LEMMA DsKindsStep ==
    ASSUME DsKinds, DsNext
    PROVE  DsKinds' /\ dsNow' \in Nat /\ dsNow <= dsNow'
<1>0. dsNow \in Nat
  BY DsNumbers
<1>1. CASE \E e \in DsEntries : DsInsert(e)
  <2>1. PICK e \in DsEntries : DsInsert(e)
    BY <1>1
  <2>2. UNCHANGED <<dsNow, dsRetention, dsLeast, dsWhole>>
    BY <2>1 DEF DsInsert
  <2>3. CASE ~e.statistics
    <3>1. UNCHANGED <<dsHour, dsLife, dsSeen, dsCounted>>
      BY <2>1, <2>3 DEF DsInsert
    <3> QED BY <1>0, <2>2, <3>1 DEF DsKinds
  <2>4. CASE e.statistics
    <3>1. /\ dsHour' = DsCountIn(dsHour, DsOfHour(DsDeltas(e)))
          /\ dsSeen' = Append(dsSeen, [e |-> e, hour |-> dsNow])
          /\ dsLife' = IF dsRetention = 0 THEN DsCountIn(dsLife, DsDeltas(e)) ELSE dsLife
          /\ dsCounted' = IF dsRetention = 0 THEN dsCounted \cup {Len(dsSeen) + 1} ELSE dsCounted
      BY <2>1, <2>4 DEF DsInsert
    <3>2. DOMAIN DsDeltas(e) = DsKeysOf(e) /\ DsKeysOf(e) \subseteq DsKeys
      BY DsKnown DEF DsDeltas
    <3>3. DOMAIN dsHour' = DOMAIN dsHour \cup ({dsNow} \X DsKeysOf(e))
      <4>1. PICK d : d = DsOfHour(DsDeltas(e))
        OBVIOUS
      <4>2. DOMAIN d = {dsNow} \X DsKeysOf(e)
        BY <3>2, <4>1, DsOfHourIs
      <4>3. dsHour' = DsCountIn(dsHour, d)
        BY <3>1, <4>1
      <4> QED BY <4>2, <4>3, DsCountInIs
    <3>4. DOMAIN dsHour' \subseteq (0..dsNow) \X DsKeys
      BY <1>0, <3>2, <3>3 DEF DsKinds
    <3>5. DOMAIN dsLife' \subseteq DsKeys
      <4>1. DOMAIN DsCountIn(dsLife, DsDeltas(e)) \subseteq DsKeys
        BY <3>2, DsCountInIs DEF DsKinds
      <4> QED BY <3>1, <4>1 DEF DsKinds
    <3>6. dsSeen' \in Seq([e : DsEntries, hour : 0..dsNow])
      <4>1. [e |-> e, hour |-> dsNow] \in [e : DsEntries, hour : 0..dsNow]
        BY <1>0
      <4> DEFINE R == [e : DsEntries, hour : 0..dsNow]
      <4>2. dsSeen \in Seq(R)
        BY DEF DsKinds
      <4>3. PICK x \in R : x = [e |-> e, hour |-> dsNow]
        BY <4>1
      <4>4. dsSeen' = Append(dsSeen, x)
        BY <3>1, <4>3
      <4> HIDE DEF R
      <4>5. dsSeen' \in Seq(R)
        BY <4>2, <4>4
      <4> QED BY <4>5 DEF R
    <3>7. dsCounted' \subseteq DOMAIN dsSeen'
      BY <3>1, DsSeenNext DEF DsKinds
    <3> QED BY <1>0, <2>2, <3>4, <3>5, <3>6, <3>7 DEF DsKinds
  <2> QED BY <2>3, <2>4
<1>2. CASE \E r \in DsRetentions : DsSaveConfig(r)
  <2>1. PICK r \in DsRetentions : DsSaveConfig(r)
    BY <1>2
  <2>2. /\ dsRetention' = r /\ UNCHANGED <<dsNow, dsHour, dsSeen>>
        /\ dsLeast' = IF DsDetail(r) < dsLeast THEN DsDetail(r) ELSE dsLeast
    BY <2>1 DEF DsSaveConfig
  <2>3. dsLeast' \in Nat /\ dsLeast' <= DsDetail(r)
    <3>1. r \in Nat /\ DsMaxRetention \in Nat
      BY DsConstants DEF DsConstants
    <3>2. DsDetail(r) \in Nat /\ dsLeast \in Nat
      BY <3>1 DEF DsDetail, DsKinds
    <3> QED BY <2>2, <3>2
  <2>4. DOMAIN dsLife' \subseteq DsKeys /\ dsCounted' \subseteq DOMAIN dsSeen
    <3>1. DOMAIN DsRebuilt(dsRetention) \subseteq DsKeys
      BY DEF DsRebuilt, DsKeysSince, DsKinds
    <3>2. \/ dsLife' = DsRebuilt(dsRetention) /\ dsCounted' \subseteq DOMAIN dsSeen
          \/ UNCHANGED <<dsLife, dsCounted>>
      BY <2>1 DEF DsSaveConfig
    <3> QED BY <3>1, <3>2 DEF DsKinds
  <2>5. dsWhole' \in BOOLEAN
    <3>1. dsWhole \in BOOLEAN
      BY DEF DsKinds
    <3>2. dsWhole' = (dsRetention <= dsLeast) \/ dsWhole' = dsWhole
      BY <2>1, Zenon DEF DsSaveConfig
    <3>3. (dsRetention <= dsLeast) \in BOOLEAN
      BY DEF DsKinds
    <3> QED BY <3>1, <3>2, <3>3, Zenon
  <2>6. DsDetail(dsRetention)' = DsDetail(r)
    BY <2>2 DEF DsDetail
  <2> QED BY <1>0, <2>2, <2>3, <2>4, <2>5, <2>6 DEF DsKinds
<1>3. CASE DsPrune
  <2>1. /\ UNCHANGED <<dsNow, dsRetention, dsLife, dsSeen, dsCounted, dsLeast, dsWhole>>
        /\ DOMAIN dsHour' \subseteq DOMAIN dsHour
    BY <1>3 DEF DsPrune, dsGhost
  <2> QED BY <1>0, <2>1 DEF DsKinds
<1>4. CASE DsClearStatistics
  <2>1. /\ UNCHANGED <<dsNow, dsRetention>> /\ dsHour' = DsEmpty /\ dsLife' = DsEmpty
        /\ dsSeen' = <<>> /\ dsCounted' = {} /\ dsLeast' = DsDetail(dsRetention) /\ dsWhole' = TRUE
    BY <1>4 DEF DsClearStatistics
  <2>2. DOMAIN DsEmpty = {}
    BY DEF DsEmpty
  <2>3. DsDetail(dsRetention) \in Nat
    BY DsNumbers
  <2>4. DsDetail(dsRetention)' = DsDetail(dsRetention)
    BY <2>1 DEF DsDetail
  <2> QED BY <1>0, <2>1, <2>2, <2>3, <2>4 DEF DsKinds
<1>5. CASE DsTick
  <2>1. /\ UNCHANGED <<dsRetention, dsHour, dsLife, dsSeen, dsCounted, dsLeast, dsWhole>>
        /\ dsNow' = dsNow + 1 /\ dsNow < DsStart + MaxDsTime
    BY <1>5 DEF DsTick, dsTables, dsGhost
  <2>2. dsNow' \in DsStart..(DsStart + MaxDsTime) /\ \A h \in 0..dsNow : h \in 0..dsNow'
    <3>1. MaxDsTime \in Nat
      BY DsConstants DEF DsConstants
    <3>2. DsStart \in Nat /\ dsNow >= DsStart
      BY DsNumbers
    <3> QED BY <1>0, <2>1, <3>1, <3>2
  <2>3. DOMAIN dsHour' \subseteq (0..dsNow') \X DsKeys
    BY <2>1, <2>2 DEF DsKinds
  <2>4. dsSeen' \in Seq([e : DsEntries, hour : 0..dsNow'])
    <3> DEFINE R == [e : DsEntries, hour : 0..dsNow]  T == [e : DsEntries, hour : 0..dsNow']
    <3>1. dsSeen \in Seq(R)
      BY DEF DsKinds
    <3>2. \A x \in R : x \in T
      BY <2>2
    <3>3. \A i \in DOMAIN dsSeen : dsSeen[i] \in R
      <4> HIDE DEF R
      <4> QED BY <3>1
    <3>4. dsSeen \in Seq(T)
      <4> HIDE DEF R, T
      <4> QED BY <3>1, <3>2, <3>3, DsSeqOf
    <3> QED BY <2>1, <3>4
  <2>5. DsDetail(dsRetention)' = DsDetail(dsRetention)
    BY <2>1 DEF DsDetail
  <2> QED BY <1>0, <2>1, <2>2, <2>3, <2>4, <2>5 DEF DsKinds
<1>6. CASE \/ DsInsertFails \/ DsClearLogs \/ DsReadNext \/ DsReadEnds
           \/ \E sort \in {"newest", "oldest"} : DsReadFirst(sort)
  <2>1. UNCHANGED <<dsNow, dsRetention, dsHour, dsLife, dsSeen, dsCounted, dsLeast, dsWhole>>
    BY <1>6 DEF DsInsertFails, DsClearLogs, DsReadNext, DsReadEnds, DsReadFirst, dsTables, dsGhost
  <2>2. DsDetail(dsRetention)' = DsDetail(dsRetention)
    BY <2>1 DEF DsDetail
  <2> QED BY <1>0, <2>1, <2>2 DEF DsKinds
<1> QED BY <1>1, <1>2, <1>3, <1>4, <1>5, <1>6 DEF DsNext

(* Where nothing is counted, the counts stay. *)
LEMMA DsCountsKept ==
    ASSUME DsHourExact, DsLifeExact, UNCHANGED <<dsHour, dsLife, dsSeen, dsCounted, dsNow, dsLeast, dsWhole>>
    PROVE  DsHourExact' /\ DsLifeExact'
<1>1. \A h, key, c : DsHits(h, key, c)' = DsHits(h, key, c) /\ DsHitsIn(dsCounted, key, c)' = DsHitsIn(dsCounted, key, c)
  BY DEF DsHits, DsHitsIn
<1>2. \A h, key : DsSafe(h, key)' = DsSafe(h, key)
  BY DEF DsSafe
<1>3. DsHourExact'
  BY <1>1, <1>2 DEF DsHourExact
<1>4. DsLifeExact'
  <2>1. ASSUME dsWhole', NEW key, NEW c \in DsColumns \ {"bytes"}
        PROVE  DsAt(dsLife', key)[c] = Cardinality(DsHitsIn(dsCounted, key, c)')
    <3>1. dsWhole
      BY <2>1, Zenon
    <3> QED BY <1>1, <3>1 DEF DsLifeExact
  <2> QED BY <2>1 DEF DsLifeExact
<1> QED BY <1>3, <1>4

(* A log that loses rows stays in order. *)
LEMMA DsLogKept ==
    ASSUME DsKinds, DsLogOrdered, dsLog' \subseteq dsLog, UNCHANGED dsNextId, dsNow' \in Nat, dsNow <= dsNow'
    PROVE  DsLogOrdered'
<1>1. dsNow \in Nat
  BY DsNumbers
<1>2. \A row \in dsLog' : row.id \in 1..(dsNextId' - 1) /\ row.at \in 0..dsNow'
  BY <1>1 DEF DsLogOrdered
<1> QED BY <1>2 DEF DsLogOrdered

LEMMA DsCountsStep ==
    ASSUME DsKinds, DsHourExact, DsLifeExact, DsNext
    PROVE  DsHourExact' /\ DsLifeExact'
<1>1. CASE \E e \in DsEntries : DsInsert(e)
  BY <1>1, DsInsertKeeps
<1>2. CASE \E r \in DsRetentions : DsSaveConfig(r)
  BY <1>2, DsSaveKeeps
<1>3. CASE DsPrune
  BY <1>3, DsPruneKeeps
<1>4. CASE DsClearStatistics
  BY <1>4, DsClearKeeps
<1>5. CASE DsTick
  BY <1>5, DsTickKeeps
<1>6. CASE \/ DsInsertFails \/ DsClearLogs \/ DsReadNext \/ DsReadEnds
           \/ \E sort \in {"newest", "oldest"} : DsReadFirst(sort)
  <2>1. UNCHANGED <<dsHour, dsLife, dsSeen, dsCounted, dsNow, dsLeast, dsWhole>>
    BY <1>6 DEF DsInsertFails, DsClearLogs, DsReadNext, DsReadEnds, DsReadFirst, dsTables, dsGhost
  <2> QED BY <2>1, DsCountsKept
<1> QED BY <1>1, <1>2, <1>3, <1>4, <1>5, <1>6 DEF DsNext

(* Whoever begins to read wants all that can be seen. *)
LEMMA DsBegins ==
    ASSUME DsKinds, DsLogOrdered, NEW sort \in {"newest", "oldest"}
    PROVE  DsReadable([DsNobody EXCEPT !.sort = sort, !.wanted = DsIds(DsVisible)])
<1>1. PICK rd : rd = [DsNobody EXCEPT !.sort = sort, !.wanted = DsIds(DsVisible)]
  OBVIOUS
<1>2. /\ DOMAIN rd = {"sort", "cursor", "got", "wanted", "done"} /\ rd.sort = sort /\ rd.cursor = <<>>
      /\ rd.got = <<>> /\ rd.wanted = DsIds(DsVisible) /\ rd.done = FALSE
  BY <1>1 DEF DsNobody
<1>3. \A id \in DsIds(DsVisible) : id \in 1..(dsNextId - 1)
  BY DEF DsIds, DsVisible, DsLogOrdered
<1>4. DsReader(rd)
  <2>1. rd.got \in Seq(Int) /\ DOMAIN rd.got = {}
    BY <1>2
  <2> QED BY <1>2, <1>3, <2>1 DEF DsReader
<1>5. DsReadable(rd)
  BY <1>2, <1>4 DEF DsReadable, DsAfter
<1> QED BY <1>1, <1>5

LEMMA DsLogStep ==
    ASSUME DsKinds, DsLogOrdered, DsReads, DsNext
    PROVE  DsLogOrdered' /\ DsReads'
<1>0. dsNow' \in Nat /\ dsNow <= dsNow'
  BY DsKindsStep
<1>1. CASE \E e \in DsEntries : DsInsert(e) /\ e.log
  <2>1. UNCHANGED <<dsReader, dsNow>> /\ dsLog' = DsLogged /\ dsNextId' = dsNextId + 1
    BY <1>1 DEF DsInsert
  <2> QED BY <2>1, DsLoggedKeeps
<1>2. CASE \/ \E e \in DsEntries : DsInsert(e) /\ ~e.log
           \/ \E r \in DsRetentions : DsSaveConfig(r)
           \/ DsPrune \/ DsClearStatistics \/ DsTick \/ DsInsertFails
  <2>1. UNCHANGED <<dsReader, dsNextId>> /\ dsLog' \subseteq dsLog
    BY <1>2 DEF DsInsert, DsSaveConfig, DsPrune, DsClearStatistics, DsTick, DsInsertFails, dsTables
  <2> QED BY <1>0, <2>1, DsReadsKept, DsLogKept
<1>3. CASE DsClearLogs
  <2>1. dsLog' = {} /\ dsNextId' = 1 /\ dsReader' = DsNobody
    BY <1>3 DEF DsClearLogs
  <2> QED BY <2>1 DEF DsLogOrdered, DsReads
<1>4. CASE DsReadEnds
  <2>1. UNCHANGED <<dsLog, dsNextId>> /\ dsReader' = DsNobody
    BY <1>4 DEF DsReadEnds, dsTables
  <2> QED BY <1>0, <2>1, DsLogKept DEF DsReads
<1>5. CASE DsReadNext
  <2>1. UNCHANGED <<dsLog, dsNextId, dsNow>> /\ DsReadPage(dsReader) /\ dsReader # DsNobody /\ ~dsReader.done
    BY <1>5 DEF DsReadNext, dsTables
  <2>2. DsReadable(dsReader)
    BY <2>1 DEF DsReads
  <2>3. PICK rd : rd = dsReader
    OBVIOUS
  <2>4. DsReads'
    BY <2>1, <2>2, <2>3, DsPageKeeps
  <2> QED BY <1>0, <2>1, <2>4, DsLogKept
<1>6. CASE \E sort \in {"newest", "oldest"} : DsReadFirst(sort)
  <2>1. PICK sort \in {"newest", "oldest"} : DsReadFirst(sort)
    BY <1>6
  <2>2. PICK rd : rd = [DsNobody EXCEPT !.sort = sort, !.wanted = DsIds(DsVisible)]
    OBVIOUS
  <2>3. UNCHANGED <<dsLog, dsNextId, dsNow>> /\ DsReadPage(rd)
    BY <2>1, <2>2 DEF DsReadFirst, dsTables
  <2>4. DsReadable(rd)
    BY <2>2, DsBegins
  <2>5. DsReads'
    BY <2>3, <2>4, DsPageKeeps
  <2> QED BY <1>0, <2>3, <2>5, DsLogKept
<1> QED BY <1>1, <1>2, <1>3, <1>4, <1>5, <1>6 DEF DsNext

LEMMA DsStep == DsRight /\ [DsNext]_dsVars => DsRight'
<1> SUFFICES ASSUME DsRight, [DsNext]_dsVars PROVE DsRight'
  OBVIOUS
<1>1. CASE DsNext
  BY <1>1, DsKindsStep, DsCountsStep, DsLogStep DEF DsRight
<1>2. CASE UNCHANGED dsVars
  <2>1. UNCHANGED <<dsNow, dsRetention, dsLog, dsNextId, dsHour, dsLife, dsReader, dsSeen, dsCounted, dsLeast, dsWhole>>
    BY <1>2 DEF dsVars, dsTables, dsGhost
  <2>2. dsNow' \in Nat /\ dsNow <= dsNow'
    BY <2>1, DsNumbers DEF DsRight
  <2>3. DsKinds'
    <3>1. DsDetail(dsRetention)' = DsDetail(dsRetention)
      BY <2>1 DEF DsDetail
    <3> QED BY <2>1, <3>1 DEF DsRight, DsKinds
  <2>4. DsLogOrdered' /\ DsReads'
    BY <2>1, <2>2, DsLogKept, DsReadsKept DEF DsRight
  <2> QED BY <2>1, <2>3, <2>4, DsCountsKept DEF DsRight
<1> QED BY <1>1, <1>2

THEOREM DsInvariant == DsSpec => []DsRight
  BY DsFirst, DsStep, PTL DEF DsSpec

------------------------------------------------------------------------------
(* The keys are pairs. *)
LEMMA DsKeysPairs == \A k \in DsKeys : k = <<k[1], k[2]>>
<1> SUFFICES ASSUME NEW e \in DsEntries, NEW k \in DsKeysOf(e) PROVE k = <<k[1], k[2]>>
  BY DEF DsKeys
<1>1. \E d, v : k = <<d, v>>
  BY DEF DsKeysOf
<1> QED BY <1>1

(* Which keys an entry counts in. *)
LEMMA DsKeysOfIs ==
    ASSUME NEW e, e.background \in BOOLEAN
    PROVE  /\ DsTotalKey \in DsKeysOf(e)
           /\ \A v : <<"domain", v>> \in DsKeysOf(e) <=> ~e.background /\ v = e.domain
           /\ \A v : <<"client", v>> \in DsKeysOf(e) <=> ~e.background /\ v = e.client
           /\ \A v : <<"upstream", v>> \in DsKeysOf(e) <=> ~e.background /\ e.outcome = "forwarded" /\ v = e.upstream
           /\ \A v : <<"blocklist", v>> \in DsKeysOf(e) <=> ~e.background /\ e.outcome = "blocked" /\ v = e.source
<1>1. \A k : k \in DsKeysOf(e) <=>
          \/ k = DsTotalKey
          \/ ~e.background /\ k = <<"domain", e.domain>>
          \/ ~e.background /\ k = <<"client", e.client>>
          \/ ~e.background /\ e.outcome = "forwarded" /\ k = <<"upstream", e.upstream>>
          \/ ~e.background /\ e.outcome = "blocked" /\ k = <<"blocklist", e.source>>
  BY DEF DsKeysOf, DsTotalKey
<1>2. \A d, v, w : <<d, v>> = <<d, w>> <=> v = w
  OBVIOUS
<1>3. \A c, d, v, w : <<c, v>> = <<d, w>> => c = d
  OBVIOUS
<1>4. \A v : <<"domain", v>> # DsTotalKey /\ <<"client", v>> # DsTotalKey
             /\ <<"upstream", v>> # DsTotalKey /\ <<"blocklist", v>> # DsTotalKey
  BY <1>3 DEF DsTotalKey
<1>5. ASSUME NEW v
      PROVE  /\ <<"domain", v>> \in DsKeysOf(e) <=> ~e.background /\ v = e.domain
             /\ <<"client", v>> \in DsKeysOf(e) <=> ~e.background /\ v = e.client
             /\ <<"upstream", v>> \in DsKeysOf(e) <=> ~e.background /\ e.outcome = "forwarded" /\ v = e.upstream
             /\ <<"blocklist", v>> \in DsKeysOf(e) <=> ~e.background /\ e.outcome = "blocked" /\ v = e.source
  <2>1. PICK k, l, m, n : k = <<"domain", v>> /\ l = <<"client", v>> /\ m = <<"upstream", v>> /\ n = <<"blocklist", v>>
    OBVIOUS
  <2>2. /\ k # <<"client", e.client>> /\ k # <<"upstream", e.upstream>> /\ k # <<"blocklist", e.source>>
        /\ l # <<"domain", e.domain>> /\ l # <<"upstream", e.upstream>> /\ l # <<"blocklist", e.source>>
        /\ m # <<"domain", e.domain>> /\ m # <<"client", e.client>> /\ m # <<"blocklist", e.source>>
        /\ n # <<"domain", e.domain>> /\ n # <<"client", e.client>> /\ n # <<"upstream", e.upstream>>
    BY <1>3, <2>1
  <2>3. k # DsTotalKey /\ l # DsTotalKey /\ m # DsTotalKey /\ n # DsTotalKey
    BY <1>4, <2>1
  <2>4. /\ k = <<"domain", e.domain>> <=> v = e.domain
        /\ l = <<"client", e.client>> <=> v = e.client
        /\ m = <<"upstream", e.upstream>> <=> v = e.upstream
        /\ n = <<"blocklist", e.source>> <=> v = e.source
    BY <1>2, <2>1
  <2>5. /\ k \in DsKeysOf(e) <=> ~e.background /\ v = e.domain
        /\ l \in DsKeysOf(e) <=> ~e.background /\ v = e.client
        /\ m \in DsKeysOf(e) <=> ~e.background /\ e.outcome = "forwarded" /\ v = e.upstream
        /\ n \in DsKeysOf(e) <=> ~e.background /\ e.outcome = "blocked" /\ v = e.source
    BY <1>1, <2>2, <2>3, <2>4, Zenon
  <2> QED BY <2>1, <2>5
<1> QED BY <1>1, <1>5

(* In which columns. *)
LEMMA DsAddsIs ==
    ASSUME NEW e, e.background \in BOOLEAN
    PROVE  /\ DsAdds(e, DsTotalKey, "queries") <=> ~e.background
           /\ DsAdds(e, DsTotalKey, "blocked") <=> ~e.background /\ e.outcome = "blocked"
           /\ ~DsAdds(e, DsTotalKey, "requests")
           /\ DsAdds(e, DsTotalKey, "bytes")
           /\ \A v : DsAdds(e, <<"domain", v>>, "queries") <=> ~e.background /\ v = e.domain
           /\ \A v : DsAdds(e, <<"client", v>>, "queries") <=> ~e.background /\ v = e.client
           /\ \A v : DsAdds(e, <<"domain", v>>, "blocked") <=> ~e.background /\ e.outcome = "blocked" /\ v = e.domain
           /\ \A v : DsAdds(e, <<"client", v>>, "blocked") <=> ~e.background /\ e.outcome = "blocked" /\ v = e.client
           /\ \A v : DsAdds(e, <<"domain", v>>, "bytes") <=> ~e.background /\ v = e.domain
           /\ \A v : DsAdds(e, <<"client", v>>, "bytes") <=> ~e.background /\ v = e.client
           /\ \A v : DsAdds(e, <<"blocklist", v>>, "blocked") <=> ~e.background /\ e.outcome = "blocked" /\ v = e.source
           /\ \A v : DsAdds(e, <<"upstream", v>>, "requests") <=> ~e.background /\ e.outcome = "forwarded" /\ v = e.upstream
<1>1. ASSUME NEW k
      PROVE  /\ DsDelta(e, k)["queries"] = 1 <=> ~e.background /\ k[1] \in {"total", "domain", "client"}
             /\ DsDelta(e, k)["blocked"] = 1 <=> ~e.background /\ e.outcome = "blocked" /\ k[1] # "upstream"
             /\ DsDelta(e, k)["requests"] = 1 <=> k[1] = "upstream"
             /\ DsDelta(e, k)["bytes"] = 1 <=> k[1] \in {"total", "domain", "client"}
  BY DEF DsDelta, DsOne
<1>2. DsTotalKey[1] = "total"
  <2>1. <<"total", "">>[1] = "total"
    OBVIOUS
  <2> QED BY <2>1, Zenon DEF DsTotalKey
<1>3. \A d, v : <<d, v>>[1] = d
  OBVIOUS
<1>4. /\ DsAdds(e, DsTotalKey, "queries") <=> ~e.background
      /\ DsAdds(e, DsTotalKey, "blocked") <=> ~e.background /\ e.outcome = "blocked"
      /\ ~DsAdds(e, DsTotalKey, "requests")
      /\ DsAdds(e, DsTotalKey, "bytes")
  BY <1>1, <1>2, DsKeysOfIs DEF DsAdds
<1>5. ASSUME NEW v
      PROVE  /\ DsAdds(e, <<"domain", v>>, "queries") <=> ~e.background /\ v = e.domain
             /\ DsAdds(e, <<"domain", v>>, "blocked") <=> ~e.background /\ e.outcome = "blocked" /\ v = e.domain
             /\ DsAdds(e, <<"domain", v>>, "bytes") <=> ~e.background /\ v = e.domain
  <2>1. PICK k : k = <<"domain", v>>
    OBVIOUS
  <2>2. k[1] = "domain" /\ (k \in DsKeysOf(e) <=> ~e.background /\ v = e.domain)
    BY <1>3, <2>1, DsKeysOfIs
  <2>3. /\ DsAdds(e, k, "queries") <=> ~e.background /\ v = e.domain
        /\ DsAdds(e, k, "blocked") <=> ~e.background /\ e.outcome = "blocked" /\ v = e.domain
        /\ DsAdds(e, k, "bytes") <=> ~e.background /\ v = e.domain
    BY <1>1, <2>2 DEF DsAdds
  <2> QED BY <2>1, <2>3
<1>6. ASSUME NEW v
      PROVE  /\ DsAdds(e, <<"client", v>>, "queries") <=> ~e.background /\ v = e.client
             /\ DsAdds(e, <<"client", v>>, "blocked") <=> ~e.background /\ e.outcome = "blocked" /\ v = e.client
             /\ DsAdds(e, <<"client", v>>, "bytes") <=> ~e.background /\ v = e.client
  <2>1. PICK k : k = <<"client", v>>
    OBVIOUS
  <2>2. k[1] = "client" /\ (k \in DsKeysOf(e) <=> ~e.background /\ v = e.client)
    BY <1>3, <2>1, DsKeysOfIs
  <2>3. /\ DsAdds(e, k, "queries") <=> ~e.background /\ v = e.client
        /\ DsAdds(e, k, "blocked") <=> ~e.background /\ e.outcome = "blocked" /\ v = e.client
        /\ DsAdds(e, k, "bytes") <=> ~e.background /\ v = e.client
    BY <1>1, <2>2 DEF DsAdds
  <2> QED BY <2>1, <2>3
<1>7. ASSUME NEW v
      PROVE  /\ DsAdds(e, <<"blocklist", v>>, "blocked") <=> ~e.background /\ e.outcome = "blocked" /\ v = e.source
             /\ DsAdds(e, <<"upstream", v>>, "requests") <=> ~e.background /\ e.outcome = "forwarded" /\ v = e.upstream
  <2>1. PICK k, l : k = <<"blocklist", v>> /\ l = <<"upstream", v>>
    OBVIOUS
  <2>2. /\ k[1] = "blocklist" /\ l[1] = "upstream"
        /\ k \in DsKeysOf(e) <=> ~e.background /\ e.outcome = "blocked" /\ v = e.source
        /\ l \in DsKeysOf(e) <=> ~e.background /\ e.outcome = "forwarded" /\ v = e.upstream
    BY <1>3, <2>1, DsKeysOfIs
  <2>3. /\ DsAdds(e, k, "blocked") <=> ~e.background /\ e.outcome = "blocked" /\ v = e.source
        /\ DsAdds(e, l, "requests") <=> ~e.background /\ e.outcome = "forwarded" /\ v = e.upstream
    BY <1>1, <2>2 DEF DsAdds
  <2> QED BY <2>1, <2>3
<1> QED BY <1>4, <1>5, <1>6, <1>7

(* The entries of a set that count in each ranking. *)
LEMMA DsRankingHits ==
    ASSUME DsKinds, NEW I, I \subseteq DOMAIN dsSeen
    PROVE  /\ DsHitsIn(I, DsTotalKey, "queries") = DsAsked(I)
           /\ DsHitsIn(I, DsTotalKey, "blocked") = DsOutcome(I, "blocked")
           /\ DsHitsIn(I, DsTotalKey, "requests") = {}
           /\ DsHitsIn(I, DsTotalKey, "bytes") = I
           /\ \A v : DsHitsIn(I, <<"domain", v>>, "queries") = {i \in DsAsked(I) : DsEntry(i)["domain"] = v}
           /\ \A v : DsHitsIn(I, <<"client", v>>, "queries") = {i \in DsAsked(I) : DsEntry(i)["client"] = v}
           /\ \A v : DsHitsIn(I, <<"domain", v>>, "bytes") = {i \in DsAsked(I) : DsEntry(i)["domain"] = v}
           /\ \A v : DsHitsIn(I, <<"client", v>>, "bytes") = {i \in DsAsked(I) : DsEntry(i)["client"] = v}
           /\ \A v : DsHitsIn(I, <<"domain", v>>, "blocked") = {i \in DsOutcome(I, "blocked") : DsEntry(i)["domain"] = v}
           /\ \A v : DsHitsIn(I, <<"client", v>>, "blocked") = {i \in DsOutcome(I, "blocked") : DsEntry(i)["client"] = v}
           /\ \A v : DsHitsIn(I, <<"blocklist", v>>, "blocked") = {i \in DsOutcome(I, "blocked") : DsEntry(i)["source"] = v}
           /\ \A v : DsHitsIn(I, <<"upstream", v>>, "requests") = {i \in DsOutcome(I, "forwarded") : DsEntry(i)["upstream"] = v}
<1>1. \A i \in I : DsEntry(i) = dsSeen[i].e /\ dsSeen[i].e.background \in BOOLEAN
  BY DsSeenIs, DsConstants DEF DsEntry, DsConstants
<1>2. /\ DsHitsIn(I, DsTotalKey, "queries") = DsAsked(I)
      /\ DsHitsIn(I, DsTotalKey, "blocked") = DsOutcome(I, "blocked")
      /\ DsHitsIn(I, DsTotalKey, "requests") = {}
      /\ DsHitsIn(I, DsTotalKey, "bytes") = I
  BY <1>1, DsAddsIs DEF DsHitsIn, DsAsked, DsOutcome
<1>3. ASSUME NEW v
      PROVE  /\ DsHitsIn(I, <<"domain", v>>, "queries") = {i \in DsAsked(I) : DsEntry(i)["domain"] = v}
             /\ DsHitsIn(I, <<"client", v>>, "queries") = {i \in DsAsked(I) : DsEntry(i)["client"] = v}
             /\ DsHitsIn(I, <<"domain", v>>, "bytes") = {i \in DsAsked(I) : DsEntry(i)["domain"] = v}
             /\ DsHitsIn(I, <<"client", v>>, "bytes") = {i \in DsAsked(I) : DsEntry(i)["client"] = v}
  BY <1>1, DsAddsIs DEF DsHitsIn, DsAsked
<1>4. ASSUME NEW v
      PROVE  /\ DsHitsIn(I, <<"domain", v>>, "blocked") = {i \in DsOutcome(I, "blocked") : DsEntry(i)["domain"] = v}
             /\ DsHitsIn(I, <<"client", v>>, "blocked") = {i \in DsOutcome(I, "blocked") : DsEntry(i)["client"] = v}
             /\ DsHitsIn(I, <<"blocklist", v>>, "blocked") = {i \in DsOutcome(I, "blocked") : DsEntry(i)["source"] = v}
             /\ DsHitsIn(I, <<"upstream", v>>, "requests") = {i \in DsOutcome(I, "forwarded") : DsEntry(i)["upstream"] = v}
  BY <1>1, DsAddsIs DEF DsHitsIn, DsAsked, DsOutcome
<1> QED BY <1>2, <1>3, <1>4

------------------------------------------------------------------------------
(* The rows of one dimension count, in a column, the entries of a set. *)
DsStands(rows, d, I, c) ==
    /\ \A v \in DOMAIN rows : rows[v][c] = Cardinality(DsHitsIn(I, <<d, v>>, c))
    /\ \A v : DsHitsIn(I, <<d, v>>, c) # {} => v \in DOMAIN rows

(* A ranking of them is the one counted from the entries. *)
LEMMA DsRankedBy ==
    ASSUME DsKinds, NEW I, I \subseteq DOMAIN dsSeen, NEW rows, NEW d, NEW c, DsStands(rows, d, I, c),
           NEW J, NEW column, \A v : DsHitsIn(I, <<d, v>>, c) = {i \in J : DsEntry(i)[column] = v}
    PROVE  DsRanked(rows, c) = DsBy(column, J)
<1> DEFINE Hits(v) == {i \in J : DsEntry(i)[column] = v}
           shown == {v \in DOMAIN rows : rows[v][c] > 0}
           named == {DsEntry(i)[column] : i \in J}
<1>1. \A v : Hits(v) = DsHitsIn(I, <<d, v>>, c)
  OBVIOUS
<1>2. \A v : Cardinality(Hits(v)) \in Nat /\ (Cardinality(Hits(v)) = 0 <=> Hits(v) = {})
  <2> SUFFICES ASSUME NEW v PROVE Cardinality(Hits(v)) \in Nat /\ (Cardinality(Hits(v)) = 0 <=> Hits(v) = {})
    OBVIOUS
  <2>1. PICK X : X = Hits(v)
    OBVIOUS
  <2>2. X \subseteq DOMAIN dsSeen
    BY <1>1, <2>1 DEF DsHitsIn
  <2>3. IsFiniteSet(X) /\ Cardinality(X) \in Nat
    BY <2>2, DsFinite
  <2> QED BY <2>1, <2>3, FS_EmptySet
<1>3. \A v : v \in named <=> Hits(v) # {}
  OBVIOUS
<1>4. /\ \A v \in DOMAIN rows : rows[v][c] = Cardinality(Hits(v))
      /\ \A v : Hits(v) # {} => v \in DOMAIN rows
  BY DEF DsStands
<1>5. DsRanked(rows, c) = [v \in shown |-> rows[v][c]]
  BY DEF DsRanked
<1>6. DsBy(column, J) = [v \in named |-> Cardinality(Hits(v))]
  BY DEF DsBy
<1> HIDE DEF Hits, named
<1>7. \A v : v \in shown <=> v \in named
  BY <1>2, <1>3, <1>4
<1>8. \A v \in shown : rows[v][c] = Cardinality(Hits(v))
  BY <1>4
<1>9. shown = named
  BY <1>7
<1> HIDE DEF shown
<1> QED BY <1>5, <1>6, <1>8, <1>9

(* The hourly rows of a window that was never kept shorter. *)
LEMMA DsWindowStands ==
    ASSUME DsKinds, DsHourExact, NEW w \in Nat \ {0}, w <= dsLeast, NEW d, NEW c \in DsColumns
    PROVE  DsStands(DsRead(d, w), d, DsSince(DsBack(w)), c)
<1> DEFINE rows == DsRead(d, w)
<1>1. \A key : \A h \in (dsNow - w)..dsNow : \A b \in DsColumns :
          DsAt(dsHour, <<h, key>>)[b] = Cardinality(DsHits(h, key, b))
  BY DsWindowWhole
<1>2. \A key : DsSumSince(key, w)[c] = Cardinality(DsHitsIn(DsSince(DsBack(w)), key, c))
  BY <1>1, DsSumIs
<1>3. rows = [v \in {k[2] : k \in {x \in DsKeysSince(w) : x[1] = d}} |-> DsSumSince(<<d, v>>, w)]
  BY DEF DsRead
<1>4. \A v \in DOMAIN rows : rows[v] = DsSumSince(<<d, v>>, w)
  BY <1>3
<1>5. ASSUME NEW v, NEW i \in DsHitsIn(DsSince(DsBack(w)), <<d, v>>, c)
      PROVE  v \in DOMAIN rows
  <2>1. PICK key : key = <<d, v>>
    OBVIOUS
  <2>2. key \in DsKeysSince(w)
    BY <1>1, <1>5, <2>1, DsKeyFound
  <2>3. key[1] = d /\ key[2] = v
    BY <2>1
  <2> QED BY <1>3, <2>2, <2>3
<1> HIDE DEF rows
<1>6. \A v \in DOMAIN rows : rows[v][c] = Cardinality(DsHitsIn(DsSince(DsBack(w)), <<d, v>>, c))
  BY <1>2, <1>4
<1>7. \A v : DsHitsIn(DsSince(DsBack(w)), <<d, v>>, c) # {} => v \in DOMAIN rows
  BY <1>5
<1>8. DsStands(rows, d, DsSince(DsBack(w)), c)
  BY <1>6, <1>7 DEF DsStands
<1> QED BY <1>8 DEF rows

(* The lifetime rows, for all but the bytes. *)
LEMMA DsLifeStands ==
    ASSUME DsKinds, DsLifeExact, dsWhole, NEW d, NEW c \in DsColumns \ {"bytes"}
    PROVE  DsStands(DsRead(d, 0), d, dsCounted, c)
<1> DEFINE rows == DsRead(d, 0)
<1>1. \A key : DsAt(dsLife, key)[c] = Cardinality(DsHitsIn(dsCounted, key, c))
  BY DEF DsLifeExact
<1>2. rows = [v \in {k[2] : k \in {x \in DOMAIN dsLife : x[1] = d}} |-> DsAt(dsLife, <<d, v>>)]
  BY DEF DsRead
<1>3. \A v \in DOMAIN rows : rows[v] = DsAt(dsLife, <<d, v>>)
  BY <1>2
<1>4. ASSUME NEW v, NEW i \in DsHitsIn(dsCounted, <<d, v>>, c)
      PROVE  v \in DOMAIN rows
  <2>1. PICK key : key = <<d, v>>
    OBVIOUS
  <2>2. PICK X : X = DsHitsIn(dsCounted, key, c)
    OBVIOUS
  <2>3. X \subseteq DOMAIN dsSeen
    BY <2>2 DEF DsHitsIn, DsKinds
  <2>4. IsFiniteSet(X)
    BY <2>3, DsFinite
  <2>5. Cardinality(X) # 0
    BY <1>4, <2>1, <2>2, <2>4, FS_EmptySet
  <2>6. DsAt(dsLife, key)[c] # 0
    BY <1>1, <2>2, <2>5
  <2>7. key \in DOMAIN dsLife
    BY <2>6 DEF DsAt
  <2>8. key[1] = d /\ key[2] = v
    BY <2>1
  <2> QED BY <1>2, <2>7, <2>8
<1> HIDE DEF rows
<1>5. \A v \in DOMAIN rows : rows[v][c] = Cardinality(DsHitsIn(dsCounted, <<d, v>>, c))
  BY <1>1, <1>3
<1>6. \A v : DsHitsIn(dsCounted, <<d, v>>, c) # {} => v \in DOMAIN rows
  BY <1>4
<1>7. DsStands(rows, d, dsCounted, c)
  BY <1>5, <1>6 DEF DsStands
<1> QED BY <1>7 DEF rows

------------------------------------------------------------------------------
(* The sum of the columns is the record of the totals. *)
LEMMA DsTotalsIs ==
    ASSUME DsKinds, NEW I, I \subseteq DOMAIN dsSeen, NEW t, t = [c \in DsColumns |-> t[c]],
           \A c \in DsColumns : t[c] = Cardinality(DsHitsIn(I, DsTotalKey, c))
    PROVE  t = DsTotals(I)
<1>1. /\ t["queries"] = Cardinality(DsAsked(I)) /\ t["blocked"] = Cardinality(DsOutcome(I, "blocked"))
      /\ t["requests"] = 0 /\ t["bytes"] = Cardinality(I)
  <2>1. /\ t["queries"] = Cardinality(DsHitsIn(I, DsTotalKey, "queries"))
        /\ t["blocked"] = Cardinality(DsHitsIn(I, DsTotalKey, "blocked"))
        /\ t["requests"] = Cardinality(DsHitsIn(I, DsTotalKey, "requests"))
        /\ t["bytes"] = Cardinality(DsHitsIn(I, DsTotalKey, "bytes"))
    BY DEF DsColumns
  <2>2. Cardinality({}) = 0
    BY FS_EmptySet
  <2> QED BY <2>1, <2>2, DsRankingHits
<1>2. PICK u : u = DsTotals(I)
  OBVIOUS
<1>3. u = [c \in DsColumns |-> t[c]]
  <2>1. u = [queries |-> t["queries"], blocked |-> t["blocked"], requests |-> t["requests"], bytes |-> t["bytes"]]
    BY <1>1, <1>2 DEF DsTotals
  <2> QED BY <2>1 DEF DsColumns
<1> QED BY <1>2, <1>3

(* The totals of a window, and the trend. *)
LEMMA DsWindowTotals ==
    ASSUME DsKinds, DsHourExact, NEW w \in Nat \ {0}, w <= dsLeast
    PROVE  DsTotalLogCounts(w) = DsTotals(DsSince(DsBack(w)))
<1> DEFINE rows == DsRead("total", w)
           I == DsSince(DsBack(w))
<1>1. \A key : \A h \in (dsNow - w)..dsNow : \A c \in DsColumns :
          DsAt(dsHour, <<h, key>>)[c] = Cardinality(DsHits(h, key, c))
  BY DsWindowWhole
<1>2. /\ \A c \in DsColumns : DsSumSince(DsTotalKey, w)[c] = Cardinality(DsHitsIn(I, DsTotalKey, c))
      /\ DsSumSince(DsTotalKey, w) = [c \in DsColumns |-> DsSumSince(DsTotalKey, w)[c]]
  BY <1>1, DsSumIs
<1>3. I \subseteq DOMAIN dsSeen
  BY DEF DsSince
<1>4. PICK t : t = DsTotalLogCounts(w)
  OBVIOUS
<1>5. rows = [v \in {k[2] : k \in {x \in DsKeysSince(w) : x[1] = "total"}} |-> DsSumSince(<<"total", v>>, w)]
  BY DEF DsRead
<1>6. t = IF "" \in DOMAIN rows THEN rows[""] ELSE [c \in DsColumns |-> 0]
  BY <1>4 DEF DsTotalLogCounts, DsAt
<1>7. CASE "" \in DOMAIN rows
  <2>1. t = DsSumSince(DsTotalKey, w)
    BY <1>5, <1>6, <1>7 DEF DsTotalKey
  <2> HIDE DEF I
  <2>2. t = [c \in DsColumns |-> t[c]] /\ \A c \in DsColumns : t[c] = Cardinality(DsHitsIn(I, DsTotalKey, c))
    BY <1>2, <2>1
  <2>3. t = DsTotals(I)
    BY <1>3, <2>2, DsTotalsIs
  <2> QED BY <1>4, <2>3 DEF I
<1>8. CASE "" \notin DOMAIN rows
  <2>1. t = [c \in DsColumns |-> 0]
    BY <1>6, <1>8
  <2>2. ASSUME NEW c \in DsColumns PROVE DsHitsIn(I, DsTotalKey, c) = {}
    <3>1. DsStands(rows, "total", I, c)
      BY DsWindowStands
    <3>2. DsHitsIn(I, <<"total", "">>, c) # {} => "" \in DOMAIN rows
      BY <3>1 DEF DsStands
    <3> QED BY <1>8, <3>2 DEF DsTotalKey
  <2> HIDE DEF I
  <2>3. t = [c \in DsColumns |-> t[c]] /\ \A c \in DsColumns : t[c] = Cardinality(DsHitsIn(I, DsTotalKey, c))
    BY <2>1, <2>2, FS_EmptySet
  <2>4. t = DsTotals(I)
    BY <1>3, <2>3, DsTotalsIs
  <2> QED BY <1>4, <2>4 DEF I
<1> QED BY <1>7, <1>8

LEMMA DsTrendIs ==
    ASSUME DsKinds, DsHourExact
    PROVE  DsTrendComplete
<1> DEFINE I == DsSince(DsBack(DsTrend))
<1>0. DsTrend \in Nat
  BY DsNumbers
<1>1. \A h \in (dsNow - DsTrend)..dsNow : \A c \in DsColumns :
          DsAt(dsHour, <<h, DsTotalKey>>)[c] = Cardinality(DsHits(h, DsTotalKey, c))
  BY <1>0, DsWindowWhole
<1>2. /\ \A c \in DsColumns : DsSumSince(DsTotalKey, DsTrend)[c] = Cardinality(DsHitsIn(I, DsTotalKey, c))
      /\ DsSumSince(DsTotalKey, DsTrend) = [c \in DsColumns |-> DsSumSince(DsTotalKey, DsTrend)[c]]
  BY <1>0, <1>1, DsSumIs
<1>3. I \subseteq DOMAIN dsSeen
  BY DEF DsSince
<1>4. PICK t : t = DsSumSince(DsTotalKey, DsTrend)
  OBVIOUS
<1>5. t = [c \in DsColumns |-> t[c]] /\ \A c \in DsColumns : t[c] = Cardinality(DsHitsIn(I, DsTotalKey, c))
  <2> HIDE DEF I
  <2> QED BY <1>2, <1>4
<1>6. t = DsTotals(I)
  <2> HIDE DEF I
  <2> QED BY <1>3, <1>5, DsTotalsIs
<1>7. t = DsTrafficBuckets
  BY <1>4 DEF DsTrafficBuckets, DsTotalKey
<1> QED BY <1>6, <1>7 DEF DsTrendComplete

------------------------------------------------------------------------------
(* All that the dashboard shows of a window. *)
LEMMA DsStatsIs ==
    ASSUME DsKinds, NEW w, NEW I, I \subseteq DOMAIN dsSeen,
           \A d : \A c \in DsColumns \ {"bytes"} : DsStands(DsRead(d, w), d, I, c)
    PROVE  /\ DsGroupedDomainCounts(w) = <<DsBy("domain", DsAsked(I)), DsBy("domain", DsOutcome(I, "blocked"))>>
           /\ DsClientCounts(w) = <<DsBy("client", DsAsked(I)), DsBy("client", DsOutcome(I, "blocked"))>>
           /\ DsBlocklistHitCounts(w) = DsBy("source", DsOutcome(I, "blocked"))
           /\ DsUpstreamRequestCounts(w) = DsBy("upstream", DsOutcome(I, "forwarded"))
<1>1. \A d : /\ DsStands(DsRead(d, w), d, I, "queries") /\ DsStands(DsRead(d, w), d, I, "blocked")
             /\ DsStands(DsRead(d, w), d, I, "requests")
  BY DEF DsColumns
<1>2. DsRanked(DsRead("domain", w), "queries") = DsBy("domain", DsAsked(I))
  BY <1>1, DsRankedBy, DsRankingHits
<1>3. DsRanked(DsRead("domain", w), "blocked") = DsBy("domain", DsOutcome(I, "blocked"))
  BY <1>1, DsRankedBy, DsRankingHits
<1>4. DsRanked(DsRead("client", w), "queries") = DsBy("client", DsAsked(I))
  BY <1>1, DsRankedBy, DsRankingHits
<1>5. DsRanked(DsRead("client", w), "blocked") = DsBy("client", DsOutcome(I, "blocked"))
  BY <1>1, DsRankedBy, DsRankingHits
<1>6. DsRanked(DsRead("blocklist", w), "blocked") = DsBy("source", DsOutcome(I, "blocked"))
  BY <1>1, DsRankedBy, DsRankingHits
<1>7. DsRanked(DsRead("upstream", w), "requests") = DsBy("upstream", DsOutcome(I, "forwarded"))
  BY <1>1, DsRankedBy, DsRankingHits
<1> QED BY <1>2, <1>3, <1>4, <1>5, <1>6, <1>7
           DEF DsGroupedDomainCounts, DsClientCounts, DsBlocklistHitCounts, DsUpstreamRequestCounts

LEMMA DsTrafficIs ==
    ASSUME DsKinds, NEW w, NEW I, I \subseteq DOMAIN dsSeen,
           \A d : DsStands(DsRead(d, w), d, I, "bytes")
    PROVE  /\ DsTrafficRank("domain", w) = DsBy("domain", DsAsked(I))
           /\ DsTrafficRank("client", w) = DsBy("client", DsAsked(I))
<1>1. DsRanked(DsRead("domain", w), "bytes") = DsBy("domain", DsAsked(I))
  BY DsRankedBy, DsRankingHits
<1>2. DsRanked(DsRead("client", w), "bytes") = DsBy("client", DsAsked(I))
  BY DsRankedBy, DsRankingHits
<1> QED BY <1>1, <1>2 DEF DsTrafficRank

LEMMA DsWindowsAre ==
    ASSUME DsKinds, DsHourExact
    PROVE  DsWindowsComplete
<1> SUFFICES ASSUME NEW hours \in 1..DsMaxRetention, DsWindow(hours) <= dsLeast
             PROVE  DsLogStats(DsWindow(hours)) = DsExpected(DsSince(DsBack(DsWindow(hours))))
  BY DEF DsWindowsComplete
<1>1. DsWindow(hours) \in Nat \ {0}
  BY DsNumbers DEF DsWindow
<1>2. PICK w : w = DsWindow(hours)
  OBVIOUS
<1>3. w \in Nat \ {0} /\ w <= dsLeast
  BY <1>1, <1>2
<1>4. PICK I : I = DsSince(DsBack(w))
  OBVIOUS
<1>5. I \subseteq DOMAIN dsSeen
  BY <1>4 DEF DsSince
<1>6. \A d : \A c \in DsColumns : DsStands(DsRead(d, w), d, I, c)
  BY <1>3, <1>4, DsWindowStands
<1>7. DsTotalLogCounts(w) = DsTotals(I)
  BY <1>3, <1>4, DsWindowTotals
<1>8. /\ DsGroupedDomainCounts(w) = <<DsBy("domain", DsAsked(I)), DsBy("domain", DsOutcome(I, "blocked"))>>
      /\ DsClientCounts(w) = <<DsBy("client", DsAsked(I)), DsBy("client", DsOutcome(I, "blocked"))>>
      /\ DsBlocklistHitCounts(w) = DsBy("source", DsOutcome(I, "blocked"))
      /\ DsUpstreamRequestCounts(w) = DsBy("upstream", DsOutcome(I, "forwarded"))
  BY <1>5, <1>6, DsStatsIs
<1>9. /\ DsTrafficRank("domain", w) = DsBy("domain", DsAsked(I))
      /\ DsTrafficRank("client", w) = DsBy("client", DsAsked(I))
  BY <1>5, <1>6, DsTrafficIs DEF DsColumns
<1>10. DsLogStats(w) = DsExpected(I)
  BY <1>7, <1>8, <1>9 DEF DsLogStats, DsExpected
<1> QED BY <1>2, <1>4, <1>10

LEMMA DsLifetimeIs ==
    ASSUME DsKinds, DsLifeExact
    PROVE  DsLifetimeExact
<1> SUFFICES ASSUME dsWhole PROVE DsLifetimeExact
  BY DEF DsLifetimeExact
<1>1. PICK I : I = dsCounted
  OBVIOUS
<1>2. I \subseteq DOMAIN dsSeen
  BY <1>1 DEF DsKinds
<1>3. \A d : \A c \in DsColumns \ {"bytes"} : DsStands(DsRead(d, 0), d, I, c)
  BY <1>1, DsLifeStands
<1>4. /\ DsGroupedDomainCounts(0) = <<DsBy("domain", DsAsked(I)), DsBy("domain", DsOutcome(I, "blocked"))>>
      /\ DsClientCounts(0) = <<DsBy("client", DsAsked(I)), DsBy("client", DsOutcome(I, "blocked"))>>
      /\ DsBlocklistHitCounts(0) = DsBy("source", DsOutcome(I, "blocked"))
      /\ DsUpstreamRequestCounts(0) = DsBy("upstream", DsOutcome(I, "forwarded"))
  BY <1>2, <1>3, DsStatsIs
<1>5. DsTotalLogCounts(0)["queries"] = Cardinality(DsAsked(I))
      /\ DsTotalLogCounts(0)["blocked"] = Cardinality(DsOutcome(I, "blocked"))
  <2>1. ASSUME NEW c \in {"queries", "blocked"}
        PROVE  DsTotalLogCounts(0)[c] = Cardinality(DsHitsIn(I, DsTotalKey, c))
    <3> DEFINE rows == DsRead("total", 0)
    <3>1. DsStands(rows, "total", I, c)
      BY <1>3 DEF DsColumns
    <3>2. DsTotalLogCounts(0) = IF "" \in DOMAIN rows THEN rows[""] ELSE [b \in DsColumns |-> 0]
      BY DEF DsTotalLogCounts, DsAt
    <3> HIDE DEF rows
    <3>3. /\ "" \in DOMAIN rows => rows[""][c] = Cardinality(DsHitsIn(I, DsTotalKey, c))
          /\ "" \notin DOMAIN rows => DsHitsIn(I, DsTotalKey, c) = {}
      BY <3>1 DEF DsStands, DsTotalKey
    <3>4. c \in DsColumns
      BY DEF DsColumns
    <3>5. CASE "" \in DOMAIN rows
      BY <3>2, <3>3, <3>5
    <3>6. CASE "" \notin DOMAIN rows
      BY <3>2, <3>3, <3>4, <3>6, FS_EmptySet
    <3> QED BY <3>5, <3>6
  <2> QED BY <1>2, <2>1, DsRankingHits
<1>6. PICK s, x : s = DsLogStats(0) /\ x = DsExpected(I)
  OBVIOUS
<1>7. /\ s.totals.queries = DsTotalLogCounts(0)["queries"] /\ s.totals.blocked = DsTotalLogCounts(0)["blocked"]
      /\ s["domains"] = DsGroupedDomainCounts(0) /\ s["clients"] = DsClientCounts(0)
      /\ s["blocklists"] = DsBlocklistHitCounts(0) /\ s["upstreams"] = DsUpstreamRequestCounts(0)
  BY <1>6 DEF DsLogStats
<1>8. /\ x.totals.queries = Cardinality(DsAsked(I)) /\ x.totals.blocked = Cardinality(DsOutcome(I, "blocked"))
      /\ x["domains"] = <<DsBy("domain", DsAsked(I)), DsBy("domain", DsOutcome(I, "blocked"))>>
      /\ x["clients"] = <<DsBy("client", DsAsked(I)), DsBy("client", DsOutcome(I, "blocked"))>>
      /\ x["blocklists"] = DsBy("source", DsOutcome(I, "blocked"))
      /\ x["upstreams"] = DsBy("upstream", DsOutcome(I, "forwarded"))
  BY <1>6 DEF DsExpected, DsTotals
<1>9. /\ s.totals.queries = x.totals.queries /\ s.totals.blocked = x.totals.blocked
      /\ \A part \in {"domains", "clients", "blocklists", "upstreams"} : s[part] = x[part]
  BY <1>4, <1>5, <1>7, <1>8
<1> QED BY <1>1, <1>6, <1>9 DEF DsLifetimeExact

(* The pages shown. *)
LEMMA DsPagesAre ==
    ASSUME DsLogOrdered, DsReads
    PROVE  DsPagesComplete
<1>1. CASE dsReader = DsNobody
  BY <1>1 DEF DsNobody, DsPagesComplete
<1>2. CASE dsReader # DsNobody
  <2>1. /\ DsReader(dsReader)
        /\ dsReader.done => \A row \in DsVisible : row.id \in dsReader.wanted => row.id \in Range(dsReader.got)
    BY <1>2 DEF DsReads, DsReadToEnd, DsReadable
  <2>2. /\ Len(dsReader.got) \in Nat /\ DOMAIN dsReader.got = 1..Len(dsReader.got)
        /\ \A i \in DOMAIN dsReader.got : dsReader.got[i] \in Int
    BY <2>1 DEF DsReader
  <2>3. \A i, j \in DOMAIN dsReader.got : i < j => dsReader.got[i] # dsReader.got[j]
    BY <2>1, <2>2 DEF DsReader, DsOnwards
  <2>4. \A i, j \in DOMAIN dsReader.got : i # j => dsReader.got[i] # dsReader.got[j]
    BY <2>2, <2>3
  <2>5. dsReader.done => dsReader.wanted \cap DsIds(DsVisible) \subseteq Range(dsReader.got)
    BY <2>1 DEF DsIds
  <2> QED BY <2>4, <2>5 DEF DsPagesComplete
<1> QED BY <1>1, <1>2

LEMMA DsRightRight == DsRight => DsStatisticsRight
<1> SUFFICES ASSUME DsRight PROVE DsStatisticsRight
  OBVIOUS
<1>1. DsKinds /\ DsHourExact /\ DsLifeExact /\ DsLogOrdered /\ DsReads
  BY DEF DsRight
<1>2. DsTypeOK
  BY <1>1 DEF DsTypeOK, DsKinds, DsLogOrdered
<1> QED BY <1>1, <1>2, DsWindowsAre, DsTrendIs, DsLifetimeIs, DsPagesAre DEF DsStatisticsRight

(* Windows, trend, lifetime counts and pages show what was recorded, for    *)
(* every retention, window, page size and number of entries: StatisticsStore *)
(* keeps DsStatisticsRight.                                                  *)
THEOREM DsStatisticsCorrect == DsSpec => []DsStatisticsRight
  BY DsInvariant, DsRightRight, PTL
=============================================================================
