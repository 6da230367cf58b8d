------------------------- MODULE RioProducerProofs --------------------------
(***************************************************************************)
(* Proofs about RioProducer for every number of packets and of groups and  *)
(* every packet limit.                                                     *)
(***************************************************************************)
EXTENDS RioProducer, SharedLemmas

-----------------------------------------------------------------------------
(* Dequeuing *)

LEMMA DequeueSplits ==
  ASSUME NEW S, completionQueue \in Seq(S), NEW max \in Nat \ {0}, RIODequeueCompletion(max)
  PROVE  /\ Dequeued(max) \in Seq(S) /\ completionQueue' \in Seq(S)
         /\ Len(Dequeued(max)) + Len(completionQueue') = Len(completionQueue)
         /\ Len(Dequeued(max)) <= max
         /\ completionQueue # <<>> => Len(Dequeued(max)) > 0
         /\ completionQueue = <<>> => Dequeued(max) = <<>> /\ completionQueue' = <<>>
<1>1. Dequeued(max) \in Seq(S) /\ completionQueue' \in Seq(S)
  BY BatchCut DEF Dequeued, RIODequeueCompletion
<1>2. Len(completionQueue') = Len(completionQueue) - Len(Dequeued(max))
  <2> DEFINE k == Len(Dequeued(max))
  <2>1. k \in 0 .. Len(completionQueue)
    BY BatchCut DEF Dequeued, RIODequeueCompletion
  <2>2. completionQueue' = SubSeq(completionQueue, k + 1, Len(completionQueue))
    BY DEF RIODequeueCompletion
  <2> HIDE DEF k
  <2> QED
    BY <2>1, <2>2, QueueCut DEF k
<1>3. Len(Dequeued(max)) <= max
  BY BatchCut DEF Dequeued, RIODequeueCompletion
<1>4. completionQueue # <<>> => Len(Dequeued(max)) > 0
  BY BatchCut DEF Dequeued, RIODequeueCompletion
<1>5. completionQueue = <<>> => Dequeued(max) = <<>> /\ completionQueue' = <<>>
  BY BatchCut DEF Dequeued, RIODequeueCompletion
<1> QED
  BY <1>1, <1>2, <1>3, <1>4, <1>5

\* Dequeuing moves completions, and keeps their order.
LEMMA DequeueKeeps ==
  ASSUME NEW S, completionQueue \in Seq(S), NEW max \in Nat \ {0}, RIODequeueCompletion(max)
  PROVE  \A i \in 1 .. Len(completionQueue) :
           completionQueue[i] = IF i <= Len(Dequeued(max)) THEN Dequeued(max)[i]
                                ELSE completionQueue'[i - Len(Dequeued(max))]
  BY BatchCut DEF Dequeued, RIODequeueCompletion

-----------------------------------------------------------------------------
(* Descriptors, packets and groups *)

LEMMA PositiveProduct ==
  ASSUME NEW a \in Nat \ {0}, NEW b \in Nat \ {0}
  PROVE  a * b \in Nat \ {0}
  BY SMT

LEMMA QuotientBelow ==
  ASSUME NEW n \in Nat \ {0}, NEW r \in Nat \ {0}, NEW d \in 0 .. r * n - 1
  PROVE  d \div n \in 0 .. r - 1
<1>1. d \in Nat /\ d < r * n
  <2>1. r * n \in Nat
    BY SMT
  <2> QED
    BY <2>1
<1>2. d \div n \in Nat /\ (d \div n) * n <= d
  BY <1>1, SMT
<1>3. d \div n < r
  <2>1. SUFFICES ASSUME d \div n >= r PROVE FALSE
    BY <1>2
  <2>2. r * n <= (d \div n) * n
    BY <1>2, <2>1, SMT
  <2>3. r * n \in Nat /\ (d \div n) * n \in Nat
    BY <1>2, SMT
  <2> QED
    BY <1>1, <1>2, <2>2, <2>3
<1> QED
  BY <1>2, <1>3

LEMMA PacketOfType ==
  ASSUME numGroups \in GroupCounts, NEW d \in Descriptors
  PROVE  PacketOf(d) \in Packets
<1>1. numGroups \in Nat \ {0} /\ PacketRate \in Nat \ {0}
  BY ProducerAssumption
<1> QED
  BY <1>1, QuotientBelow DEF PacketOf, Packets, Descriptors, MaxOutstandingSend

(* The statistics of a group keep their type when a packet is counted.     *)
LEMMA ProducerUpdateType ==
  ASSUME NEW st \in GroupStatsType
  PROVE  ProducerStatsUpdate(st) \in GroupStatsType
<1>1. \A s \in GroupStatsType, x \in Nat, y \in Nat :
        [s EXCEPT !.Sequence = x, !.Packets = y] \in GroupStatsType
  BY DEF GroupStatsType
<1>2. st.Packets \in Nat /\ st.Packets + 1 \in Nat
  BY DEF GroupStatsType
<1> QED
  BY <1>1, <1>2 DEF ProducerStatsUpdate

-----------------------------------------------------------------------------
(* The inductive invariants *)

(* All descriptors are in use from the end of PostFirstSend on.            *)
SendInv ==
  /\ Outstanding + Len(results) = posted
  /\ pc = "start" => posted = 0
  /\ pc = "post" => posted < MaxOutstandingSend
  /\ pc \notin {"start", "post"} => posted = MaxOutstandingSend
  /\ pc # "process" => results = <<>>
  /\ pc # "requestError"

CoreInv == TypeOK /\ SendInv

(* Only the waiting thread has a notification, and it has one for certain. *)
WakeInv ==
  /\ InfiniteWaitIsAnswered
  /\ pc # "wait" => ~armed /\ iocp = 0
  /\ pc = "dequeue" => completionQueue # <<>>

(* The limit was not reached when the batch in hand was taken.             *)
LimitInv ==
  PktsToCount > 0 =>
    /\ totalPkts < PktsToCount + MaxOutstandingSend
    /\ pc \in {"notify", "wait", "dequeue"} => totalPkts < PktsToCount
    /\ pc = "process" => totalPkts + Len(results) < PktsToCount + MaxOutstandingSend
    /\ pc \in {"start", "post"} => totalPkts <= posted

(* The number of packets counted, as the two counters write it.            *)
RotationInv ==
  /\ pc \in {"start", "post"} =>
       /\ totalPkts = posted % TotalMod /\ groupCounter = 0
       /\ \/ posted = 0 /\ sequenceNumber = 0
          \/ sequenceNumber = PacketRate
  /\ RotationExact

(* In a round over the groups that has come to `slot`, those before it are *)
(* one packet ahead of those from it on.                                   *)
Ahead(slot) ==
  \A g, h \in GroupIndices :
    g < h => groupStats[g].Packets >=
               groupStats[h].Packets + IF g < slot /\ slot <= h THEN 1 ELSE 0

OrderInv ==
  /\ pc \in {"start", "post"} => batchIndex = 0 /\ Ahead(posted % numGroups)
  /\ pc \notin {"start", "post"} => Ahead(batchIndex % numGroups)

-----------------------------------------------------------------------------
(* Types, and the sends *)

(* The numbers that the conservation of sends is about.                    *)
LEMMA Lengths ==
  ASSUME TypeOK
  PROVE  /\ Len(requestQueue) \in Nat /\ Len(completionQueue) \in Nat /\ Len(results) \in Nat
         /\ posted \in Nat /\ numGroups \in Nat \ {0} /\ PacketRate \in Nat \ {0}
         /\ MaxOutstandingSend \in Nat \ {0}
<1>1. numGroups \in Nat \ {0} /\ PacketRate \in Nat \ {0}
  BY ProducerAssumption DEF TypeOK
<1>2. MaxOutstandingSend \in Nat \ {0}
  BY <1>1, PositiveProduct DEF MaxOutstandingSend
<1> QED
  BY <1>1, <1>2 DEF TypeOK

LEMMA CoreInit == Init => CoreInv
<1> SUFFICES ASSUME Init PROVE CoreInv
  OBVIOUS
<1>1. numGroups \in Nat \ {0} /\ PacketRate \in Nat \ {0} /\ MaxOutstandingSend \in Nat \ {0}
  <2>1. numGroups \in Nat \ {0} /\ PacketRate \in Nat \ {0}
    BY ProducerAssumption DEF Init
  <2> QED
    BY <2>1, PositiveProduct DEF MaxOutstandingSend
<1>2. SessionTypeOK /\ DOMAIN groupStats = GroupIndices
  <2>1. InitGroupStats \in GroupStatsType
    BY DEF InitGroupStats, GroupStatsType
  <2>2. /\ armed = FALSE /\ iocp = 0 /\ exitSignal = FALSE /\ totalPkts = 0 /\ timeUp = FALSE
        /\ groupStats = [g \in GroupIndices |-> InitGroupStats]
        /\ pc = "start" /\ report = "none" /\ socketOpen = TRUE /\ buffersRegistered = TRUE
    BY DEF Init, SessionInit, RioInit
  <2>3. totalPkts \in 0 .. TotalMod - 1
    BY <2>2, SessionAssumption
  <2>4. \A g \in DOMAIN groupStats : groupStats[g] \in GroupStatsType
    BY <2>1, <2>2
  <2> QED
    BY <2>2, <2>3, <2>4 DEF SessionTypeOK
<1>3. /\ requestQueue = <<>> /\ completionQueue = <<>> /\ results = <<>> /\ wire = <<>>
      /\ posted = 0 /\ batchIndex = 0 /\ groupCounter = 0 /\ sequenceNumber = 0 /\ onWire = 0
      /\ payload = [b \in Packets |-> 0] /\ pc = "start"
  BY DEF Init, SessionInit, RioInit
<1>4. TypeOK
  <2>1. 0 \in GroupIndices /\ 0 \in 0 .. MaxOutstandingSend
    BY <1>1 DEF GroupIndices
  <2> QED
    BY <1>2, <1>3, <2>1 DEF TypeOK, Init
<1>5. SendInv
  BY <1>3 DEF SendInv, Outstanding
<1> QED
  BY <1>4, <1>5 DEF CoreInv

(* A send that is requested and counted: what PostFirstSend and            *)
(* ProcessResult share.                                                    *)
LEMMA SendStep ==
  ASSUME TypeOK, NEW d \in Descriptors, NEW g \in GroupIndices, NEW next,
         Outstanding < MaxOutstandingSend, RIOSendEx(d, g, next), CountSend(g)
  PROVE  /\ requestQueue' = Append(requestQueue, [desc |-> d, group |-> g])
         /\ requestQueue' \in Seq(Request) /\ Len(requestQueue') = Len(requestQueue) + 1
         /\ UNCHANGED <<completionQueue, armed, iocp>> /\ pc' = next
         /\ totalPkts' \in 0 .. TotalMod - 1
         /\ DOMAIN groupStats' = GroupIndices
         /\ \A h \in GroupIndices : groupStats'[h] \in GroupStatsType
<1>1. /\ requestQueue' = Append(requestQueue, [desc |-> d, group |-> g])
      /\ UNCHANGED <<completionQueue, armed, iocp>> /\ pc' = next
  BY DEF RIOSendEx, PostRequest
<1>2. requestQueue' \in Seq(Request) /\ Len(requestQueue') = Len(requestQueue) + 1
  <2>1. [desc |-> d, group |-> g] \in Request
    BY DEF Request
  <2> QED
    BY <1>1, <2>1, AppendProperties DEF TypeOK
<1>3. totalPkts' \in 0 .. TotalMod - 1
  <2>1. totalPkts + 1 \in Nat /\ TotalMod \in Nat \ {0}
    BY SessionAssumption DEF TypeOK, SessionTypeOK
  <2> QED
    BY <2>1, ModRange DEF CountSend, IncrementedTotal
<1>4. /\ DOMAIN groupStats' = GroupIndices
      /\ \A h \in GroupIndices : groupStats'[h] \in GroupStatsType
  <2> DEFINE u == ProducerStatsUpdate(StatsOf(g))
  <2>1. DOMAIN groupStats = GroupIndices
        /\ \A h \in GroupIndices : groupStats[h] \in GroupStatsType
    BY DEF TypeOK, SessionTypeOK
  <2>2. u \in GroupStatsType
    BY <2>1, ProducerUpdateType DEF StatsOf
  <2>3. groupStats' = [h \in DOMAIN groupStats \cup {g} |-> IF h = g THEN u ELSE groupStats[h]]
    BY DEF CountSend, SetStats
  <2> HIDE DEF u
  <2> QED
    BY <2>1, <2>2, <2>3
<1> QED
  BY <1>1, <1>2, <1>3, <1>4

LEMMA CorePost ==
  ASSUME CoreInv, PostFirstSend
  PROVE  CoreInv'
<1> DEFINE g == posted % numGroups
<1>1. TypeOK /\ SendInv /\ pc = "post" /\ results = <<>>
  BY DEF CoreInv, SendInv, PostFirstSend
<1>2. posted \in Descriptors /\ Outstanding = posted /\ posted < MaxOutstandingSend
  BY <1>1, Lengths DEF SendInv, Outstanding, Descriptors
<1>3. g \in GroupIndices
  BY <1>1, Lengths, ModRange DEF GroupIndices
<1>4. RIOSendEx(posted, g, AfterFirstSend(posted)) /\ CountSend(g) /\ posted' = posted + 1
  BY DEF PostFirstSend
<1> HIDE DEF g
<1>5. /\ requestQueue' \in Seq(Request) /\ Len(requestQueue') = Len(requestQueue) + 1
      /\ UNCHANGED <<completionQueue, armed, iocp>> /\ pc' = AfterFirstSend(posted)
      /\ totalPkts' \in 0 .. TotalMod - 1 /\ DOMAIN groupStats' = GroupIndices
      /\ \A h \in GroupIndices : groupStats'[h] \in GroupStatsType
  BY <1>1, <1>2, <1>3, <1>4, SendStep
<1>6. UNCHANGED <<exitSignal, timeUp, report, socketOpen, buffersRegistered, numGroups, results,
                  batchIndex, groupCounter, sequenceNumber, payload, onWire, wire>>
  BY DEF PostFirstSend, resourceVars, loopVars, adapterVars
<1>7. pc' = IF posted + 1 = MaxOutstandingSend THEN "check" ELSE "post"
  BY <1>5 DEF AfterFirstSend
<1>8. MaxOutstandingSend' = MaxOutstandingSend /\ GroupIndices' = GroupIndices
      /\ Request' = Request /\ Descriptors' = Descriptors
  BY <1>6 DEF MaxOutstandingSend, GroupIndices, Request, Descriptors
<1>9. SessionTypeOK'
  BY <1>1, <1>5, <1>6, <1>7 DEF TypeOK, SessionTypeOK
<1>10. posted' \in 0 .. MaxOutstandingSend
  BY <1>1, <1>2, <1>4, Lengths
<1>11. TypeOK'
  BY <1>1, <1>5, <1>6, <1>8, <1>9, <1>10 DEF TypeOK
<1>12. SendInv'
  BY <1>1, <1>2, <1>4, <1>5, <1>6, <1>7, <1>8, Lengths DEF SendInv, Outstanding
<1> QED
  BY <1>11, <1>12 DEF CoreInv

LEMMA CoreProcess ==
  ASSUME CoreInv, ProcessResult
  PROVE  CoreInv'
<1>1. TypeOK /\ SendInv /\ pc = "process" /\ results # <<>>
  BY DEF CoreInv, ProcessResult
<1>2. /\ Head(results) \in Descriptors /\ results' = Tail(results)
      /\ results' \in Seq(Descriptors) /\ Len(results') = Len(results) - 1 /\ Len(results) > 0
  BY <1>1, HeadTailProperties DEF TypeOK, ProcessResult
<1>3. NextGroup \in GroupIndices /\ NextGroupCounter \in GroupIndices
  <2>1. batchIndex \in Nat /\ groupCounter + 1 \in Nat
    BY <1>1 DEF TypeOK, GroupIndices
  <2> QED
    BY <1>1, <2>1, Lengths, ModRange DEF NextGroup, NextGroupCounter, GroupIndices
<1>4. posted = MaxOutstandingSend /\ Outstanding < MaxOutstandingSend
  BY <1>1, <1>2, Lengths DEF SendInv, Outstanding
<1>5. RIOSendEx(Head(results), NextGroup, "process") /\ CountSend(NextGroup)
  BY DEF ProcessResult
<1>6. /\ requestQueue' \in Seq(Request) /\ Len(requestQueue') = Len(requestQueue) + 1
      /\ UNCHANGED <<completionQueue, armed, iocp>> /\ pc' = "process"
      /\ totalPkts' \in 0 .. TotalMod - 1 /\ DOMAIN groupStats' = GroupIndices
      /\ \A h \in GroupIndices : groupStats'[h] \in GroupStatsType
  BY <1>1, <1>2, <1>3, <1>4, <1>5, SendStep
<1>7. UNCHANGED <<exitSignal, timeUp, report, socketOpen, buffersRegistered, numGroups, posted,
                  onWire, wire>>
  BY DEF ProcessResult, resourceVars, adapterVars
<1>8. MaxOutstandingSend' = MaxOutstandingSend /\ GroupIndices' = GroupIndices
      /\ Request' = Request /\ Descriptors' = Descriptors
  BY <1>7 DEF MaxOutstandingSend, GroupIndices, Request, Descriptors
<1>9. /\ batchIndex' \in Nat /\ groupCounter' \in GroupIndices /\ sequenceNumber' \in Nat
      /\ payload' \in [Packets -> Nat]
  <2>1. batchIndex' = batchIndex + 1 /\ groupCounter' = NextGroupCounter
    BY DEF ProcessResult
  <2>2. sequenceNumber' \in Nat
    BY <1>1 DEF ProcessResult, NextSequence, TypeOK
  <2>3. payload' \in [Packets -> Nat]
    BY <1>1 DEF ProcessResult, TypeOK
  <2> QED
    BY <1>1, <1>3, <2>1, <2>2, <2>3 DEF TypeOK
<1>10. SessionTypeOK'
  BY <1>1, <1>6, <1>7 DEF TypeOK, SessionTypeOK
<1>11. TypeOK'
  BY <1>1, <1>2, <1>6, <1>7, <1>8, <1>9, <1>10 DEF TypeOK
<1>12. SendInv'
  BY <1>1, <1>2, <1>6, <1>7, <1>8, Lengths DEF SendInv, Outstanding
<1> QED
  BY <1>11, <1>12 DEF CoreInv

(* Steps that leave the queues and the bookkeeping of the sends alone.     *)
LEMMA CoreQuiet ==
  ASSUME CoreInv, SessionTypeOK',
         UNCHANGED <<requestQueue, completionQueue, groupStats, numGroups, posted, results,
                     loopVars, payload, adapterVars>>,
         \/ pc' = pc
         \/ pc = "start" /\ pc' = "post"
         \/ /\ pc \notin {"start", "post"} /\ (pc = "process" => results = <<>>)
            /\ pc' \notin {"start", "post", "process", "requestError"}
  PROVE  CoreInv'
<1>1. /\ GroupIndices' = GroupIndices /\ Request' = Request /\ Descriptors' = Descriptors
      /\ MaxOutstandingSend' = MaxOutstandingSend
  BY DEF GroupIndices, Request, Descriptors, MaxOutstandingSend
<1>2. TypeOK'
  BY <1>1 DEF CoreInv, TypeOK, loopVars, adapterVars
<1>3. SendInv'
  BY <1>1, Lengths DEF CoreInv, SendInv, Outstanding
<1> QED
  BY <1>2, <1>3 DEF CoreInv

LEMMA CoreSession ==
  ASSUME CoreInv, SessionStep, UNCHANGED producerVars
  PROVE  CoreInv'
<1>1. UNCHANGED <<requestQueue, completionQueue, groupStats, numGroups, posted, results,
                  loopVars, payload, adapterVars>>
  BY DEF SessionStep, StartReport, NotifyCompletionQueue, JoinThread, CloseSocket,
         ReleaseBuffers, RIONotify, rioVars, producerVars
<1>2. \/ pc = "start" /\ pc' = "post"
      \/ /\ pc \notin {"start", "post", "process"}
         /\ pc' \notin {"start", "post", "process", "requestError"}
  BY DEF SessionStep, StartReport, NotifyCompletionQueue, JoinThread, CloseSocket,
         ReleaseBuffers
<1>3. SessionTypeOK'
  <2> USE DEF SessionTypeOK, rioVars, limitVars, resourceVars
  <2>0. SessionTypeOK
    BY DEF CoreInv, TypeOK
  <2>1. CASE StartReport
    BY <2>0, <2>1 DEF StartReport
  <2>2. CASE NotifyCompletionQueue
    <3>1. /\ pc = "notify" /\ pc' \in {"wait", "notifyError"}
          /\ UNCHANGED <<exitSignal, totalPkts, timeUp, groupStats, report, socketOpen,
                         buffersRegistered>>
      BY <2>2 DEF NotifyCompletionQueue
    <3>2. armed' \in BOOLEAN
      BY <2>0, <2>2, Zenon DEF NotifyCompletionQueue, RIONotify
    <3>3. iocp' \in Nat
      BY <2>0, <2>2 DEF NotifyCompletionQueue, RIONotify
    <3> QED
      BY <2>0, <3>1, <3>2, <3>3
  <2>3. CASE JoinThread
    BY <2>0, <2>3 DEF JoinThread
  <2>4. CASE CloseSocket
    BY <2>0, <2>4 DEF CloseSocket
  <2>5. CASE ReleaseBuffers
    BY <2>0, <2>5 DEF ReleaseBuffers
  <2> QED
    BY <2>1, <2>2, <2>3, <2>4, <2>5 DEF SessionStep
<1> QED
  BY <1>1, <1>2, <1>3, CoreQuiet

(* The steps of the loop that take or return nothing.                      *)
LEMMA CoreLoop ==
  ASSUME CoreInv, CheckLoop \/ WaitForCompletion \/ EndBatch
  PROVE  CoreInv'
<1>1. UNCHANGED <<requestQueue, completionQueue, groupStats, numGroups, posted, results,
                  loopVars, payload, adapterVars>>
  BY DEF CheckLoop, WaitForCompletion, EndBatch, TakeNotification, rioVars, producerVars
<1>2. /\ pc \notin {"start", "post"} /\ (pc = "process" => results = <<>>)
      /\ pc' \notin {"start", "post", "process", "requestError"}
  BY DEF CheckLoop, WaitForCompletion, EndBatch
<1>3. SessionTypeOK'
  BY DEF CoreInv, TypeOK, SessionTypeOK, CheckLoop, WaitForCompletion, EndBatch,
         TakeNotification, rioVars, limitVars, resourceVars
<1> QED
  BY <1>1, <1>2, <1>3, CoreQuiet

LEMMA CoreFill ==
  ASSUME CoreInv, FillPackets
  PROVE  CoreInv'
<1>1. /\ UNCHANGED <<requestQueue, completionQueue, armed, iocp, exitSignal, totalPkts, timeUp,
                     groupStats, pc, report, socketOpen, buffersRegistered, numGroups, posted,
                     results, batchIndex, groupCounter, onWire, wire>>
      /\ sequenceNumber' = PacketRate /\ payload' = [b \in Packets |-> b]
  BY DEF FillPackets, sessionVars, rioVars, limitVars, resourceVars, adapterVars
<1>2. /\ GroupIndices' = GroupIndices /\ Request' = Request /\ Descriptors' = Descriptors
      /\ MaxOutstandingSend' = MaxOutstandingSend
  BY <1>1 DEF GroupIndices, Request, Descriptors, MaxOutstandingSend
<1>3. sequenceNumber' \in Nat /\ payload' \in [Packets -> Nat]
  <2>1. \A b \in Packets : b \in Nat
    BY ProducerAssumption DEF Packets
  <2> QED
    BY <1>1, <2>1, ProducerAssumption
<1>4. SessionTypeOK'
  BY <1>1 DEF CoreInv, TypeOK, SessionTypeOK
<1>5. TypeOK'
  BY <1>1, <1>2, <1>3, <1>4 DEF CoreInv, TypeOK
<1>6. SendInv'
  BY <1>1, <1>2 DEF CoreInv, SendInv, Outstanding
<1> QED
  BY <1>5, <1>6 DEF CoreInv

LEMMA CoreDequeue ==
  ASSUME CoreInv, DequeueResults
  PROVE  CoreInv'
<1>1. TypeOK /\ SendInv /\ pc = "dequeue" /\ results = <<>>
  BY DEF CoreInv, SendInv, DequeueResults
<1>2. /\ results' = Dequeued(MaxOutstandingSend) /\ RIODequeueCompletion(MaxOutstandingSend)
      /\ pc' = IF completionQueue = <<>> THEN "dequeueError" ELSE "process"
      /\ batchIndex' = 0
      /\ UNCHANGED <<requestQueue, armed, iocp, exitSignal, totalPkts, timeUp, groupStats, report,
                     socketOpen, buffersRegistered, numGroups, posted, groupCounter,
                     sequenceNumber, payload, onWire, wire>>
  BY DEF DequeueResults, RIODequeueCompletion, limitVars, resourceVars, adapterVars
<1>3. /\ results' \in Seq(Descriptors) /\ completionQueue' \in Seq(Descriptors)
      /\ Len(results') + Len(completionQueue') = Len(completionQueue)
      /\ completionQueue = <<>> => results' = <<>>
  BY <1>1, <1>2, DequeueSplits, Lengths DEF TypeOK
<1>4. /\ GroupIndices' = GroupIndices /\ Request' = Request /\ Descriptors' = Descriptors
      /\ MaxOutstandingSend' = MaxOutstandingSend
  BY <1>2 DEF GroupIndices, Request, Descriptors, MaxOutstandingSend
<1>5. SessionTypeOK'
  BY <1>1, <1>2 DEF TypeOK, SessionTypeOK
<1>6. TypeOK'
  BY <1>1, <1>2, <1>3, <1>4, <1>5 DEF TypeOK
<1>7. Len(results) = 0 /\ Len(results') \in Nat /\ Len(completionQueue') \in Nat
  BY <1>1, <1>3
<1>8. (Outstanding + Len(results) = posted)'
  BY <1>1, <1>2, <1>3, <1>7, Lengths DEF SendInv, Outstanding
<1>9. SendInv'
  BY <1>1, <1>2, <1>3, <1>4, <1>8 DEF SendInv
<1> QED
  BY <1>6, <1>9 DEF CoreInv

LEMMA CoreTransmit ==
  ASSUME CoreInv, Transmit
  PROVE  CoreInv'
<1> DEFINE request == requestQueue[onWire + 1]
           sent == [group |-> request.group, seq |-> payload[PacketOf(request.desc)]]
<1>1. TypeOK /\ SendInv /\ onWire < Len(requestQueue)
  BY DEF CoreInv, Transmit
<1>2. /\ UNCHANGED <<requestQueue, completionQueue, armed, iocp, exitSignal, totalPkts, timeUp,
                     groupStats, pc, report, socketOpen, buffersRegistered, numGroups, posted,
                     results, batchIndex, groupCounter, sequenceNumber, payload>>
      /\ wire' = Append(wire, sent) /\ onWire' = onWire + 1
  BY DEF Transmit, sessionVars, rioVars, limitVars, resourceVars, loopVars
<1>3. /\ GroupIndices' = GroupIndices /\ Request' = Request /\ Descriptors' = Descriptors
      /\ MaxOutstandingSend' = MaxOutstandingSend
  BY <1>2 DEF GroupIndices, Request, Descriptors, MaxOutstandingSend
<1>4. request \in Request
  <2>1. onWire + 1 \in 1 .. Len(requestQueue)
    BY <1>1 DEF TypeOK
  <2> QED
    BY <1>1, <2>1 DEF TypeOK
<1>5. request.group \in GroupIndices /\ payload[PacketOf(request.desc)] \in Nat
  BY <1>1, <1>4, PacketOfType DEF Request, TypeOK
<1>6. sent \in [group : GroupIndices, seq : Nat]
  BY <1>5
<1> HIDE DEF sent, request
<1>7. wire' \in Seq([group : GroupIndices, seq : Nat]) /\ onWire' \in Nat
  BY <1>1, <1>2, <1>6, AppendProperties DEF TypeOK
<1>8. SessionTypeOK'
  BY <1>1, <1>2 DEF TypeOK, SessionTypeOK
<1>9. TypeOK'
  BY <1>1, <1>2, <1>3, <1>7, <1>8 DEF TypeOK
<1>10. SendInv'
  BY <1>1, <1>2, <1>3 DEF SendInv, Outstanding
<1> QED
  BY <1>9, <1>10 DEF CoreInv

LEMMA CoreCompletes ==
  ASSUME CoreInv, SendCompletes
  PROVE  CoreInv'
<1> DEFINE desc == Head(requestQueue).desc
<1>1. TypeOK /\ SendInv /\ requestQueue # <<>> /\ onWire > 0
  BY DEF CoreInv, SendCompletes, CompleteRequest
<1>2. /\ requestQueue' = Tail(requestQueue) /\ completionQueue' = Append(completionQueue, desc)
      /\ armed' = FALSE /\ iocp' = IF armed THEN iocp + 1 ELSE iocp
      /\ onWire' = onWire - 1
      /\ UNCHANGED <<exitSignal, totalPkts, timeUp, groupStats, pc, report, socketOpen,
                     buffersRegistered, numGroups, posted, results, batchIndex, groupCounter,
                     sequenceNumber, payload, wire>>
  BY DEF SendCompletes, CompleteRequest, limitVars, resourceVars, loopVars
<1>3. /\ GroupIndices' = GroupIndices /\ Request' = Request /\ Descriptors' = Descriptors
      /\ MaxOutstandingSend' = MaxOutstandingSend
  BY <1>2 DEF GroupIndices, Request, Descriptors, MaxOutstandingSend
<1>4. /\ desc \in Descriptors
      /\ requestQueue' \in Seq(Request) /\ Len(requestQueue') = Len(requestQueue) - 1
  <2>1. requestQueue \in Seq(Request) /\ requestQueue # <<>>
    BY <1>1 DEF TypeOK
  <2>2. /\ Head(requestQueue) \in Request /\ Tail(requestQueue) \in Seq(Request)
        /\ Len(Tail(requestQueue)) = Len(requestQueue) - 1
    BY <2>1, HeadTailProperties
  <2> QED
    BY <1>2, <2>2 DEF Request
<1> HIDE DEF desc
<1>5. /\ completionQueue' \in Seq(Descriptors)
      /\ Len(completionQueue') = Len(completionQueue) + 1
  <2>1. completionQueue \in Seq(Descriptors) /\ desc \in Descriptors
    BY <1>1, <1>4 DEF TypeOK
  <2>2. completionQueue' = Append(completionQueue, desc)
    BY <1>2
  <2> QED
    BY <2>1, <2>2, AppendProperties
<1>6. iocp' \in Nat /\ onWire' \in Nat
  BY <1>1, <1>2 DEF TypeOK, SessionTypeOK
<1>7. SessionTypeOK'
  BY <1>1, <1>2, <1>6 DEF TypeOK, SessionTypeOK
<1>8. TypeOK'
  BY <1>1, <1>2, <1>3, <1>4, <1>5, <1>6, <1>7 DEF TypeOK
<1>9. SendInv'
  BY <1>1, <1>2, <1>3, <1>4, <1>5, Lengths DEF SendInv, Outstanding
<1> QED
  BY <1>8, <1>9 DEF CoreInv

(* The second thread, Ctrl-C and the clock touch neither queue nor counter. *)
LEMMA CoreOthers ==
  ASSUME CoreInv, \/ SpinThread
                  \/ (HandlerRoutine \/ TimePasses) /\ UNCHANGED producerVars
                  \/ UNCHANGED vars
  PROVE  CoreInv'
<1>1. /\ UNCHANGED <<requestQueue, completionQueue, groupStats, numGroups, posted, results,
                     loopVars, payload, adapterVars>>
      /\ pc' = pc
  BY DEF SpinThread, ReportExits, HandlerRoutine, TimePasses, vars, sessionVars, rioVars,
         producerVars
<1>2. SessionTypeOK'
  <2>1. SessionTypeOK
    BY DEF CoreInv, TypeOK
  <2> USE DEF SessionTypeOK, sessionVars, rioVars, limitVars, resourceVars
  <2>2. CASE SpinThread
    BY <2>1, <2>2 DEF SpinThread, ReportExits
  <2>3. CASE HandlerRoutine
    BY <2>1, <2>3 DEF HandlerRoutine
  <2>4. CASE TimePasses
    BY <2>1, <2>4 DEF TimePasses
  <2>5. CASE UNCHANGED vars
    BY <2>1, <2>5 DEF vars
  <2> QED
    BY <2>2, <2>3, <2>4, <2>5
<1> QED
  BY <1>1, <1>2, CoreQuiet

LEMMA CoreNext == CoreInv /\ [Next]_vars => CoreInv'
  BY CoreSession, CoreFill, CorePost, CoreLoop, CoreDequeue, CoreProcess, CoreTransmit,
     CoreCompletes, CoreOthers DEF Next, MainThread, Adapter

-----------------------------------------------------------------------------
(* The wait without a timeout *)

LEMMA WakeNext == CoreInv /\ WakeInv /\ [Next]_vars => WakeInv'
<1> SUFFICES ASSUME CoreInv, WakeInv, [Next]_vars PROVE WakeInv'
  OBVIOUS
<1> USE DEF WakeInv, InfiniteWaitIsAnswered
<1>0. /\ TypeOK /\ iocp \in Nat /\ armed \in BOOLEAN
      /\ completionQueue \in Seq(Descriptors) /\ requestQueue \in Seq(Request)
  BY DEF CoreInv, TypeOK, SessionTypeOK
<1>1. ASSUME UNCHANGED <<armed, iocp>>, pc \notin {"wait", "notifyError", "dequeueError"},
             pc' \notin {"wait", "dequeue", "notifyError", "dequeueError"}
      PROVE  WakeInv'
  BY <1>1
<1>2. ASSUME UNCHANGED <<armed, iocp, completionQueue, requestQueue, pc>> PROVE WakeInv'
  BY <1>2
<1>3. CASE SessionStep /\ UNCHANGED producerVars
  <2>1. CASE StartReport \/ JoinThread \/ CloseSocket \/ ReleaseBuffers
    BY <1>1, <2>1 DEF StartReport, JoinThread, CloseSocket, ReleaseBuffers, rioVars
  <2>2. CASE NotifyCompletionQueue
    <3>1. pc = "notify" /\ ~armed /\ iocp = 0
      BY <2>2 DEF NotifyCompletionQueue
    <3>2. RIONotify /\ pc' = "wait"
      BY <2>2, <3>1 DEF NotifyCompletionQueue
    <3>3. UNCHANGED <<requestQueue, completionQueue>>
      BY <3>2 DEF RIONotify
    <3>4. completionQueue = <<>> => requestQueue # <<>>
      BY <3>1, <1>0, Lengths DEF CoreInv, SendInv, Outstanding
    <3>5. CASE completionQueue = <<>>
      BY <3>1, <3>2, <3>3, <3>4, <3>5 DEF RIONotify
    <3>6. CASE completionQueue # <<>>
      BY <3>1, <3>2, <3>3, <3>6 DEF RIONotify
    <3> QED
      BY <3>5, <3>6
  <2> QED
    BY <1>3, <2>1, <2>2 DEF SessionStep
<1>4. CASE FillPackets
  BY <1>2, <1>4 DEF FillPackets, sessionVars, rioVars
<1>5. CASE PostFirstSend
  <2>1. UNCHANGED <<armed, iocp>> /\ pc = "post" /\ pc' \in {"post", "check", "requestError"}
    BY <1>5 DEF PostFirstSend, RIOSendEx, PostRequest, AfterFirstSend, rioVars
  <2> QED
    BY <1>1, <2>1
<1>6. CASE CheckLoop \/ EndBatch
  BY <1>1, <1>6 DEF CheckLoop, EndBatch, rioVars
<1>7. CASE WaitForCompletion
  <2>1. /\ pc = "wait" /\ pc' = "dequeue" /\ iocp > 0 /\ iocp' = iocp - 1
        /\ UNCHANGED <<armed, completionQueue>>
    BY <1>7 DEF WaitForCompletion, TakeNotification
  <2> QED
    BY <1>0, <2>1
<1>8. CASE DequeueResults
  <2>1. UNCHANGED <<armed, iocp>> /\ pc = "dequeue" /\ pc' = "process"
    BY <1>8 DEF DequeueResults, RIODequeueCompletion
  <2> QED
    BY <1>1, <2>1
<1>9. CASE ProcessResult
  <2>1. UNCHANGED <<armed, iocp>> /\ pc = "process" /\ pc' \in {"process", "requestError"}
    BY <1>9 DEF ProcessResult, RIOSendEx, PostRequest, rioVars
  <2> QED
    BY <1>1, <2>1
<1>10. CASE Transmit
  BY <1>2, <1>10 DEF Transmit, sessionVars, rioVars
<1>11. CASE SendCompletes
  <2>1. /\ armed' = FALSE /\ iocp' = IF armed THEN iocp + 1 ELSE iocp
        /\ pc' = pc
    BY <1>11 DEF SendCompletes, CompleteRequest
  <2>2. completionQueue' # <<>>
    <3>1. PICK c : completionQueue' = Append(completionQueue, c)
      BY <1>11 DEF SendCompletes, CompleteRequest
    <3>2. Len(Append(completionQueue, c)) = Len(completionQueue) + 1 /\ Len(completionQueue) \in Nat
      BY <1>0
    <3> QED
      BY <3>1, <3>2
  <2> QED
    BY <1>0, <2>1, <2>2
<1>12. CASE \/ SpinThread
            \/ (HandlerRoutine \/ TimePasses) /\ UNCHANGED producerVars
            \/ UNCHANGED vars
  BY <1>2, <1>12 DEF SpinThread, ReportExits, HandlerRoutine, TimePasses, vars, sessionVars,
                     rioVars
<1> QED
  BY <1>3, <1>4, <1>5, <1>6, <1>7, <1>8, <1>9, <1>10, <1>11, <1>12
     DEF Next, MainThread, Adapter

-----------------------------------------------------------------------------
(* The packet limit and the two counters *)

(* The number of groups never changes.                                     *)
LEMMA GroupsFixed ==
  ASSUME [Next]_vars
  PROVE  /\ numGroups' = numGroups /\ MaxOutstandingSend' = MaxOutstandingSend
         /\ GroupIndices' = GroupIndices
<1> SUFFICES numGroups' = numGroups
  BY DEF MaxOutstandingSend, GroupIndices
<1>1. CASE UNCHANGED producerVars
  BY <1>1 DEF producerVars
<1>2. CASE FillPackets \/ PostFirstSend \/ DequeueResults \/ ProcessResult
  BY <1>2 DEF FillPackets, PostFirstSend, DequeueResults, ProcessResult
<1>3. CASE CheckLoop \/ WaitForCompletion \/ EndBatch
  BY <1>1, <1>3 DEF CheckLoop, WaitForCompletion, EndBatch
<1>4. CASE Transmit \/ SendCompletes
  BY <1>4 DEF Transmit, SendCompletes
<1> QED
  BY <1>1, <1>2, <1>3, <1>4 DEF Next, MainThread, Adapter, SpinThread, vars

(* What a packet counts for in m_TotalPkts.                                *)
LEMMA TotalStep ==
  ASSUME TypeOK, NEW g, CountSend(g)
  PROVE  /\ totalPkts' = (totalPkts + 1) % TotalMod
         /\ totalPkts' \in Nat /\ totalPkts' <= totalPkts + 1
<1>1. totalPkts \in Nat /\ totalPkts + 1 \in Nat /\ TotalMod \in Nat \ {0}
  BY SessionAssumption DEF TypeOK, SessionTypeOK
<1>2. totalPkts' = (totalPkts + 1) % TotalMod
  BY DEF CountSend, IncrementedTotal
<1>3. (totalPkts + 1) % TotalMod \in 0 .. TotalMod - 1
  BY <1>1, ModRange
<1>4. (totalPkts + 1) % TotalMod <= totalPkts + 1
  BY <1>1, ModBelow
<1> QED
  BY <1>1, <1>2, <1>3, <1>4

LEMMA LimitNext == CoreInv /\ LimitInv /\ [Next]_vars => LimitInv'
<1> SUFFICES ASSUME CoreInv, LimitInv, [Next]_vars, PktsToCount > 0 PROVE LimitInv'
  BY DEF LimitInv
<1> USE DEF LimitInv
<1>0. /\ TypeOK /\ SendInv /\ totalPkts \in Nat /\ PktsToCount \in Nat
      /\ MaxOutstandingSend \in Nat \ {0} /\ posted \in Nat
      /\ Len(results) \in Nat /\ TotalMod \in Nat \ {0}
  BY Lengths, SessionAssumption DEF CoreInv, TypeOK, SessionTypeOK
<1>1. numGroups' = numGroups /\ MaxOutstandingSend' = MaxOutstandingSend
  BY GroupsFixed
<1>2. ASSUME UNCHANGED <<totalPkts, results, posted>>,
             \/ pc' = pc
             \/ pc = "start" /\ pc' = "post"
             \/ pc' \notin {"start", "post", "notify", "wait", "dequeue", "process"}
             \/ pc' = "notify" /\ totalPkts < PktsToCount
             \/ pc' \in {"wait", "dequeue"} /\ pc \in {"notify", "wait"}
      PROVE  LimitInv'
  BY <1>0, <1>1, <1>2
<1>3. CASE SessionStep /\ UNCHANGED producerVars
  <2>1. UNCHANGED <<totalPkts, results, posted>>
    BY <1>3 DEF SessionStep, StartReport, NotifyCompletionQueue, JoinThread, CloseSocket,
                ReleaseBuffers, limitVars, producerVars
  <2>2. \/ pc = "start" /\ pc' = "post"
        \/ pc = "notify" /\ pc' = "wait"
        \/ pc' \in {"notifyError", "closeSocket", "release", "done"}
    BY <1>3 DEF SessionStep, StartReport, NotifyCompletionQueue, JoinThread, CloseSocket,
                ReleaseBuffers
  <2> QED
    BY <1>2, <2>1, <2>2
<1>4. CASE FillPackets
  BY <1>2, <1>4 DEF FillPackets, sessionVars, limitVars
<1>5. CASE PostFirstSend
  <2>1. /\ pc = "post" /\ pc' \in {"post", "check", "requestError"}
        /\ posted' = posted + 1
    BY <1>5 DEF PostFirstSend, RIOSendEx, PostRequest, AfterFirstSend
  <2>2. totalPkts' \in Nat /\ totalPkts' <= totalPkts + 1
    BY <1>0, <1>5, TotalStep DEF PostFirstSend
  <2>3. posted < MaxOutstandingSend /\ totalPkts <= posted
    BY <1>0, <2>1 DEF SendInv
  <2> QED
    BY <1>0, <1>1, <2>1, <2>2, <2>3
<1>6. CASE CheckLoop
  <2>1. UNCHANGED <<totalPkts, results, posted>>
    BY <1>6 DEF CheckLoop, limitVars, producerVars
  <2>2. pc' = "join" \/ (pc' = "notify" /\ totalPkts < PktsToCount)
    BY <1>0, <1>6 DEF CheckLoop, ShouldStop
  <2> QED
    BY <1>2, <2>1, <2>2
<1>7. CASE WaitForCompletion
  BY <1>2, <1>7 DEF WaitForCompletion, limitVars, producerVars
<1>8. CASE DequeueResults
  <2>1. /\ totalPkts' = totalPkts /\ pc = "dequeue" /\ pc' \in {"dequeueError", "process"}
        /\ results' = Dequeued(MaxOutstandingSend) /\ RIODequeueCompletion(MaxOutstandingSend)
    BY <1>8 DEF DequeueResults, limitVars
  <2>2. Len(results') \in Nat /\ Len(results') <= MaxOutstandingSend
    BY <1>0, <2>1, DequeueSplits DEF TypeOK
  <2> QED
    BY <1>0, <1>1, <2>1, <2>2
<1>9. CASE ProcessResult
  <2>1. pc = "process" /\ pc' \in {"process", "requestError"}
    BY <1>9 DEF ProcessResult, RIOSendEx, PostRequest
  <2>2. Len(results') = Len(results) - 1 /\ Len(results') \in Nat
    BY <1>0, <1>9, HeadTailProperties DEF TypeOK, ProcessResult
  <2>3. totalPkts' \in Nat /\ totalPkts' <= totalPkts + 1
    BY <1>0, <1>9, TotalStep DEF ProcessResult
  <2> QED
    BY <1>0, <1>1, <2>1, <2>2, <2>3
<1>10. CASE EndBatch
  BY <1>2, <1>10 DEF EndBatch, limitVars, producerVars
<1>11. CASE Transmit \/ SendCompletes
  BY <1>2, <1>11 DEF Transmit, SendCompletes, sessionVars, limitVars
<1>12. CASE \/ SpinThread
            \/ (HandlerRoutine \/ TimePasses) /\ UNCHANGED producerVars
            \/ UNCHANGED vars
  BY <1>2, <1>12 DEF SpinThread, ReportExits, HandlerRoutine, TimePasses, vars, sessionVars,
                     limitVars, producerVars
<1> QED
  BY <1>3, <1>4, <1>5, <1>6, <1>7, <1>8, <1>9, <1>10, <1>11, <1>12
     DEF Next, MainThread, Adapter

(* Adding one to a remainder.                                              *)
LEMMA CountUp ==
  ASSUME NEW m \in Nat \ {0}, NEW a \in 0 .. m - 1
  PROVE  (a + 1) % m = IF a + 1 = m THEN 0 ELSE a + 1
<1>1. a \in Nat /\ a % m = a
  BY SMT
<1>2. (a + 1) % m = IF (a % m) + 1 = m THEN 0 ELSE (a % m) + 1
  BY <1>1, ModNext
<1> QED
  BY <1>1, <1>2

(* A round over the groups, or the next one, is one packet further.        *)
LEMMA RoundStep ==
  ASSUME numGroups \in Nat \ {0}, sequenceNumber \in Nat, groupCounter \in 0 .. numGroups - 1,
         ProcessResult
  PROVE  numGroups * sequenceNumber' + groupCounter' = numGroups * sequenceNumber + groupCounter + 1
<1>1. NextGroupCounter = IF groupCounter + 1 = numGroups THEN 0 ELSE groupCounter + 1
  BY CountUp DEF NextGroupCounter
<1>2. /\ groupCounter' = NextGroupCounter
      /\ sequenceNumber' = IF NextGroupCounter = 0 THEN sequenceNumber + 1 ELSE sequenceNumber
  BY DEF ProcessResult, NextSequence
<1>3. CASE groupCounter + 1 = numGroups
  <2>1. sequenceNumber' = sequenceNumber + 1 /\ groupCounter' = 0
    BY <1>1, <1>2, <1>3
  <2>2. numGroups * (sequenceNumber + 1) = numGroups * sequenceNumber + numGroups
    BY SMT
  <2> QED
    BY <1>3, <2>1, <2>2, SMT
<1>4. CASE groupCounter + 1 # numGroups
  BY <1>1, <1>2, <1>4, SMT
<1> QED
  BY <1>3, <1>4

LEMMA RotationNext == CoreInv /\ RotationInv /\ [Next]_vars => RotationInv'
<1> SUFFICES ASSUME CoreInv, RotationInv, [Next]_vars PROVE RotationInv'
  OBVIOUS
<1> USE DEF RotationInv, RotationExact
<1>0. /\ TypeOK /\ SendInv /\ numGroups \in Nat \ {0} /\ PacketRate \in Nat \ {0}
      /\ MaxOutstandingSend \in Nat \ {0} /\ posted \in Nat /\ sequenceNumber \in Nat
      /\ groupCounter \in 0 .. numGroups - 1 /\ TotalMod \in Nat \ {0}
  BY Lengths, SessionAssumption DEF CoreInv, TypeOK, GroupIndices
<1>1. numGroups' = numGroups
  BY GroupsFixed
<1>2. ASSUME UNCHANGED <<totalPkts, posted, groupCounter, sequenceNumber>>,
             \/ pc' = pc
             \/ pc = "start" /\ pc' = "post"
             \/ pc \notin {"start", "post"} /\ pc' \notin {"start", "post"}
      PROVE  RotationInv'
  BY <1>1, <1>2
<1>3. CASE SessionStep /\ UNCHANGED producerVars
  BY <1>2, <1>3 DEF SessionStep, StartReport, NotifyCompletionQueue, JoinThread, CloseSocket,
                    ReleaseBuffers, limitVars, producerVars, loopVars
<1>4. CASE FillPackets
  BY <1>4 DEF FillPackets, sessionVars, limitVars
<1>5. CASE PostFirstSend
  <2>1. /\ pc = "post" /\ pc' \in {"post", "check", "requestError"}
        /\ pc' # "post" => pc' = "requestError" \/ posted + 1 = MaxOutstandingSend
        /\ posted' = posted + 1
        /\ UNCHANGED <<groupCounter, sequenceNumber>> /\ sequenceNumber > 0
    BY <1>5 DEF PostFirstSend, RIOSendEx, PostRequest, AfterFirstSend, loopVars
  <2>2. totalPkts' = posted' % TotalMod
    <3>1. totalPkts' = (totalPkts + 1) % TotalMod
      BY <1>0, <1>5, TotalStep DEF PostFirstSend
    <3>2. totalPkts = posted % TotalMod
      BY <2>1
    <3> QED
      BY <1>0, <2>1, <3>1, <3>2, ModIncrement
  <2>3. sequenceNumber = PacketRate /\ groupCounter = 0
    BY <1>0, <2>1
  <2>4. pc' # "post" => posted' = MaxOutstandingSend
    <3>1. SendInv'
      BY CoreNext DEF CoreInv
    <3> QED
      BY <1>0, <1>1, <2>1, <3>1 DEF SendInv
  <2>5. MaxOutstandingSend = numGroups * PacketRate + 0
    <3>1. PacketRate * numGroups = numGroups * PacketRate + 0
      BY <1>0, SMT
    <3> QED
      BY <3>1 DEF MaxOutstandingSend
  <2> QED
    BY <1>0, <1>1, <2>1, <2>2, <2>3, <2>4, <2>5
<1>6. CASE CheckLoop \/ WaitForCompletion \/ EndBatch
  BY <1>2, <1>6 DEF CheckLoop, WaitForCompletion, EndBatch, limitVars, producerVars, loopVars
<1>7. CASE DequeueResults
  BY <1>2, <1>7 DEF DequeueResults, limitVars
<1>8. CASE ProcessResult
  <2> DEFINE count == numGroups * sequenceNumber + groupCounter
  <2>1. pc = "process" /\ pc' \in {"process", "requestError"}
    BY <1>8 DEF ProcessResult, RIOSendEx, PostRequest
  <2>2. count \in Nat /\ totalPkts = count % TotalMod
    <3>1. numGroups * sequenceNumber \in Nat
      BY <1>0, SMT
    <3> QED
      BY <1>0, <2>1, <3>1
  <2>3. numGroups * sequenceNumber' + groupCounter' = count + 1
    BY <1>0, <1>8, RoundStep
  <2> HIDE DEF count
  <2>4. totalPkts' = (count + 1) % TotalMod
    <3>1. totalPkts' = (totalPkts + 1) % TotalMod
      BY <1>0, <1>8, TotalStep DEF ProcessResult
    <3> QED
      BY <1>0, <2>2, <3>1, ModIncrement
  <2> QED
    BY <1>1, <2>1, <2>3, <2>4
<1>9. CASE Transmit \/ SendCompletes
  BY <1>2, <1>9 DEF Transmit, SendCompletes, sessionVars, limitVars, loopVars
<1>10. CASE \/ SpinThread
            \/ (HandlerRoutine \/ TimePasses) /\ UNCHANGED producerVars
            \/ UNCHANGED vars
  BY <1>2, <1>10 DEF SpinThread, ReportExits, HandlerRoutine, TimePasses, vars, sessionVars,
                     limitVars, producerVars, loopVars
<1> QED
  BY <1>3, <1>4, <1>5, <1>6, <1>7, <1>8, <1>9, <1>10 DEF Next, MainThread, Adapter

-----------------------------------------------------------------------------
(* The order of the groups *)

(* The counts of the groups; one packet more for group g.                  *)
LEMMA CountStep ==
  ASSUME TypeOK, NEW g \in GroupIndices, CountSend(g)
  PROVE  /\ \A h \in GroupIndices : groupStats[h].Packets \in Nat
         /\ groupStats'[g].Packets = groupStats[g].Packets + 1
         /\ \A h \in GroupIndices : h # g => groupStats'[h] = groupStats[h]
<1>1. DOMAIN groupStats = GroupIndices /\ \A h \in GroupIndices : groupStats[h] \in GroupStatsType
  BY DEF TypeOK, SessionTypeOK
<1>2. groupStats' = [h \in GroupIndices |-> IF h = g THEN ProducerStatsUpdate(groupStats[g])
                                                     ELSE groupStats[h]]
  <2>1. StatsOf(g) = groupStats[g] /\ DOMAIN groupStats \cup {g} = GroupIndices
    BY <1>1 DEF StatsOf
  <2> QED
    BY <2>1 DEF CountSend, SetStats
<1>3. \A st \in GroupStatsType :
        st.Packets \in Nat /\ ProducerStatsUpdate(st).Packets = st.Packets + 1
  BY DEF GroupStatsType, ProducerStatsUpdate
<1> QED
  BY <1>1, <1>2, <1>3

(* A packet for the group whose turn it is, and the next one's turn.       *)
LEMMA AheadStep ==
  ASSUME TypeOK, NEW s \in GroupIndices, Ahead(s), CountSend(s), numGroups' = numGroups,
         NEW t, t = IF s + 1 = numGroups THEN 0 ELSE s + 1
  PROVE  Ahead(t)'
<1>1. numGroups \in Nat \ {0} /\ s \in 0 .. numGroups - 1 /\ GroupIndices' = GroupIndices
  BY Lengths DEF GroupIndices
<1>2. SUFFICES ASSUME NEW g \in GroupIndices, NEW h \in GroupIndices, g < h
               PROVE  groupStats'[g].Packets >=
                        groupStats'[h].Packets + IF g < t /\ t <= h THEN 1 ELSE 0
  BY <1>1 DEF Ahead
<1>3. g \in Nat /\ h \in Nat /\ h < numGroups
  BY <1>1 DEF GroupIndices
<1>4. groupStats[g].Packets >= groupStats[h].Packets + IF g < s /\ s <= h THEN 1 ELSE 0
  BY <1>2 DEF Ahead
<1>5. /\ groupStats[g].Packets \in Nat /\ groupStats[h].Packets \in Nat
      /\ groupStats'[g].Packets = groupStats[g].Packets + IF g = s THEN 1 ELSE 0
      /\ groupStats'[h].Packets = groupStats[h].Packets + IF h = s THEN 1 ELSE 0
  BY CountStep
<1>6. CASE s + 1 = numGroups
  BY <1>1, <1>2, <1>3, <1>4, <1>5, <1>6
<1>7. CASE s + 1 # numGroups
  BY <1>1, <1>2, <1>3, <1>4, <1>5, <1>7
<1> QED
  BY <1>6, <1>7

(* A new round may start at any moment.                                    *)
LEMMA AheadRestart ==
  ASSUME TypeOK, NEW s, Ahead(s)
  PROVE  Ahead(0) /\ EarlierGroupsNotBehind
<1>1. ASSUME NEW g \in GroupIndices, NEW h \in GroupIndices, g < h
      PROVE  /\ groupStats[g].Packets >= groupStats[h].Packets
             /\ groupStats[h].Packets \in Nat /\ ~(g < 0)
  <2>1. groupStats[g].Packets \in Nat /\ groupStats[h].Packets \in Nat
    BY DEF TypeOK, SessionTypeOK, GroupStatsType
  <2>2. g \in Nat
    BY Lengths DEF GroupIndices
  <2>3. groupStats[g].Packets >= groupStats[h].Packets + IF g < s /\ s <= h THEN 1 ELSE 0
    BY <1>1 DEF Ahead
  <2> QED
    BY <2>1, <2>2, <2>3
<1>2. EarlierGroupsNotBehind
  BY <1>1 DEF EarlierGroupsNotBehind
<1>3. Ahead(0)
  <2> SUFFICES ASSUME NEW g \in GroupIndices, NEW h \in GroupIndices, g < h
               PROVE  groupStats[g].Packets >=
                        groupStats[h].Packets + IF g < 0 /\ 0 <= h THEN 1 ELSE 0
    BY DEF Ahead
  <2>1. ~(g < 0) /\ groupStats[g].Packets >= groupStats[h].Packets
        /\ groupStats[h].Packets + 0 = groupStats[h].Packets
    BY <1>1
  <2> QED
    BY <2>1
<1> QED
  BY <1>2, <1>3

LEMMA OrderNext == CoreInv /\ OrderInv /\ [Next]_vars => OrderInv'
<1> SUFFICES ASSUME CoreInv, OrderInv, [Next]_vars PROVE OrderInv'
  OBVIOUS
<1> USE DEF OrderInv
<1>0. /\ TypeOK /\ TypeOK' /\ numGroups \in Nat \ {0} /\ posted \in Nat /\ batchIndex \in Nat
      /\ posted % numGroups \in GroupIndices /\ batchIndex % numGroups \in GroupIndices
      /\ 0 % numGroups = 0
  <2>1. TypeOK /\ TypeOK'
    BY CoreNext DEF CoreInv
  <2>2. numGroups \in Nat \ {0} /\ posted \in Nat /\ batchIndex \in Nat
    BY <2>1, Lengths DEF TypeOK
  <2>3. 0 % numGroups = 0
    BY <2>2, SMT
  <2> QED
    BY <2>1, <2>2, <2>3, ModRange DEF GroupIndices
<1>1. numGroups' = numGroups /\ GroupIndices' = GroupIndices
  BY GroupsFixed
<1>2. ASSUME UNCHANGED <<groupStats, posted, batchIndex>>,
             \/ pc' = pc
             \/ pc = "start" /\ pc' = "post"
             \/ pc \notin {"start", "post"} /\ pc' \notin {"start", "post"}
      PROVE  OrderInv'
  <2>1. \A s : Ahead(s)' <=> Ahead(s)
    BY <1>1, <1>2 DEF Ahead
  <2>2. posted' = posted /\ batchIndex' = batchIndex
    BY <1>2
  <2>3. (Ahead(posted % numGroups)' <=> Ahead(posted % numGroups))
        /\ (Ahead(batchIndex % numGroups)' <=> Ahead(batchIndex % numGroups))
    BY <1>1, <2>1, <2>2
  <2> QED
    BY <1>2, <2>2, <2>3
<1>3. CASE SessionStep /\ UNCHANGED producerVars
  BY <1>2, <1>3 DEF SessionStep, StartReport, NotifyCompletionQueue, JoinThread, CloseSocket,
                    ReleaseBuffers, producerVars, loopVars
<1>4. CASE FillPackets
  BY <1>2, <1>4 DEF FillPackets, sessionVars
<1>5. CASE CheckLoop \/ WaitForCompletion \/ EndBatch
  BY <1>2, <1>5 DEF CheckLoop, WaitForCompletion, EndBatch, producerVars, loopVars
<1>6. CASE Transmit \/ SendCompletes
  BY <1>2, <1>6 DEF Transmit, SendCompletes, sessionVars, loopVars
<1>7. CASE \/ SpinThread
           \/ (HandlerRoutine \/ TimePasses) /\ UNCHANGED producerVars
           \/ UNCHANGED vars
  BY <1>2, <1>7 DEF SpinThread, ReportExits, HandlerRoutine, TimePasses, vars, sessionVars,
                    producerVars, loopVars
<1>8. CASE PostFirstSend
  <2>1. /\ pc = "post" /\ pc' \in {"post", "check", "requestError"}
        /\ posted' = posted + 1 /\ batchIndex' = batchIndex /\ CountSend(posted % numGroups)
    BY <1>8 DEF PostFirstSend, RIOSendEx, PostRequest, AfterFirstSend, loopVars
  <2>2. (posted + 1) % numGroups =
          IF (posted % numGroups) + 1 = numGroups THEN 0 ELSE (posted % numGroups) + 1
    BY <1>0, ModNext
  <2>3. Ahead(posted % numGroups)'
    BY <1>0, <1>1, <2>1, <2>2, AheadStep
  <2>4. pc' # "post" => (posted' % numGroups' = 0 /\ batchIndex' % numGroups' = 0)
    <3>1. SendInv'
      BY CoreNext DEF CoreInv
    <3>2. pc' # "post" => posted' = PacketRate * numGroups
      BY <1>1, <2>1, <3>1, GroupsFixed DEF SendInv, MaxOutstandingSend
    <3>3. (PacketRate * numGroups) % numGroups = 0
      <4>1. PacketRate \in Nat
        BY ProducerAssumption
      <4> QED
        BY <1>0, <4>1, SMT
    <3> QED
      BY <1>0, <1>1, <2>1, <3>2, <3>3
  <2> QED
    BY <1>0, <1>1, <2>1, <2>3, <2>4
<1>9. CASE ProcessResult
  <2>1. /\ pc = "process" /\ pc' \in {"process", "requestError"}
        /\ batchIndex' = batchIndex + 1 /\ CountSend(batchIndex % numGroups)
    BY <1>9 DEF ProcessResult, RIOSendEx, PostRequest, NextGroup
  <2>2. (batchIndex + 1) % numGroups =
          IF (batchIndex % numGroups) + 1 = numGroups THEN 0 ELSE (batchIndex % numGroups) + 1
    BY <1>0, ModNext
  <2> QED
    BY <1>0, <1>1, <2>1, <2>2, AheadStep
<1>10. CASE DequeueResults
  <2>1. /\ pc = "dequeue" /\ pc' \notin {"start", "post"}
        /\ batchIndex' = 0 /\ groupStats' = groupStats
    BY <1>10 DEF DequeueResults
  <2>2. Ahead(0)
    BY <1>0, <2>1, AheadRestart
  <2> QED
    BY <1>0, <1>1, <2>1, <2>2 DEF Ahead
<1> QED
  BY <1>3, <1>4, <1>5, <1>6, <1>7, <1>8, <1>9, <1>10 DEF Next, MainThread, Adapter

-----------------------------------------------------------------------------
(* What goes out *)

\* What the steps that move packets do to the queues and the counters.
SendUnchanged ==
  UNCHANGED <<completionQueue, numGroups, onWire, wire>>

LEMMA PostEffect ==
  ASSUME CoreInv, PostFirstSend
  PROVE  /\ pc = "post" /\ sequenceNumber > 0 /\ posted \in Nat /\ posted < MaxOutstandingSend
         /\ requestQueue' = Append(requestQueue, [desc |-> posted, group |-> posted % numGroups])
         /\ Len(requestQueue') = Len(requestQueue) + 1 /\ CountSend(posted % numGroups)
         /\ posted % numGroups \in GroupIndices
         /\ posted' = posted + 1
         /\ pc' = IF posted + 1 = MaxOutstandingSend THEN "check" ELSE "post"
         /\ UNCHANGED <<results, groupCounter, sequenceNumber, payload>> /\ SendUnchanged
<1>1. /\ TypeOK /\ SendInv /\ pc = "post"
  BY DEF CoreInv, PostFirstSend
<1>2. /\ posted \in Descriptors /\ posted \in Nat /\ posted < MaxOutstandingSend
      /\ Outstanding < MaxOutstandingSend
  BY <1>1, Lengths DEF SendInv, Outstanding, Descriptors
<1>3. posted % numGroups \in GroupIndices
  BY <1>1, Lengths, ModRange DEF GroupIndices
<1>4. /\ RIOSendEx(posted, posted % numGroups, AfterFirstSend(posted))
      /\ CountSend(posted % numGroups) /\ posted' = posted + 1 /\ sequenceNumber > 0
      /\ UNCHANGED <<results, groupCounter, sequenceNumber, payload, numGroups, onWire, wire>>
  BY DEF PostFirstSend, loopVars, adapterVars
<1> DEFINE g == posted % numGroups
<1> HIDE DEF g
<1>5. /\ requestQueue' = Append(requestQueue, [desc |-> posted, group |-> g])
      /\ Len(requestQueue') = Len(requestQueue) + 1
      /\ completionQueue' = completionQueue /\ pc' = AfterFirstSend(posted)
  BY <1>1, <1>2, <1>3, <1>4, SendStep DEF g
<1> QED
  BY <1>1, <1>2, <1>3, <1>4, <1>5 DEF AfterFirstSend, SendUnchanged, g

LEMMA ProcessEffect ==
  ASSUME CoreInv, ProcessResult
  PROVE  /\ pc = "process" /\ pc' = "process" /\ results # <<>> /\ results' = Tail(results)
         /\ requestQueue' = Append(requestQueue, [desc |-> Head(results), group |-> NextGroup])
         /\ Len(requestQueue') = Len(requestQueue) + 1 /\ CountSend(NextGroup)
         /\ Head(results) \in Descriptors /\ NextGroup \in GroupIndices
         /\ payload' = [payload EXCEPT ![PacketOf(Head(results))] = sequenceNumber]
         /\ groupCounter' = NextGroupCounter /\ sequenceNumber' = NextSequence
         /\ posted' = posted /\ SendUnchanged
<1>1. TypeOK /\ SendInv /\ pc = "process" /\ results # <<>>
  BY DEF CoreInv, ProcessResult
<1>2. Head(results) \in Descriptors /\ Len(results) > 0
  BY <1>1, HeadTailProperties DEF TypeOK
<1>3. Outstanding < MaxOutstandingSend
  BY <1>1, <1>2, Lengths DEF SendInv, Outstanding
<1>4. NextGroup \in GroupIndices
  <2>1. batchIndex \in Nat
    BY <1>1 DEF TypeOK
  <2> QED
    BY <1>1, <2>1, Lengths, ModRange DEF NextGroup, GroupIndices
<1>5. /\ RIOSendEx(Head(results), NextGroup, "process") /\ CountSend(NextGroup)
      /\ results' = Tail(results)
      /\ payload' = [payload EXCEPT ![PacketOf(Head(results))] = sequenceNumber]
      /\ groupCounter' = NextGroupCounter /\ sequenceNumber' = NextSequence
      /\ UNCHANGED <<posted, numGroups, onWire, wire>>
  BY DEF ProcessResult, adapterVars
<1>6. /\ requestQueue' = Append(requestQueue, [desc |-> Head(results), group |-> NextGroup])
      /\ Len(requestQueue') = Len(requestQueue) + 1
      /\ completionQueue' = completionQueue /\ pc' = "process"
  BY <1>1, <1>2, <1>3, <1>4, <1>5, SendStep
<1> QED
  BY <1>1, <1>2, <1>4, <1>5, <1>6 DEF SendUnchanged

LEMMA TransmitEffect ==
  ASSUME CoreInv, Transmit
  PROVE  /\ onWire + 1 \in 1 .. Len(requestQueue) /\ onWire' = onWire + 1
         /\ requestQueue[onWire + 1] \in Request
         /\ wire' = Append(wire, [group |-> requestQueue[onWire + 1].group,
                                  seq |-> payload[PacketOf(requestQueue[onWire + 1].desc)]])
         /\ Len(wire') = Len(wire) + 1
         /\ UNCHANGED <<requestQueue, completionQueue, results, posted, groupCounter,
                        sequenceNumber, payload, numGroups, groupStats, pc>>
<1> DEFINE packet == [group |-> requestQueue[onWire + 1].group,
                      seq |-> payload[PacketOf(requestQueue[onWire + 1].desc)]]
<1>1. /\ TypeOK /\ TypeOK' /\ onWire < Len(requestQueue)
      /\ onWire' = onWire + 1 /\ wire' = Append(wire, packet)
      /\ UNCHANGED <<requestQueue, completionQueue, results, posted, groupCounter,
                     sequenceNumber, payload, numGroups, groupStats, pc>>
  BY CoreTransmit DEF CoreInv, Transmit, sessionVars, rioVars, loopVars
<1>2. onWire + 1 \in 1 .. Len(requestQueue)
  BY <1>1 DEF TypeOK
<1>3. requestQueue[onWire + 1] \in Request
  BY <1>1, <1>2 DEF TypeOK
<1>4. Len(wire') = Len(wire) + 1
  <2> HIDE DEF packet
  <2>1. wire \in Seq([group : GroupIndices, seq : Nat])
    BY <1>1 DEF TypeOK
  <2>2. Len(Append(wire, packet)) = Len(wire) + 1
    BY <2>1
  <2> QED
    BY <1>1, <2>2
<1> QED
  BY <1>1, <1>2, <1>3, <1>4

LEMMA CompletesEffect ==
  ASSUME CoreInv, SendCompletes
  PROVE  /\ requestQueue # <<>> /\ requestQueue' = Tail(requestQueue)
         /\ Len(requestQueue) \in Nat /\ Len(requestQueue') = Len(requestQueue) - 1
         /\ completionQueue' = Append(completionQueue, Head(requestQueue).desc)
         /\ onWire \in Nat /\ onWire > 0 /\ onWire' = onWire - 1
         /\ UNCHANGED <<wire, results, posted, groupCounter, sequenceNumber, payload,
                        numGroups, groupStats, pc>>
<1>1. /\ TypeOK /\ requestQueue # <<>> /\ onWire > 0 /\ requestQueue' = Tail(requestQueue)
      /\ completionQueue' = Append(completionQueue, Head(requestQueue).desc)
      /\ onWire' = onWire - 1
      /\ UNCHANGED <<wire, results, posted, groupCounter, sequenceNumber, payload, numGroups,
                     groupStats, pc>>
  BY DEF CoreInv, SendCompletes, CompleteRequest, loopVars
<1>2. Len(Tail(requestQueue)) = Len(requestQueue) - 1 /\ Len(requestQueue) \in Nat
  BY <1>1, HeadTailProperties DEF TypeOK
<1> QED
  BY <1>1, <1>2 DEF TypeOK

\* The steps that move none.
Quiet ==
  \/ SessionStep /\ UNCHANGED producerVars
  \/ CheckLoop \/ WaitForCompletion \/ EndBatch
  \/ SpinThread
  \/ (HandlerRoutine \/ TimePasses) /\ UNCHANGED producerVars
  \/ UNCHANGED vars

LEMMA QuietEffect ==
  ASSUME Quiet
  PROVE  /\ UNCHANGED <<requestQueue, completionQueue, results, posted, groupCounter,
                        sequenceNumber, payload, numGroups, groupStats, onWire, wire>>
         /\ pc \in {"start", "post"} <=> pc' \in {"start", "post"}
<1> USE DEF rioVars, limitVars, resourceVars, producerVars, loopVars, adapterVars
<1>1. CASE SessionStep /\ UNCHANGED producerVars
  BY <1>1 DEF SessionStep, StartReport, NotifyCompletionQueue, JoinThread, CloseSocket,
              ReleaseBuffers, RIONotify
<1>2. CASE CheckLoop \/ WaitForCompletion \/ EndBatch
  BY <1>2 DEF CheckLoop, WaitForCompletion, EndBatch, TakeNotification
<1>3. CASE SpinThread \/ ((HandlerRoutine \/ TimePasses) /\ UNCHANGED producerVars)
  BY <1>3 DEF SpinThread, ReportExits, HandlerRoutine, TimePasses
<1>4. CASE UNCHANGED vars
  BY <1>4 DEF vars, sessionVars
<1> QED
  BY <1>1, <1>2, <1>3, <1>4 DEF Quiet

LEMMA NextSplits ==
  ASSUME [Next]_vars
  PROVE  \/ FillPackets \/ PostFirstSend \/ DequeueResults \/ ProcessResult
         \/ Transmit \/ SendCompletes \/ Quiet
  BY DEF Next, MainThread, Adapter, Quiet

\* How many elements of q, from the a-th on, are for group g.
CountFrom(q, a, g) == Cardinality({k \in a .. Len(q) : q[k].group = g})

LEMMA CountAppend ==
  ASSUME NEW S, NEW q \in Seq(S), NEW a \in 1 .. Len(q) + 1, NEW e \in S, NEW g
  PROVE  CountFrom(Append(q, e), a, g) = CountFrom(q, a, g) + IF e.group = g THEN 1 ELSE 0
<1> DEFINE p == Append(q, e)
           n == Len(q) + 1
           A == {k \in a .. Len(q) : q[k].group = g}
           B == {k \in a .. Len(p) : p[k].group = g}
<1>1. Len(p) = n /\ n \in Nat /\ p[n] = e /\ \A k \in 1 .. Len(q) : p[k] = q[k]
  BY AppendProperties
<1>2. IsFiniteSet(A) /\ Cardinality(A) \in Nat /\ n \notin A
  <2>1. A \in SUBSET (a .. Len(q)) /\ a \in Int /\ Len(q) \in Int
    OBVIOUS
  <2> HIDE DEF A
  <2>2. n \notin A
    BY <2>1 DEF n
  <2>3. IsFiniteSet(A) /\ Cardinality(A) \in Nat
    BY ONLY <2>1, PartOfInterval
  <2> QED
    BY <2>2, <2>3
<1> HIDE DEF p, n
<1>3. B = IF e.group = g THEN A \cup {n} ELSE A
  <2>1. a .. n = (a .. Len(q)) \cup {n}
    BY <1>1 DEF n
  <2> QED
    BY <1>1, <2>1
<1>4. CountFrom(p, a, g) = Cardinality(B) /\ CountFrom(q, a, g) = Cardinality(A)
  BY DEF CountFrom
<1> HIDE DEF A, B
<1>5. Cardinality(A \cup {n}) = Cardinality(A) + 1
  BY <1>2, FS_AddElement
<1> QED
  BY <1>2, <1>3, <1>4, <1>5 DEF p

LEMMA CountFirst ==
  ASSUME NEW S, NEW q \in Seq(S), NEW a \in 1 .. Len(q), NEW g
  PROVE  CountFrom(q, a, g) = CountFrom(q, a + 1, g) + IF q[a].group = g THEN 1 ELSE 0
<1> DEFINE A == {k \in a + 1 .. Len(q) : q[k].group = g}
           B == {k \in a .. Len(q) : q[k].group = g}
<1>1. IsFiniteSet(A) /\ Cardinality(A) \in Nat /\ a \notin A
  <2>1. A \in SUBSET (a + 1 .. Len(q)) /\ a + 1 \in Int /\ Len(q) \in Int
    OBVIOUS
  <2> HIDE DEF A
  <2>2. a \notin A
    BY <2>1
  <2>3. IsFiniteSet(A) /\ Cardinality(A) \in Nat
    BY ONLY <2>1, PartOfInterval
  <2> QED
    BY <2>2, <2>3
<1>2. B = IF q[a].group = g THEN A \cup {a} ELSE A
  <2>1. a .. Len(q) = (a + 1 .. Len(q)) \cup {a}
    OBVIOUS
  <2> QED
    BY <2>1
<1>3. CountFrom(q, a, g) = Cardinality(B) /\ CountFrom(q, a + 1, g) = Cardinality(A)
  BY DEF CountFrom
<1> HIDE DEF A, B
<1>4. Cardinality(A \cup {a}) = Cardinality(A) + 1
  BY <1>1, FS_AddElement
<1> QED
  BY <1>1, <1>2, <1>3, <1>4

LEMMA CountTail ==
  ASSUME NEW S, NEW q \in Seq(S), q # <<>>, NEW a \in 1 .. Len(q), NEW g
  PROVE  CountFrom(Tail(q), a, g) = CountFrom(q, a + 1, g)
<1> DEFINE p == Tail(q)
           A == {k \in a .. Len(p) : p[k].group = g}
           B == {k \in a + 1 .. Len(q) : q[k].group = g}
           f == [k \in A |-> k + 1]
<1>1. Len(q) \in Nat /\ Len(p) = Len(q) - 1 /\ \A k \in 1 .. Len(p) : p[k] = q[k + 1]
  BY HeadTailProperties
<1> HIDE DEF p
<1>2. IsFiniteSet(A)
  <2>1. A \in SUBSET (a .. Len(p)) /\ a \in Int /\ Len(p) \in Int
    BY <1>1
  <2> HIDE DEF A
  <2> QED
    BY <2>1, PartOfInterval
<1>3. \A k \in A : k \in Int /\ k \in 1 .. Len(p) /\ k + 1 \in B
  BY <1>1
<1>4. \A k \in B : k \in Int /\ k - 1 \in A /\ (k - 1) + 1 = k
  <2> SUFFICES ASSUME NEW k \in B PROVE k \in Int /\ k - 1 \in A /\ (k - 1) + 1 = k
    OBVIOUS
  <2>1. k - 1 \in a .. Len(p) /\ k - 1 \in 1 .. Len(p) /\ (k - 1) + 1 = k /\ q[k].group = g
    BY <1>1
  <2>2. p[k - 1] = q[k]
    BY <1>1, <2>1
  <2> QED
    BY <2>1, <2>2
<1> HIDE DEF A, B
<1>5. ExistsBijection(A, B)
  <2>1. f \in [A -> B]
    BY <1>3
  <2>2. \A j, k \in A : f[j] = f[k] => j = k
    BY <1>3
  <2>3. \A k \in B : \E j \in A : f[j] = k
    BY <1>3, <1>4
  <2> HIDE DEF f
  <2>4. f \in Bijection(A, B)
    BY <2>1, <2>2, <2>3 DEF Bijection, Injection, Surjection, IsInjective
  <2> QED
    BY <2>4 DEF ExistsBijection
<1>6. Cardinality(A) = Cardinality(B)
  BY <1>2, <1>5, FS_Bijection
<1> QED
  BY <1>6 DEF CountFrom, A, B, p

\* The adapter has not read more than is in the queue, and what is counted is
\* sent or waits to be.
AccountInv == onWire <= Len(requestQueue) /\ SendsAccounted

LEMMA CountsOfGroup ==
  ASSUME TypeOK, NEW g
  PROVE  OnWireTo(g) = CountFrom(wire, 1, g) /\ InQueueTo(g) = CountFrom(requestQueue, onWire + 1, g)
  BY DEF OnWireTo, InQueueTo, CountFrom

LEMMA AccountInit == Init => AccountInv
<1> SUFFICES ASSUME Init PROVE AccountInv
  OBVIOUS
<1>1. /\ requestQueue = <<>> /\ wire = <<>> /\ onWire = 0
      /\ groupStats = [g \in GroupIndices |-> InitGroupStats]
  BY DEF Init, SessionInit, RioInit
<1>2. \A g : OnWireTo(g) = 0 /\ InQueueTo(g) = 0
  <2>1. 1 .. Len(wire) = {} /\ onWire + 1 .. Len(requestQueue) = {}
    BY <1>1
  <2> QED
    BY <2>1, FS_EmptySet DEF OnWireTo, InQueueTo
<1>3. \A g \in GroupIndices : groupStats[g].Packets = 0
  BY <1>1 DEF InitGroupStats
<1> QED
  BY <1>1, <1>2, <1>3 DEF AccountInv, SendsAccounted

LEMMA AccountNext == CoreInv /\ AccountInv /\ [Next]_vars => AccountInv'
<1> SUFFICES ASSUME CoreInv, AccountInv, [Next]_vars PROVE AccountInv'
  OBVIOUS
<1>0. /\ TypeOK /\ TypeOK' /\ onWire \in Nat /\ Len(requestQueue) \in Nat
      /\ onWire <= Len(requestQueue) /\ Len(wire) \in Nat
      /\ requestQueue \in Seq(Request) /\ wire \in Seq([group : GroupIndices, seq : Nat])
      /\ \A g \in GroupIndices : groupStats[g].Packets = OnWireTo(g) + InQueueTo(g)
  <2>1. TypeOK /\ TypeOK'
    BY CoreNext DEF CoreInv
  <2>2. /\ onWire <= Len(requestQueue)
        /\ \A g \in GroupIndices : groupStats[g].Packets = OnWireTo(g) + InQueueTo(g)
    BY DEF AccountInv, SendsAccounted
  <2>3. /\ onWire \in Nat /\ requestQueue \in Seq(Request)
        /\ wire \in Seq([group : GroupIndices, seq : Nat])
    BY <2>1 DEF TypeOK
  <2>4. Len(requestQueue) \in Nat /\ Len(wire) \in Nat
    BY <2>3
  <2> QED
    BY ONLY <2>1, <2>2, <2>3, <2>4
<1>1. GroupIndices' = GroupIndices
  BY GroupsFixed
<1>2. \A g : /\ OnWireTo(g) \in Nat /\ InQueueTo(g) \in Nat
             /\ OnWireTo(g) = CountFrom(wire, 1, g)
             /\ InQueueTo(g) = CountFrom(requestQueue, onWire + 1, g)
  <2> SUFFICES ASSUME NEW g
               PROVE  OnWireTo(g) \in Nat /\ InQueueTo(g) \in Nat
    BY <1>0, CountsOfGroup
  <2> DEFINE A == {k \in 1 .. Len(wire) : wire[k].group = g}
             B == {k \in onWire + 1 .. Len(requestQueue) : requestQueue[k].group = g}
  <2>1. /\ A \in SUBSET (1 .. Len(wire)) /\ B \in SUBSET (onWire + 1 .. Len(requestQueue))
        /\ 1 \in Int /\ Len(wire) \in Int /\ onWire + 1 \in Int /\ Len(requestQueue) \in Int
    BY <1>0
  <2>2. OnWireTo(g) = Cardinality(A) /\ InQueueTo(g) = Cardinality(B)
    BY DEF OnWireTo, InQueueTo
  <2> HIDE DEF A, B
  <2>3. Cardinality(A) \in Nat /\ Cardinality(B) \in Nat
    BY ONLY <2>1, PartOfInterval
  <2> QED
    BY <2>2, <2>3
<1>3. \A g : /\ OnWireTo(g)' = CountFrom(wire', 1, g)
             /\ InQueueTo(g)' = CountFrom(requestQueue', onWire' + 1, g)
  BY DEF OnWireTo, InQueueTo, CountFrom
<1>4. ASSUME UNCHANGED <<requestQueue, onWire, wire, groupStats>>
      PROVE  AccountInv'
  <2>1. \A g : OnWireTo(g)' = OnWireTo(g) /\ InQueueTo(g)' = InQueueTo(g)
    BY <1>2, <1>3, <1>4
  <2> QED
    BY <1>0, <1>1, <1>4, <2>1 DEF AccountInv, SendsAccounted
<1>5. ASSUME NEW d \in Descriptors, NEW g \in GroupIndices, CountSend(g),
             requestQueue' = Append(requestQueue, [desc |-> d, group |-> g]),
             Len(requestQueue') = Len(requestQueue) + 1, UNCHANGED <<onWire, wire>>
      PROVE  AccountInv'
  <2> DEFINE r == [desc |-> d, group |-> g]
  <2>1. r \in Request /\ r.group = g /\ requestQueue' = Append(requestQueue, r)
    BY <1>5 DEF Request
  <2> HIDE DEF r
  <2>2. \A h : InQueueTo(h)' = InQueueTo(h) + IF h = g THEN 1 ELSE 0
    <3> SUFFICES ASSUME NEW h PROVE InQueueTo(h)' = InQueueTo(h) + IF h = g THEN 1 ELSE 0
      OBVIOUS
    <3>1. onWire + 1 \in 1 .. Len(requestQueue) + 1
      BY <1>0
    <3>2. CountFrom(Append(requestQueue, r), onWire + 1, h)
            = CountFrom(requestQueue, onWire + 1, h) + IF r.group = h THEN 1 ELSE 0
      BY <1>0, <2>1, <3>1, CountAppend
    <3> QED
      BY <1>2, <1>3, <1>5, <2>1, <3>2
  <2>3. \A h : OnWireTo(h)' = OnWireTo(h)
    BY <1>2, <1>3, <1>5
  <2>4. /\ \A h \in GroupIndices : groupStats[h].Packets \in Nat
        /\ groupStats'[g].Packets = groupStats[g].Packets + 1
        /\ \A h \in GroupIndices : h # g => groupStats'[h] = groupStats[h]
    BY <1>0, <1>5, CountStep
  <2>5. \A h \in GroupIndices : groupStats'[h].Packets = OnWireTo(h)' + InQueueTo(h)'
    <3> SUFFICES ASSUME NEW h \in GroupIndices
                 PROVE  groupStats'[h].Packets = OnWireTo(h)' + InQueueTo(h)'
      OBVIOUS
    <3>1. groupStats[h].Packets = OnWireTo(h) + InQueueTo(h)
      BY <1>0
    <3>2. OnWireTo(h) \in Nat /\ InQueueTo(h) \in Nat /\ OnWireTo(h)' = OnWireTo(h)
          /\ InQueueTo(h)' = InQueueTo(h) + IF h = g THEN 1 ELSE 0
      BY <1>2, <2>2, <2>3
    <3>3. CASE h = g
      BY <2>4, <3>1, <3>2, <3>3
    <3>4. CASE h # g
      BY <2>4, <3>1, <3>2, <3>4
    <3> QED
      BY <3>3, <3>4
  <2> QED
    BY <1>0, <1>1, <1>5, <2>5 DEF AccountInv, SendsAccounted
<1>6. CASE FillPackets
  BY <1>4, <1>6 DEF FillPackets, sessionVars, rioVars, adapterVars
<1>7. CASE PostFirstSend
  <2>1. posted \in Descriptors
    BY <1>0, <1>7, PostEffect, Lengths DEF Descriptors
  <2> QED
    BY <1>5, <1>7, <2>1, PostEffect DEF SendUnchanged
<1>8. CASE DequeueResults
  BY <1>4, <1>8 DEF DequeueResults, RIODequeueCompletion, adapterVars
<1>9. CASE ProcessResult
  BY <1>5, <1>9, ProcessEffect DEF SendUnchanged
<1>10. CASE Transmit
  <2> DEFINE r == requestQueue[onWire + 1]
             packet == [group |-> r.group, seq |-> payload[PacketOf(r.desc)]]
  <2>1. /\ onWire + 1 \in 1 .. Len(requestQueue) /\ onWire' = onWire + 1 /\ r \in Request
        /\ wire' = Append(wire, packet) /\ UNCHANGED <<requestQueue, numGroups, groupStats>>
    BY <1>10, TransmitEffect DEF CoreInv
  <2>2. packet \in [group : GroupIndices, seq : Nat] /\ packet.group = r.group
    BY <1>0, <2>1, PacketOfType DEF TypeOK, Request
  <2> HIDE DEF packet
  <2>3. ASSUME NEW h PROVE OnWireTo(h)' + InQueueTo(h)' = OnWireTo(h) + InQueueTo(h)
    <3>1. CountFrom(Append(wire, packet), 1, h)
            = CountFrom(wire, 1, h) + IF packet.group = h THEN 1 ELSE 0
      <4> DEFINE Sent == [group : GroupIndices, seq : Nat]
      <4>1. 1 \in 1 .. Len(wire) + 1 /\ wire \in Seq(Sent) /\ packet \in Sent
        BY <1>0, <2>2
      <4> HIDE DEF Sent
      <4> QED
        BY ONLY <4>1, CountAppend
    <3>2. CountFrom(requestQueue, onWire + 1, h)
            = CountFrom(requestQueue, onWire + 1 + 1, h) + IF r.group = h THEN 1 ELSE 0
      BY <1>0, <2>1, CountFirst
    <3>3. /\ OnWireTo(h)' = OnWireTo(h) + IF r.group = h THEN 1 ELSE 0
          /\ InQueueTo(h) = InQueueTo(h)' + IF r.group = h THEN 1 ELSE 0
      BY <1>2, <1>3, <2>1, <2>2, <3>1, <3>2
    <3>4. InQueueTo(h)' \in Nat /\ OnWireTo(h) \in Nat
      <4> DEFINE B == {k \in onWire + 2 .. Len(requestQueue) : requestQueue[k].group = h}
      <4>1. InQueueTo(h)' = Cardinality(B)
        <5>1. onWire' + 1 = onWire + 2 /\ requestQueue' = requestQueue
          BY <1>0, <2>1
        <5> QED
          BY <5>1 DEF InQueueTo
      <4>2. B \in SUBSET (onWire + 2 .. Len(requestQueue)) /\ onWire + 2 \in Int
            /\ Len(requestQueue) \in Int
        BY <1>0
      <4> HIDE DEF B
      <4>3. Cardinality(B) \in Nat
        BY ONLY <4>2, PartOfInterval
      <4> QED
        BY <1>2, <4>1, <4>3
    <3> QED
      BY <3>3, <3>4
  <2> QED
    BY <1>0, <1>1, <2>1, <2>3 DEF AccountInv, SendsAccounted
<1>11. CASE SendCompletes
  <2>1. /\ requestQueue # <<>> /\ requestQueue' = Tail(requestQueue)
        /\ Len(requestQueue') = Len(requestQueue) - 1
        /\ onWire > 0 /\ onWire' = onWire - 1 /\ UNCHANGED <<wire, groupStats>>
    BY <1>11, CompletesEffect
  <2>2. ASSUME NEW h PROVE OnWireTo(h)' = OnWireTo(h) /\ InQueueTo(h)' = InQueueTo(h)
    <3>1. onWire \in 1 .. Len(requestQueue) /\ onWire' + 1 = onWire
      BY <1>0, <2>1
    <3>2. CountFrom(Tail(requestQueue), onWire, h) = CountFrom(requestQueue, onWire + 1, h)
      BY <1>0, <2>1, <3>1, CountTail
    <3> QED
      BY <1>2, <1>3, <2>1, <3>1, <3>2
  <2> QED
    BY <1>0, <1>1, <2>1, <2>2 DEF AccountInv, SendsAccounted
<1>12. CASE Quiet
  BY <1>4, <1>12, QuietEffect
<1> QED
  BY <1>6, <1>7, <1>8, <1>9, <1>10, <1>11, <1>12, NextSplits

\* The number of sends that were requested: the ones on the wire and the ones
\* that the adapter has not read yet.
Sends == Len(wire) + (Len(requestQueue) - onWire)

\* The two counters write it in base numGroups.
RoundInv ==
  /\ onWire <= Len(requestQueue) /\ posted <= Sends
  /\ pc \in {"start", "post"} =>
       /\ Sends = posted /\ groupCounter = 0
       /\ \/ posted = 0 /\ sequenceNumber = 0
          \/ sequenceNumber = PacketRate
  /\ pc \notin {"start", "post"} => Sends = numGroups * sequenceNumber + groupCounter

\* The descriptors go round: from the results in hand to the requests that wait,
\* each is the one after it, and the last request was the last one sent.
DescInv ==
  /\ \A i \in 1 .. Len(results) : results[i] = (Sends - posted + i - 1) % MaxOutstandingSend
  /\ \A i \in 1 .. Len(completionQueue) :
       completionQueue[i] = (Sends - posted + Len(results) + i - 1) % MaxOutstandingSend
  /\ \A i \in 1 .. Len(requestQueue) :
       requestQueue[i].desc = (Sends - Len(requestQueue) + i - 1) % MaxOutstandingSend

\* The number in a packet is that of its last round: the round has begun, and
\* the next one has not.
PayloadInv ==
  sequenceNumber > 0 =>
    \A b \in Packets :
      /\ payload[b] % PacketRate = b
      /\ Sends <= numGroups * (payload[b] + PacketRate)
      /\ payload[b] < PacketRate \/ numGroups * payload[b] < Sends

LEMMA RoundTypes ==
  ASSUME CoreInv, RoundInv
  PROVE  /\ TypeOK /\ SendInv /\ numGroups \in Nat \ {0} /\ PacketRate \in Nat \ {0}
         /\ MaxOutstandingSend \in Nat \ {0} /\ posted \in Nat /\ sequenceNumber \in Nat
         /\ groupCounter \in 0 .. numGroups - 1 /\ onWire \in Nat /\ Len(wire) \in Nat
         /\ Len(requestQueue) \in Nat /\ Len(completionQueue) \in Nat /\ Len(results) \in Nat
         /\ Sends \in Nat /\ posted <= Sends
         /\ Len(requestQueue) + Len(completionQueue) + Len(results) = posted
<1>1. TypeOK /\ SendInv /\ onWire <= Len(requestQueue) /\ posted <= Sends
  BY DEF CoreInv, RoundInv
<1>2. /\ onWire \in Nat /\ Len(wire) \in Nat /\ sequenceNumber \in Nat
      /\ groupCounter \in 0 .. numGroups - 1
  BY <1>1 DEF TypeOK, GroupIndices
<1>3. Sends \in Nat
  BY <1>1, <1>2, Lengths DEF Sends
<1> QED
  BY <1>1, <1>2, <1>3, Lengths DEF SendInv, Outstanding

LEMMA RoundInit == Init => RoundInv /\ DescInv /\ PayloadInv /\ WireSequence
<1> SUFFICES ASSUME Init PROVE RoundInv /\ DescInv /\ PayloadInv /\ WireSequence
  OBVIOUS
<1>1. /\ requestQueue = <<>> /\ completionQueue = <<>> /\ results = <<>> /\ wire = <<>>
      /\ posted = 0 /\ groupCounter = 0 /\ sequenceNumber = 0 /\ onWire = 0 /\ pc = "start"
  BY DEF Init, SessionInit, RioInit
<1>2. Sends = 0 /\ Len(requestQueue) = 0
  BY <1>1 DEF Sends
<1>3. RoundInv
  BY <1>1, <1>2 DEF RoundInv
<1>4. DescInv /\ PayloadInv /\ WireSequence
  BY <1>1, <1>2 DEF DescInv, PayloadInv, WireSequence
<1> QED
  BY <1>3, <1>4

LEMMA RoundNext == CoreInv /\ RoundInv /\ [Next]_vars => RoundInv'
<1> SUFFICES ASSUME CoreInv, RoundInv, [Next]_vars PROVE RoundInv'
  OBVIOUS
<1>0. /\ TypeOK /\ SendInv /\ numGroups \in Nat \ {0} /\ PacketRate \in Nat \ {0}
      /\ MaxOutstandingSend \in Nat \ {0} /\ posted \in Nat /\ sequenceNumber \in Nat
      /\ groupCounter \in 0 .. numGroups - 1 /\ onWire \in Nat /\ Len(wire) \in Nat
      /\ Len(requestQueue) \in Nat
  BY RoundTypes
<1>1. numGroups' = numGroups
  BY GroupsFixed
<1> USE DEF RoundInv, Sends
<1>2. CASE FillPackets
  BY <1>0, <1>2 DEF FillPackets, sessionVars, rioVars, adapterVars
<1>3. CASE PostFirstSend
  <2>1. MaxOutstandingSend = numGroups * PacketRate + 0
    <3>1. PacketRate * numGroups = numGroups * PacketRate + 0
      BY <1>0, SMT
    <3> QED
      BY <3>1 DEF MaxOutstandingSend
  <2>2. /\ pc = "post" /\ posted' = posted + 1 /\ Len(requestQueue') = Len(requestQueue) + 1
        /\ pc' = IF posted + 1 = MaxOutstandingSend THEN "check" ELSE "post"
        /\ sequenceNumber > 0
        /\ UNCHANGED <<groupCounter, sequenceNumber, onWire, wire>>
    BY <1>3, PostEffect DEF SendUnchanged
  <2>3. sequenceNumber = PacketRate /\ groupCounter = 0
    BY <1>0, <2>2
  <2> QED
    BY <1>0, <1>1, <2>1, <2>2, <2>3
<1>4. CASE DequeueResults
  BY <1>0, <1>1, <1>4 DEF DequeueResults, RIODequeueCompletion, adapterVars
<1>5. CASE ProcessResult
  <2>1. /\ pc = "process" /\ pc' = "process" /\ Len(requestQueue') = Len(requestQueue) + 1
        /\ UNCHANGED <<posted, onWire, wire>>
    BY <1>5, ProcessEffect DEF SendUnchanged
  <2>2. numGroups * sequenceNumber' + groupCounter' = numGroups * sequenceNumber + groupCounter + 1
    BY <1>0, <1>5, RoundStep
  <2>3. Sends' = Sends + 1
    BY <1>0, <2>1
  <2>4. Sends' = numGroups' * sequenceNumber' + groupCounter'
    BY <1>1, <2>1, <2>2, <2>3
  <2> QED
    BY <1>0, <2>1, <2>3, <2>4
<1>6. CASE Transmit
  <2>1. /\ onWire + 1 <= Len(requestQueue) /\ onWire' = onWire + 1 /\ Len(wire') = Len(wire) + 1
        /\ UNCHANGED <<requestQueue, posted, groupCounter, sequenceNumber, pc>>
    BY <1>6, TransmitEffect
  <2> QED
    BY <1>0, <1>1, <2>1
<1>7. CASE SendCompletes
  <2>1. /\ onWire > 0 /\ onWire' = onWire - 1 /\ Len(requestQueue') = Len(requestQueue) - 1
        /\ UNCHANGED <<wire, posted, groupCounter, sequenceNumber, pc>>
    BY <1>7, CompletesEffect
  <2> QED
    BY <1>0, <1>1, <2>1
<1>8. CASE Quiet
  BY <1>0, <1>1, <1>8, QuietEffect
<1> QED
  BY <1>2, <1>3, <1>4, <1>5, <1>6, <1>7, <1>8, NextSplits

\* A request for the descriptor whose turn it is keeps the order of the queue.
LEMMA TurnTaken ==
  ASSUME CoreInv, RoundInv, DescInv, NEW d, NEW g,
         requestQueue' = Append(requestQueue, [desc |-> d, group |-> g]),
         d = Sends % MaxOutstandingSend, Sends' = Sends + 1,
         MaxOutstandingSend' = MaxOutstandingSend
  PROVE  \A i \in 1 .. Len(requestQueue') :
           requestQueue'[i].desc = (Sends' - Len(requestQueue') + i - 1) % MaxOutstandingSend'
<1> DEFINE r == [desc |-> d, group |-> g]
           q == requestQueue
<1>1. q \in Seq(Request) /\ Len(q) \in Nat /\ Sends \in Nat
  BY RoundTypes DEF TypeOK
<1>2. r.desc = d /\ requestQueue' = Append(q, r)
  OBVIOUS
<1>3. \A i \in 1 .. Len(q) : q[i].desc = (Sends - Len(q) + i - 1) % MaxOutstandingSend
  BY DEF DescInv
<1> HIDE DEF r, q
<1>4. /\ Len(requestQueue') = Len(q) + 1 /\ requestQueue'[Len(q) + 1] = r
      /\ \A i \in 1 .. Len(q) : requestQueue'[i] = q[i]
  BY <1>1, <1>2
<1>5. Sends' - Len(requestQueue') = Sends - Len(q)
  <2>1. Sends' = Sends + 1
    OBVIOUS
  <2> QED
    BY ONLY <1>1, <1>4, <2>1
<1> SUFFICES ASSUME NEW i \in 1 .. Len(requestQueue')
             PROVE  requestQueue'[i].desc
                      = (Sends' - Len(requestQueue') + i - 1) % MaxOutstandingSend'
  OBVIOUS
<1>6. CASE i = Len(q) + 1
  <2>1. Sends' - Len(requestQueue') + i - 1 = Sends
    BY <1>1, <1>5, <1>6
  <2> QED
    BY <1>2, <1>4, <1>6, <2>1
<1>7. CASE i # Len(q) + 1
  <2>1. i \in 1 .. Len(q)
    BY <1>1, <1>4, <1>7
  <2> QED
    BY <1>3, <1>4, <1>5, <2>1
<1> QED
  BY <1>6, <1>7

LEMMA DescNext == CoreInv /\ RoundInv /\ DescInv /\ [Next]_vars => DescInv'
<1> SUFFICES ASSUME CoreInv, RoundInv, DescInv, [Next]_vars PROVE DescInv'
  OBVIOUS
<1>0. /\ TypeOK /\ SendInv /\ numGroups \in Nat \ {0} /\ PacketRate \in Nat \ {0}
      /\ MaxOutstandingSend \in Nat \ {0} /\ posted \in Nat /\ Sends \in Nat
      /\ posted <= Sends /\ onWire \in Nat /\ Len(wire) \in Nat /\ Len(requestQueue) \in Nat
      /\ Len(completionQueue) \in Nat /\ Len(results) \in Nat
      /\ Len(requestQueue) + Len(completionQueue) + Len(results) = posted
  BY RoundTypes
<1>1. MaxOutstandingSend' = MaxOutstandingSend
  BY GroupsFixed
<1> DEFINE M == MaxOutstandingSend
           first == Sends - posted
<1>2. /\ \A i \in 1 .. Len(results) : results[i] = (first + i - 1) % M
      /\ \A i \in 1 .. Len(completionQueue) :
           completionQueue[i] = (first + Len(results) + i - 1) % M
      /\ \A i \in 1 .. Len(requestQueue) :
           requestQueue[i].desc = (Sends - Len(requestQueue) + i - 1) % M
  BY DEF DescInv
<1>3. first \in Nat
  BY <1>0
<1>4. CASE FillPackets
  BY <1>1, <1>4 DEF FillPackets, sessionVars, rioVars, adapterVars, DescInv, Sends
<1>5. CASE PostFirstSend
  <2>1. /\ pc = "post" /\ posted < M /\ posted' = posted + 1 /\ results' = results
        /\ requestQueue' = Append(requestQueue, [desc |-> posted, group |-> posted % numGroups])
        /\ Len(requestQueue') = Len(requestQueue) + 1
        /\ UNCHANGED <<completionQueue, numGroups, onWire, wire>>
    BY <1>5, PostEffect DEF SendUnchanged
  <2>2. Sends = posted /\ Sends' = Sends + 1 /\ results = <<>>
    BY <1>0, <2>1 DEF RoundInv, Sends, SendInv
  <2>3. posted = Sends % M
    BY <1>0, <2>1, <2>2, ModSmall
  <2>4. \A i \in 1 .. Len(requestQueue') :
          requestQueue'[i].desc = (Sends' - Len(requestQueue') + i - 1) % M'
    BY ONLY CoreInv, RoundInv, DescInv, <1>1, <2>1, <2>2, <2>3, TurnTaken
  <2>5. Sends' - posted' = first
    BY <1>0, <2>1, <2>2
  <2> HIDE DEF first, M
  <2> QED
    BY <1>1, <1>2, <2>1, <2>4, <2>5 DEF DescInv, M
<1>6. CASE DequeueResults
  <2>1. /\ RIODequeueCompletion(M) /\ results' = Dequeued(M) /\ pc = "dequeue"
        /\ UNCHANGED <<requestQueue, numGroups, onWire, wire, posted>>
    BY <1>6 DEF DequeueResults, RIODequeueCompletion, adapterVars
  <2>2. results = <<>> /\ Sends' = Sends /\ completionQueue \in Seq(Descriptors)
    BY <1>0, <2>1 DEF SendInv, Sends, TypeOK
  <2> DEFINE k == Len(Dequeued(M))
  <2>3. /\ Dequeued(M) \in Seq(Descriptors) /\ completionQueue' \in Seq(Descriptors)
        /\ k + Len(completionQueue') = Len(completionQueue)
    BY <1>0, <2>1, <2>2, DequeueSplits
  <2>4. \A i \in 1 .. Len(completionQueue) :
          completionQueue[i] = IF i <= k THEN results'[i] ELSE completionQueue'[i - k]
    BY <1>0, <2>1, <2>2, DequeueKeeps
  <2>5. k \in Nat /\ Len(completionQueue') \in Nat /\ Len(results') = k /\ Len(results) = 0
    BY <2>1, <2>2, <2>3
  <2> HIDE DEF k
  <2>6. Sends' - posted' = first
    BY <2>1, <2>2
  <2> HIDE DEF first, M
  <2>7. \A i \in 1 .. Len(results') : results'[i] = (first + i - 1) % M
    <3> SUFFICES ASSUME NEW i \in 1 .. Len(results') PROVE results'[i] = (first + i - 1) % M
      OBVIOUS
    <3>1. i \in 1 .. Len(completionQueue) /\ i <= k
      BY <1>0, <2>3, <2>5
    <3>2. completionQueue[i] = (first + 0 + i - 1) % M
      BY <1>2, <2>5, <3>1
    <3>3. first + 0 + i - 1 = first + i - 1
      BY <1>3
    <3> QED
      BY <2>4, <3>1, <3>2, <3>3
  <2>8. \A i \in 1 .. Len(completionQueue') :
          completionQueue'[i] = (first + Len(results') + i - 1) % M
    <3> SUFFICES ASSUME NEW i \in 1 .. Len(completionQueue')
                 PROVE  completionQueue'[i] = (first + Len(results') + i - 1) % M
      OBVIOUS
    <3>1. k + i \in 1 .. Len(completionQueue) /\ ~(k + i <= k) /\ (k + i) - k = i
      BY <1>0, <2>3, <2>5
    <3>2. completionQueue[k + i] = (first + 0 + (k + i) - 1) % M
      BY <1>2, <2>5, <3>1
    <3>3. first + 0 + (k + i) - 1 = first + Len(results') + i - 1
      BY <1>3, <2>5
    <3> QED
      BY <2>4, <3>1, <3>2, <3>3
  <2> QED
    BY <1>1, <1>2, <2>1, <2>2, <2>6, <2>7, <2>8 DEF DescInv, M
<1>7. CASE ProcessResult
  <2>1. /\ pc = "process" /\ results # <<>> /\ results' = Tail(results)
        /\ requestQueue' = Append(requestQueue, [desc |-> Head(results), group |-> NextGroup])
        /\ Len(requestQueue') = Len(requestQueue) + 1 /\ posted' = posted
        /\ UNCHANGED <<completionQueue, numGroups, onWire, wire>>
    BY <1>7, ProcessEffect DEF SendUnchanged
  <2>2. /\ Sends' = Sends + 1 /\ posted = M /\ results \in Seq(Descriptors)
    BY <1>0, <2>1 DEF Sends, SendInv, TypeOK
  <2>3. /\ Len(results) > 0 /\ Head(results) = results[1] /\ Len(results') = Len(results) - 1
        /\ \A i \in 1 .. Len(results') : results'[i] = results[i + 1]
    BY <2>1, <2>2, HeadTailProperties
  <2>4. Head(results) = Sends % M
    <3>1. results[1] = (first + 1 - 1) % M
      BY <1>0, <1>2, <2>3
    <3>2. first + 1 - 1 = first /\ Sends = M + first
      BY <1>0, <1>3, <2>2
    <3> HIDE DEF first
    <3> QED
      BY <1>0, <1>3, <2>3, <3>1, <3>2, ModShift
  <2>5. \A i \in 1 .. Len(requestQueue') :
          requestQueue'[i].desc = (Sends' - Len(requestQueue') + i - 1) % M'
    BY ONLY CoreInv, RoundInv, DescInv, <1>1, <2>1, <2>2, <2>4, TurnTaken
  <2>6. Sends' - posted' = first + 1
    BY <1>0, <2>1, <2>2
  <2> HIDE DEF first, M
  <2>7. \A i \in 1 .. Len(results') : results'[i] = (first + 1 + i - 1) % M
    <3> SUFFICES ASSUME NEW i \in 1 .. Len(results') PROVE results'[i] = (first + 1 + i - 1) % M
      OBVIOUS
    <3>1. i + 1 \in 1 .. Len(results) /\ first + (i + 1) - 1 = first + 1 + i - 1
      BY <1>0, <1>3, <2>3
    <3> QED
      BY <1>2, <2>3, <3>1
  <2>8. \A i \in 1 .. Len(completionQueue') :
          completionQueue'[i] = (first + 1 + Len(results') + i - 1) % M
    <3> SUFFICES ASSUME NEW i \in 1 .. Len(completionQueue)
                 PROVE  completionQueue[i] = (first + 1 + Len(results') + i - 1) % M
      BY <2>1
    <3>1. first + 1 + Len(results') + i - 1 = first + Len(results) + i - 1
      BY <1>0, <1>3, <2>3
    <3> QED
      BY <1>2, <3>1
  <2> QED
    BY <1>1, <2>5, <2>6, <2>7, <2>8 DEF DescInv, M
<1>8. CASE Transmit
  <2>1. /\ onWire + 1 <= Len(requestQueue) /\ onWire' = onWire + 1 /\ Len(wire') = Len(wire) + 1
        /\ UNCHANGED <<requestQueue, completionQueue, results, posted>>
    BY <1>8, TransmitEffect
  <2>2. Sends' = Sends
    BY <1>0, <2>1 DEF Sends
  <2> QED
    BY <1>1, <2>1, <2>2 DEF DescInv
<1>9. CASE SendCompletes
  <2>1. /\ requestQueue # <<>> /\ requestQueue' = Tail(requestQueue)
        /\ Len(requestQueue') = Len(requestQueue) - 1
        /\ completionQueue' = Append(completionQueue, Head(requestQueue).desc)
        /\ onWire > 0 /\ onWire' = onWire - 1
        /\ UNCHANGED <<wire, results, posted>>
    BY <1>9, CompletesEffect
  <2>2. /\ Sends' = Sends /\ requestQueue \in Seq(Request) /\ completionQueue \in Seq(Descriptors)
    BY <1>0, <2>1 DEF Sends, TypeOK
  <2>3. /\ Head(requestQueue) = requestQueue[1] /\ Len(requestQueue) > 0
        /\ \A i \in 1 .. Len(requestQueue') : requestQueue'[i] = requestQueue[i + 1]
    BY <2>1, <2>2, HeadTailProperties
  <2> DEFINE d == Head(requestQueue).desc
  <2>4. d = (first + Len(results) + Len(completionQueue)) % M
    <3>1. d = (Sends - Len(requestQueue) + 1 - 1) % M
      BY <1>0, <1>2, <2>3
    <3>2. Sends - Len(requestQueue) + 1 - 1 = first + Len(results) + Len(completionQueue)
      BY <1>0
    <3> QED
      BY <3>1, <3>2
  <2>5. d \in Descriptors
    <3>1. requestQueue[1] \in Request
      BY <2>2, <2>3
    <3> QED
      BY <2>3, <3>1 DEF Request
  <2> HIDE DEF d
  <2>6. completionQueue' = Append(completionQueue, d)
    BY <2>1 DEF d
  <2>7. /\ Len(completionQueue') = Len(completionQueue) + 1
        /\ completionQueue'[Len(completionQueue) + 1] = d
        /\ \A i \in 1 .. Len(completionQueue) : completionQueue'[i] = completionQueue[i]
    BY <2>2, <2>5, <2>6
  <2> HIDE DEF first, M
  <2>8. \A i \in 1 .. Len(completionQueue') :
          completionQueue'[i] = (first + Len(results) + i - 1) % M
    <3> SUFFICES ASSUME NEW i \in 1 .. Len(completionQueue')
                 PROVE  completionQueue'[i] = (first + Len(results) + i - 1) % M
      OBVIOUS
    <3>1. CASE i = Len(completionQueue) + 1
      <4>1. first + Len(results) + i - 1 = first + Len(results) + Len(completionQueue)
        BY <1>0, <1>3, <3>1
      <4> QED
        BY <2>4, <2>7, <3>1, <4>1
    <3>2. CASE i # Len(completionQueue) + 1
      <4>1. i \in 1 .. Len(completionQueue)
        BY <1>0, <2>7, <3>2
      <4> QED
        BY <1>2, <2>7, <4>1
    <3> QED
      BY <3>1, <3>2
  <2>9. \A i \in 1 .. Len(requestQueue') :
          requestQueue'[i].desc = (Sends - Len(requestQueue') + i - 1) % M
    <3> SUFFICES ASSUME NEW i \in 1 .. Len(requestQueue')
                 PROVE  requestQueue'[i].desc = (Sends - Len(requestQueue') + i - 1) % M
      OBVIOUS
    <3>1. i + 1 \in 1 .. Len(requestQueue)
      BY <1>0, <2>1
    <3>2. Sends - Len(requestQueue) + (i + 1) - 1 = Sends - Len(requestQueue') + i - 1
      BY <1>0, <2>1
    <3> QED
      BY <1>2, <2>3, <3>1, <3>2
  <2> QED
    BY <1>1, <1>2, <2>1, <2>2, <2>8, <2>9 DEF DescInv, M, first
<1>10. CASE Quiet
  <2>1. UNCHANGED <<requestQueue, completionQueue, results, posted, onWire, wire>>
    BY <1>10, QuietEffect
  <2> QED
    BY <1>1, <2>1 DEF DescInv, Sends
<1> QED
  BY <1>4, <1>5, <1>6, <1>7, <1>8, <1>9, <1>10, NextSplits

\* Once a send was requested, the packets are numbered.
LEMMA Numbered ==
  ASSUME CoreInv, RoundInv, Sends > 0
  PROVE  sequenceNumber > 0
<1>0. /\ SendInv /\ numGroups \in Nat \ {0} /\ PacketRate \in Nat \ {0}
      /\ sequenceNumber \in Nat /\ groupCounter \in 0 .. numGroups - 1
      /\ Sends \in Nat /\ posted <= Sends
  BY RoundTypes
<1>1. CASE pc \in {"start", "post"}
  BY <1>0, <1>1 DEF RoundInv
<1>2. CASE pc \notin {"start", "post"}
  <2>1. /\ Sends = numGroups * sequenceNumber + groupCounter
        /\ PacketRate * numGroups <= Sends
    BY <1>0, <1>2 DEF RoundInv, SendInv, MaxOutstandingSend
  <2>2. numGroups <= PacketRate * numGroups
    BY <1>0, SMT
  <2>3. sequenceNumber = 0 => numGroups * sequenceNumber = 0
    BY <1>0
  <2> QED
    BY <1>0, <2>1, <2>2, <2>3
<1> QED
  BY <1>1, <1>2

LEMMA PayloadNext == CoreInv /\ RoundInv /\ DescInv /\ PayloadInv /\ [Next]_vars => PayloadInv'
<1> SUFFICES ASSUME CoreInv, RoundInv, DescInv, PayloadInv, [Next]_vars PROVE PayloadInv'
  OBVIOUS
<1> DEFINE n == numGroups
           R == PacketRate
           Of(b, p, s) == /\ p % R = b /\ s <= n * (p + R)
                          /\ p < R \/ n * p < s
<1>0. /\ TypeOK /\ SendInv /\ n \in Nat \ {0} /\ R \in Nat \ {0}
      /\ MaxOutstandingSend \in Nat \ {0} /\ posted \in Nat /\ sequenceNumber \in Nat
      /\ groupCounter \in 0 .. n - 1 /\ Sends \in Nat /\ posted <= Sends
      /\ onWire \in Nat /\ Len(wire) \in Nat /\ Len(requestQueue) \in Nat
      /\ Len(results) \in Nat
  BY RoundTypes
<1>1. n' = n /\ MaxOutstandingSend' = MaxOutstandingSend
  BY GroupsFixed
<1>2. /\ payload \in [Packets -> Nat]
      /\ sequenceNumber > 0 => \A b \in Packets : Of(b, payload[b], Sends)
  BY <1>0 DEF PayloadInv, TypeOK
<1>3. ASSUME \A b \in Packets : Of(b, payload'[b], Sends')
      PROVE  PayloadInv'
  BY <1>1, <1>3 DEF PayloadInv
<1>4. \A p \in Nat : n * (p + R) = n * p + MaxOutstandingSend /\ n * p \in Nat
  <2> TAKE p \in Nat
  <2>1. n * (p + R) = n * p + R * n /\ n * p \in Nat
    BY <1>0, SMT
  <2> QED
    BY <2>1 DEF MaxOutstandingSend
<1>5. CASE FillPackets
  <2>1. /\ pc = "post" /\ posted = 0 /\ payload' = [b \in Packets |-> b]
        /\ UNCHANGED <<requestQueue, onWire, wire>>
    BY <1>5 DEF FillPackets, sessionVars, rioVars, adapterVars
  <2>2. Sends' = 0
    BY <1>0, <2>1 DEF RoundInv, Sends
  <2>3. ASSUME NEW b \in Packets PROVE Of(b, payload'[b], Sends')
    <3>1. b \in Nat /\ b < R /\ payload'[b] = b
      BY <1>0, <2>1 DEF Packets
    <3>2. b % R = b
      BY <1>0, <3>1, ModSmall
    <3>3. 0 <= n * (b + R)
      BY <1>0, <1>4, <3>1
    <3> QED
      BY <2>2, <3>1, <3>2, <3>3
  <2> QED
    BY <1>3, <2>3
<1>6. CASE PostFirstSend
  <2>1. /\ pc = "post" /\ posted < MaxOutstandingSend /\ sequenceNumber > 0
        /\ Len(requestQueue') = Len(requestQueue) + 1
        /\ UNCHANGED <<payload, onWire, wire>>
    BY <1>6, PostEffect DEF SendUnchanged
  <2>2. Sends' = Sends + 1 /\ Sends' <= MaxOutstandingSend
    BY <1>0, <2>1 DEF RoundInv, Sends
  <2>3. ASSUME NEW b \in Packets PROVE Of(b, payload'[b], Sends')
    <3> DEFINE p == payload[b]
    <3>1. p \in Nat /\ Of(b, p, Sends) /\ payload'[b] = p
      BY <1>2, <2>1
    <3> HIDE DEF p
    <3>2. n * (p + R) = n * p + MaxOutstandingSend /\ n * p \in Nat
      BY <1>4, <3>1
    <3> QED
      BY <1>0, <2>2, <3>1, <3>2
  <2> QED
    BY <1>3, <2>3
<1>7. CASE ProcessResult
  <2> DEFINE d == Head(results)
             s == sequenceNumber
             own == PacketOf(d)
  <2>1. /\ pc = "process" /\ results # <<>> /\ d \in Descriptors
        /\ payload' = [payload EXCEPT ![own] = s]
        /\ Len(requestQueue') = Len(requestQueue) + 1
        /\ UNCHANGED <<onWire, wire>>
    BY <1>7, ProcessEffect DEF SendUnchanged
  <2>2. /\ Sends' = Sends + 1 /\ posted = MaxOutstandingSend /\ Sends = n * s + groupCounter
        /\ results \in Seq(Descriptors)
    BY <1>0, <2>1 DEF Sends, SendInv, TypeOK, RoundInv
  <2>3. s > 0
    BY <1>0, <2>2, Numbered
  <2>4. d = Sends % MaxOutstandingSend
    <3>1. Len(results) > 0 /\ d = results[1]
      BY <2>1, <2>2, HeadTailProperties
    <3>2. results[1] = (Sends - posted + 1 - 1) % MaxOutstandingSend
      BY <1>0, <3>1 DEF DescInv
    <3> DEFINE first == Sends - posted
    <3>3. /\ Sends - posted + 1 - 1 = first /\ first \in Nat
          /\ Sends = MaxOutstandingSend + first
      BY <1>0, <2>2
    <3> HIDE DEF first, d
    <3> QED
      BY <1>0, <3>1, <3>2, <3>3, ModShift
  <2>5. own = s % R /\ own \in Packets
    <3>1. Sends \div n = s
      BY <1>0, <2>2, DivOf
    <3>2. /\ (Sends % (R * n)) \div n = (Sends \div n) % R
          /\ (Sends % (R * n)) \div n \in 0 .. R - 1
      BY <1>0, DivOfMod
    <3> QED
      BY <2>4, <3>1, <3>2 DEF PacketOf, Packets, MaxOutstandingSend
  <2> HIDE DEF d, s, own
  <2>6. s \in Nat
    BY <1>0 DEF s
  <2>7. n <= MaxOutstandingSend
    BY <1>0, SMT DEF MaxOutstandingSend
  <2>8. ASSUME NEW b \in Packets PROVE Of(b, payload'[b], Sends')
    <3>1. CASE b = own
      <4>1. payload'[b] = s
        BY <1>2, <2>1, <3>1
      <4>2. n * (s + R) = n * s + MaxOutstandingSend /\ n * s \in Nat
        BY <1>4, <2>6
      <4>3. Sends' <= n * (s + R) /\ n * s < Sends'
        BY <1>0, <2>2, <2>7, <4>2
      <4> QED
        BY <2>5, <3>1, <4>1, <4>3
    <3>2. CASE b # own
      <4> DEFINE p == payload[b]
      <4>1. p \in Nat /\ payload'[b] = p
        BY <1>2, <2>1, <3>2
      <4>2. Of(b, p, Sends)
        BY <1>2, <2>3 DEF s
      <4> HIDE DEF p
      <4>3. n * p \in Nat /\ n * (p + R) \in Nat /\ p + R \in Nat
        BY <1>0, <1>4, <4>1
      <4>4. Sends # n * (p + R)
        <5> SUFFICES ASSUME Sends = n * (p + R) PROVE FALSE
          OBVIOUS
        <5>1. (n * (p + R) + 0) \div n = p + R
          BY <1>0, <4>3, DivOf
        <5>2. (n * s + groupCounter) \div n = s
          BY <1>0, <2>6, DivOf
        <5> DEFINE big == n * (p + R)
        <5>3. big + 0 = n * s + groupCounter
          <6>1. Sends = big /\ big \in Nat /\ Sends = n * s + groupCounter
            BY <2>2, <4>3 DEF s
          <6> HIDE DEF big
          <6>2. big + 0 = big
            BY <6>1
          <6> QED
            BY ONLY <6>1, <6>2
        <5>5. s = p + R
          BY ONLY <5>1, <5>2, <5>3 DEF big
        <5>6. s = R + p
          BY <1>0, <4>1, <5>5
        <5>4. s % R = p % R
          BY <1>0, <4>1, <5>6, ModShift
        <5> QED
          BY <2>5, <3>2, <4>2, <5>4
      <4>5. Sends' <= n * (p + R)
        BY <1>0, <2>2, <4>2, <4>3, <4>4
      <4>6. p < R \/ n * p < Sends'
        BY <1>0, <2>2, <4>2, <4>3
      <4> QED
        BY <4>1, <4>2, <4>5, <4>6
    <3> QED
      BY <3>1, <3>2
  <2> QED
    BY <1>3, <2>8
<1>8. CASE DequeueResults
  BY <1>1, <1>8 DEF DequeueResults, RIODequeueCompletion, adapterVars, PayloadInv, Sends
<1>9. CASE Transmit
  <2>1. /\ onWire + 1 <= Len(requestQueue) /\ onWire' = onWire + 1 /\ Len(wire') = Len(wire) + 1
        /\ UNCHANGED <<requestQueue, sequenceNumber, payload>>
    BY <1>9, TransmitEffect
  <2>2. Sends' = Sends
    BY <1>0, <2>1 DEF Sends
  <2> QED
    BY <1>1, <2>1, <2>2 DEF PayloadInv
<1>10. CASE SendCompletes
  <2>1. /\ onWire > 0 /\ onWire' = onWire - 1 /\ Len(requestQueue') = Len(requestQueue) - 1
        /\ UNCHANGED <<wire, sequenceNumber, payload>>
    BY <1>10, CompletesEffect
  <2>2. Sends' = Sends
    BY <1>0, <2>1 DEF Sends
  <2> QED
    BY <1>1, <2>1, <2>2 DEF PayloadInv
<1>11. CASE Quiet
  <2>1. UNCHANGED <<requestQueue, onWire, wire, sequenceNumber, payload>>
    BY <1>11, QuietEffect
  <2> QED
    BY <1>1, <2>1 DEF PayloadInv, Sends
<1> QED
  BY <1>5, <1>6, <1>7, <1>8, <1>9, <1>10, <1>11, NextSplits

\* The round that a packet is read in: `own` is that of the send, p the number
\* that the packet holds.
LEMMA RoundRead ==
  ASSUME NEW n \in Nat \ {0}, NEW r \in Nat \ {0}, NEW w \in Nat, NEW s \in Nat, NEW p \in Nat,
         w < s, s <= w + r * n,
         p % r = (w \div n) % r, s <= n * (p + r), p < r \/ n * p < s
  PROVE  p = w \div n \/ (w % n # 0 /\ p = (w \div n) + r)
<1> DEFINE own == w \div n
<1>1. own \in Nat
  BY SMT
<1>2. n * (p + r) = n * p + r * n /\ n * (p - r) = n * p - r * n /\ n * p \in Nat /\ r * n \in Nat
  BY SMT
<1>3. own < p + r
  <2>1. w < n * (p + r) /\ p + r \in Int
    BY <1>2
  <2> QED
    BY <2>1, DivBelow
<1>4. p % r = own % r
  OBVIOUS
<1>6. p < r => p <= own
  <2>1. p < r => p % r = p
    BY ModSmall
  <2>2. own % r <= own
    BY <1>1, ModBelow
  <2> QED
    BY <1>4, <2>1, <2>2
<1>7. n * p < s => p - r <= own /\ (w % n = 0 => p - r < own)
  <2> SUFFICES ASSUME n * p < s PROVE p - r <= own /\ (w % n = 0 => p - r < own)
    OBVIOUS
  <2>1. n * (p - r) < w /\ p - r \in Int
    BY <1>2
  <2>2. p - r <= own
    <3>1. n * (p - r) <= w
      BY <1>2, <2>1
    <3> QED
      BY <2>1, <3>1, DivAbove
  <2>3. w % n = 0 => p - r < own
    BY <2>1, DivAboveMultiple
  <2> QED
    BY <2>2, <2>3
<1> HIDE DEF own
<1>8. ~(p < own)
  <2> SUFFICES ASSUME p < own PROVE FALSE
    OBVIOUS
  <2>1. own - p < r
    BY <1>1, <1>3
  <2> QED
    BY <1>1, <1>4, <2>1, ModDistinct
<1>9. ~(own < p /\ p - own < r)
  BY <1>1, <1>4, ModDistinct
<1>10. p = own \/ (w % n # 0 /\ p = own + r)
  <2>1. p <= own + r /\ (w % n = 0 => p < own + r)
    BY <1>1, <1>6, <1>7
  <2>2. p = own \/ own + r <= p
    BY <1>1, <1>8, <1>9
  <2> QED
    BY <1>1, <2>1, <2>2
<1> QED
  BY <1>10 DEF own

LEMMA WireNext ==
  CoreInv /\ RoundInv /\ DescInv /\ PayloadInv /\ WireSequence /\ [Next]_vars => WireSequence'
<1> SUFFICES ASSUME CoreInv, RoundInv, DescInv, PayloadInv, WireSequence, [Next]_vars
             PROVE  WireSequence'
  OBVIOUS
<1>0. /\ TypeOK /\ SendInv /\ numGroups \in Nat \ {0} /\ PacketRate \in Nat \ {0}
      /\ MaxOutstandingSend \in Nat \ {0} /\ posted \in Nat /\ Sends \in Nat
      /\ onWire \in Nat /\ Len(wire) \in Nat /\ Len(requestQueue) \in Nat
      /\ Len(completionQueue) \in Nat /\ Len(results) \in Nat
      /\ Len(requestQueue) + Len(completionQueue) + Len(results) = posted
  BY RoundTypes
<1>1. numGroups' = numGroups
  BY GroupsFixed
<1>2. CASE Transmit
  <2> DEFINE w == Len(wire)
             request == requestQueue[onWire + 1]
             b == PacketOf(request.desc)
             packet == [group |-> request.group, seq |-> payload[b]]
  <2>1. onWire + 1 \in 1 .. Len(requestQueue) /\ wire' = Append(wire, packet)
    BY <1>2, TransmitEffect
  <2>2. w < Sends /\ Sends <= w + PacketRate * numGroups
    <3>1. posted <= MaxOutstandingSend /\ MaxOutstandingSend = PacketRate * numGroups
      BY <1>0 DEF TypeOK, MaxOutstandingSend
    <3> QED
      BY <1>0, <2>1, <3>1 DEF Sends
  <2>3. request.desc = w % MaxOutstandingSend
    <3>1. request.desc = (Sends - Len(requestQueue) + (onWire + 1) - 1) % MaxOutstandingSend
      BY <2>1 DEF DescInv
    <3>2. Sends - Len(requestQueue) + (onWire + 1) - 1 = w
      BY <1>0 DEF Sends
    <3> QED
      BY <3>1, <3>2
  <2>4. b = (w \div numGroups) % PacketRate /\ b \in Packets
    <3>1. /\ (w % (PacketRate * numGroups)) \div numGroups = (w \div numGroups) % PacketRate
          /\ (w % (PacketRate * numGroups)) \div numGroups \in 0 .. PacketRate - 1
      BY <1>0, DivOfMod
    <3> QED
      BY <2>3, <3>1 DEF PacketOf, Packets, MaxOutstandingSend
  <2> HIDE DEF b
  <2> DEFINE p == payload[b]
  <2>5. /\ p \in Nat /\ p % PacketRate = b /\ Sends <= numGroups * (p + PacketRate)
        /\ p < PacketRate \/ numGroups * p < Sends
    <3>1. sequenceNumber > 0
      BY <1>0, <2>2, Numbered
    <3> QED
      BY <1>0, <2>4, <3>1 DEF PayloadInv, TypeOK
  <2>6. packet.seq = p
    OBVIOUS
  <2> HIDE DEF p, packet
  <2>7. p = w \div numGroups \/ (w % numGroups # 0 /\ p = (w \div numGroups) + PacketRate)
    <3>1. p % PacketRate = (w \div numGroups) % PacketRate
      BY <2>4, <2>5
    <3> HIDE DEF w
    <3>2. w \in Nat
      BY <1>0 DEF w
    <3> QED
      BY <1>0, <2>2, <2>5, <3>1, <3>2, RoundRead
  <2>8. wire \in Seq([group : GroupIndices, seq : Nat])
    BY <1>0 DEF TypeOK
  <2>9. /\ Len(wire') = w + 1 /\ wire'[w + 1] = packet
        /\ \A k \in 1 .. w : wire'[k] = wire[k]
    BY <2>1, <2>8
  <2>10. ASSUME NEW k \in 1 .. Len(wire')
         PROVE  LET own == (k - 1) \div numGroups
                IN  \/ wire'[k].seq = own
                    \/ ((k - 1) % numGroups # 0 /\ wire'[k].seq = own + PacketRate)
    <3>1. CASE k = w + 1
      <4>1. k - 1 = w
        BY <1>0, <3>1
      <4> QED
        BY <2>6, <2>7, <2>9, <3>1, <4>1
    <3>2. CASE k # w + 1
      <4>1. k \in 1 .. w
        BY <1>0, <2>9, <3>2
      <4> QED
        BY <2>9, <4>1 DEF WireSequence
    <3> QED
      BY <3>1, <3>2
  <2> QED
    BY <1>1, <2>10 DEF WireSequence
<1>3. CASE FillPackets \/ PostFirstSend \/ DequeueResults \/ ProcessResult
  <2>1. wire' = wire
    BY <1>3 DEF FillPackets, PostFirstSend, DequeueResults, ProcessResult, adapterVars
  <2> QED
    BY <1>1, <2>1 DEF WireSequence
<1>4. CASE SendCompletes
  BY <1>1, <1>4, CompletesEffect DEF WireSequence
<1>5. CASE Quiet
  BY <1>1, <1>5, QuietEffect DEF WireSequence
<1> QED
  BY <1>2, <1>3, <1>4, <1>5, NextSplits

-----------------------------------------------------------------------------
(* How a run ends *)

\* The tuner runs from the start of the loop on; whoever waits for it has left
\* the loop for a reason that it sees as well.  The socket is open until then.
EndInv ==
  /\ report = "none" <=> pc = "start"
  /\ pc = "join" => report = "exited" \/ ~ShouldStop
  /\ pc \in {"closeSocket", "release", "done"} => report = "exited"
  /\ pc \in {"release", "done"} <=> ~socketOpen
  /\ pc # "done" => buffersRegistered

\* Nobody waits for what will not come: the main thread joins a tuner that is
\* there and has left its loop or is about to, and sleeps without a timeout only
\* with an answer on the port or a send that the adapter can still complete
\* (RioProducer.cpp:116-154, RioSession.cpp:237-262).
WaitsAreAnswered ==
  /\ pc = "join" => report = "exited" \/ (report = "running" /\ ~ShouldStop)
  /\ pc = "wait" => iocp > 0 \/ (armed /\ socketOpen /\ requestQueue # <<>>)

\* The adapter reads no packet whose memory was given back (RioSession.cpp:150-155).
NoReadAfterRelease == ~buffersRegistered => ~socketOpen

\* A reason to end the loop, and how many steps of the main thread there are to
\* come at most when there is one.
Stopping == exitSignal \/ (pc # "start" /\ ~ShouldStop)
StepsLeft ==
  CASE pc = "start" -> 7 + MaxOutstandingSend
    [] pc = "post" -> 5 + (MaxOutstandingSend - posted) + (IF sequenceNumber = 0 THEN 1 ELSE 0)
    [] pc = "notify" -> 8 + MaxOutstandingSend
    [] pc = "wait" -> 7 + MaxOutstandingSend
    [] pc = "dequeue" -> 6 + MaxOutstandingSend
    [] pc = "process" -> 5 + Len(results)
    [] pc = "check" -> 4
    [] pc = "join" -> 3
    [] pc = "closeSocket" -> 2
    [] pc = "release" -> 1
    [] OTHER -> 0

\* The limit stops the loop before the counter of packets wraps around.
LimitInRange ==
  PktsToCount > 0 => \A n \in GroupCounts : PktsToCount + PacketRate * n <= TotalMod

\* A run that has a reason to end keeps one, and with every step the main thread
\* comes nearer to the end, whatever the others do in between.
StopIsFinal == [][Stopping => Stopping']_vars
StepsRunOut ==
  [][Stopping => StepsLeft' <= StepsLeft /\ (MainThread => StepsLeft' < StepsLeft)]_vars
StepsBounded == StepsLeft \in 0 .. MaxOutstandingSend + 8

LEMMA EndInit == Init => EndInv
  BY DEF Init, SessionInit, EndInv

LEMMA EndNext == EndInv /\ [Next]_vars => EndInv'
<1> SUFFICES ASSUME EndInv, [Next]_vars PROVE EndInv'
  OBVIOUS
<1> USE DEF EndInv
<1>1. ASSUME UNCHANGED <<report, socketOpen, buffersRegistered>>,
             pc \notin {"start", "join", "closeSocket", "release", "done"},
             pc' \notin {"start", "join", "closeSocket", "release", "done"}
      PROVE  EndInv'
  BY <1>1
<1>2. ASSUME UNCHANGED <<report, pc, socketOpen, buffersRegistered>>, ShouldStop' => ShouldStop
      PROVE  EndInv'
  BY <1>2
<1>3. CASE StartReport
  BY <1>3 DEF StartReport, resourceVars
<1>4. CASE JoinThread \/ CloseSocket \/ ReleaseBuffers
  BY <1>4 DEF JoinThread, CloseSocket, ReleaseBuffers, resourceVars
<1>5. CASE NotifyCompletionQueue \/ WaitForCompletion \/ EndBatch
  <2>1. UNCHANGED <<report, socketOpen, buffersRegistered>>
        /\ pc \in {"notify", "wait", "process"}
        /\ pc' \in {"wait", "notifyError", "dequeue", "check"}
    BY <1>5 DEF NotifyCompletionQueue, WaitForCompletion, EndBatch, resourceVars
  <2> QED
    BY <1>1, <2>1
<1>6. CASE DequeueResults \/ ProcessResult
  <2>1. UNCHANGED <<report, socketOpen, buffersRegistered>> /\ pc \in {"dequeue", "process"}
        /\ pc' \in {"dequeueError", "process", "requestError"}
    BY <1>6 DEF DequeueResults, ProcessResult, RIOSendEx, resourceVars
  <2> QED
    BY <1>1, <2>1
<1>7. CASE PostFirstSend
  <2>1. UNCHANGED <<report, socketOpen, buffersRegistered>> /\ pc = "post"
        /\ pc' \in {"post", "check", "requestError"}
    BY <1>7 DEF PostFirstSend, RIOSendEx, AfterFirstSend, resourceVars
  <2> QED
    BY <1>1, <2>1
<1>8. CASE CheckLoop
  <2>1. UNCHANGED <<report, socketOpen, buffersRegistered>> /\ UNCHANGED limitVars
        /\ pc = "check" /\ pc' = IF ShouldStop THEN "notify" ELSE "join"
    BY <1>8 DEF CheckLoop, resourceVars
  <2>2. ShouldStop' <=> ShouldStop
    BY <2>1 DEF limitVars, ShouldStop
  <2> QED
    BY <2>1, <2>2
<1>9. CASE FillPackets \/ Transmit \/ SendCompletes \/ UNCHANGED vars
  <2>1. UNCHANGED <<report, pc, socketOpen, buffersRegistered>> /\ UNCHANGED limitVars
    BY <1>9 DEF FillPackets, Transmit, SendCompletes, vars, sessionVars, resourceVars
  <2> QED
    BY <1>2, <2>1 DEF limitVars, ShouldStop
<1>10. CASE SpinThread
  BY <1>10 DEF SpinThread, ReportExits, resourceVars
<1>11. CASE HandlerRoutine \/ TimePasses
  BY <1>2, <1>11 DEF HandlerRoutine, TimePasses, ShouldStop, resourceVars
<1> QED
  BY <1>3, <1>4, <1>5, <1>6, <1>7, <1>8, <1>9, <1>10, <1>11
     DEF Next, MainThread, SessionStep, Adapter

\* A packet more is counted without a wrap-around, when there is a limit.
LEMMA CountedInRange ==
  ASSUME LimitInRange, CoreInv, LimitInv, PktsToCount > 0, PostFirstSend \/ ProcessResult
  PROVE  totalPkts \in Nat /\ totalPkts' = totalPkts + 1
<1>1. /\ totalPkts \in Nat /\ TotalMod \in Nat \ {0} /\ totalPkts' = (totalPkts + 1) % TotalMod
      /\ PktsToCount \in Nat /\ MaxOutstandingSend \in Nat /\ posted \in Nat
      /\ Len(results) \in Nat
  BY SessionAssumption, Lengths
     DEF CoreInv, TypeOK, SessionTypeOK, PostFirstSend, ProcessResult, CountSend,
         IncrementedTotal
<1>2. PktsToCount + MaxOutstandingSend <= TotalMod
  BY DEF LimitInRange, CoreInv, TypeOK, MaxOutstandingSend
<1>3. totalPkts + 1 < TotalMod
  <2>1. CASE PostFirstSend
    <3>1. pc = "post" /\ posted < MaxOutstandingSend
      BY <2>1, PostEffect
    <3>2. totalPkts <= posted
      BY <3>1 DEF LimitInv
    <3> QED
      BY <1>1, <1>2, <3>1, <3>2
  <2>2. CASE ProcessResult
    <3>1. pc = "process" /\ results # <<>>
      BY <2>2 DEF ProcessResult
    <3>2. Len(results) > 0
      BY <1>1, <3>1 DEF CoreInv, TypeOK
    <3>3. totalPkts + Len(results) < PktsToCount + MaxOutstandingSend
      BY <3>1 DEF LimitInv
    <3> QED
      BY <1>1, <1>2, <3>2, <3>3
  <2> QED
    BY <2>1, <2>2
<1>4. (totalPkts + 1) % TotalMod = totalPkts + 1
  BY <1>1, <1>3, ModSmall
<1> QED
  BY <1>1, <1>4

LEMMA StopStep ==
  ASSUME LimitInRange, CoreInv, LimitInv, EndInv, Stopping, [Next]_vars
  PROVE  Stopping'
<1>1. totalPkts \in Nat /\ PktsToCount \in Nat
  BY SessionAssumption DEF CoreInv, TypeOK, SessionTypeOK
<1>2. ASSUME exitSignal' = exitSignal, totalPkts' = totalPkts, timeUp => timeUp',
             pc' = "start" => pc = "start"
      PROVE  Stopping'
  BY <1>2 DEF Stopping, ShouldStop
<1>3. CASE StartReport
  BY <1>3 DEF StartReport, Stopping
<1>4. CASE NotifyCompletionQueue \/ JoinThread \/ CloseSocket \/ ReleaseBuffers
  BY <1>2, <1>4 DEF NotifyCompletionQueue, JoinThread, CloseSocket, ReleaseBuffers, limitVars
<1>5. CASE FillPackets \/ CheckLoop \/ WaitForCompletion \/ DequeueResults \/ EndBatch
  BY <1>2, <1>5 DEF FillPackets, CheckLoop, WaitForCompletion, DequeueResults, EndBatch,
                    limitVars, sessionVars
<1>6. CASE PostFirstSend \/ ProcessResult
  <2>1. exitSignal' = exitSignal /\ timeUp' = timeUp
        /\ pc \in {"post", "process"} /\ pc' # "start"
    BY <1>6, PostEffect, ProcessEffect DEF PostFirstSend, ProcessResult
  <2>2. CASE PktsToCount = 0
    BY <2>1, <2>2 DEF Stopping, ShouldStop
  <2>3. CASE PktsToCount > 0
    <3>1. totalPkts' = totalPkts + 1
      BY <1>6, <2>3, CountedInRange
    <3> QED
      BY <1>1, <2>1, <2>3, <3>1 DEF Stopping, ShouldStop
  <2> QED
    BY <1>1, <2>2, <2>3
<1>7. CASE Transmit \/ SendCompletes \/ SpinThread \/ TimePasses \/ UNCHANGED vars
  BY <1>2, <1>7 DEF Transmit, SendCompletes, SpinThread, ReportExits, TimePasses, limitVars,
                    vars, sessionVars
<1>8. CASE HandlerRoutine
  BY <1>8 DEF HandlerRoutine, Stopping
<1> QED
  BY <1>3, <1>4, <1>5, <1>6, <1>7, <1>8 DEF Next, MainThread, SessionStep, Adapter

LEMMA BatchFits ==
  CoreInv => /\ Len(results) \in Nat /\ Len(results) <= MaxOutstandingSend
             /\ posted \in 0 .. MaxOutstandingSend /\ MaxOutstandingSend \in Nat
<1> SUFFICES ASSUME CoreInv
             PROVE  /\ Len(results) \in Nat /\ Len(results) <= MaxOutstandingSend
                    /\ posted \in 0 .. MaxOutstandingSend /\ MaxOutstandingSend \in Nat
  OBVIOUS
<1>1. /\ Len(results) \in Nat /\ Len(requestQueue) \in Nat /\ Len(completionQueue) \in Nat
      /\ MaxOutstandingSend \in Nat /\ posted \in 0 .. MaxOutstandingSend
      /\ Len(requestQueue) + Len(completionQueue) + Len(results) = posted
  BY Lengths DEF CoreInv, TypeOK, SendInv, Outstanding
<1> QED
  BY <1>1

LEMMA StepsAreBounded == CoreInv => StepsBounded
<1> SUFFICES ASSUME CoreInv PROVE StepsBounded
  OBVIOUS
<1>1. pc = "post" => posted < MaxOutstandingSend
  BY DEF CoreInv, SendInv
<1>2. StepsLeft \in Nat /\ StepsLeft <= MaxOutstandingSend + 8
  <2>1. CASE pc \in {"start", "post"}
    BY <1>1, <2>1, BatchFits DEF StepsLeft
  <2>2. CASE pc \in {"notify", "wait", "dequeue", "process"}
    BY <2>2, BatchFits DEF StepsLeft
  <2>3. CASE pc \notin {"start", "post", "notify", "wait", "dequeue", "process"}
    <3>1. StepsLeft \in 0 .. 4
      BY <2>3 DEF StepsLeft
    <3> QED
      BY <3>1, BatchFits
  <2> QED
    BY <2>1, <2>2, <2>3
<1> QED
  BY <1>2 DEF StepsBounded

\* The main thread, when it has a reason to stop.
LEMMA StepsOfMain ==
  ASSUME CoreInv, Stopping, MainThread
  PROVE  StepsLeft' < StepsLeft
<1>1. /\ posted \in 0 .. MaxOutstandingSend /\ Len(results) \in Nat
      /\ MaxOutstandingSend \in Nat /\ MaxOutstandingSend' = MaxOutstandingSend
      /\ PacketRate \in Nat \ {0} /\ sequenceNumber \in Nat
  BY GroupsFixed, BatchFits, ProducerAssumption DEF Next, CoreInv, TypeOK
<1>2. CASE SessionStep /\ UNCHANGED producerVars
  <2>1. \/ pc = "start" /\ pc' = "post"
        \/ pc = "notify" /\ pc' \in {"wait", "notifyError"}
        \/ pc = "join" /\ pc' = "closeSocket"
        \/ pc = "closeSocket" /\ pc' = "release"
        \/ pc = "release" /\ pc' = "done"
    BY <1>2 DEF SessionStep, StartReport, NotifyCompletionQueue, JoinThread, CloseSocket,
                ReleaseBuffers
  <2>2. posted' = posted
    BY <1>2 DEF producerVars
  <2> QED
    BY <1>1, <2>1, <2>2 DEF StepsLeft
<1>3. CASE FillPackets
  <2>1. pc = "post" /\ pc' = "post" /\ posted' = posted /\ sequenceNumber = 0
        /\ sequenceNumber' = PacketRate
    BY <1>3 DEF FillPackets, sessionVars
  <2> QED
    BY <1>1, <2>1 DEF StepsLeft
<1>4. CASE PostFirstSend
  <2>1. /\ pc = "post" /\ posted < MaxOutstandingSend /\ posted' = posted + 1
        /\ sequenceNumber > 0 /\ sequenceNumber' = sequenceNumber
        /\ pc' = IF posted + 1 = MaxOutstandingSend THEN "check" ELSE "post"
    BY <1>4, PostEffect
  <2> QED
    BY <1>1, <2>1 DEF StepsLeft
<1>5. CASE CheckLoop
  <2>1. pc = "check" /\ (exitSignal \/ ~ShouldStop => pc' = "join")
    BY <1>5 DEF CheckLoop, ShouldStop
  <2> QED
    BY <2>1 DEF StepsLeft, Stopping
<1>6. CASE WaitForCompletion
  <2>1. pc = "wait" /\ pc' = "dequeue"
    BY <1>6 DEF WaitForCompletion
  <2> QED
    BY <1>1, <2>1 DEF StepsLeft
<1>7. CASE DequeueResults
  <2>1. pc = "dequeue" /\ pc' \in {"dequeueError", "process"}
    BY <1>7 DEF DequeueResults
  <2>2. Len(results') \in Nat /\ Len(results') <= MaxOutstandingSend
    <3>1. /\ results' = Dequeued(MaxOutstandingSend)
          /\ RIODequeueCompletion(MaxOutstandingSend)
      BY <1>7 DEF DequeueResults
    <3>2. MaxOutstandingSend \in Nat \ {0}
      BY Lengths DEF CoreInv
    <3> QED
      BY <3>1, <3>2, DequeueSplits DEF CoreInv, TypeOK
  <2> QED
    BY <1>1, <2>1, <2>2 DEF StepsLeft
<1>8. CASE ProcessResult
  <2>1. pc = "process" /\ pc' = "process" /\ results # <<>> /\ results' = Tail(results)
    BY <1>8, ProcessEffect
  <2>2. Len(results') = Len(results) - 1
    BY <2>1, HeadTailProperties DEF CoreInv, TypeOK
  <2> QED
    BY <1>1, <2>1, <2>2 DEF StepsLeft
<1>9. CASE EndBatch
  <2>1. pc = "process" /\ pc' = "check" /\ Len(results) = 0
    BY <1>9 DEF EndBatch
  <2> QED
    BY <2>1 DEF StepsLeft
<1> QED
  BY <1>2, <1>3, <1>4, <1>5, <1>6, <1>7, <1>8, <1>9 DEF MainThread

\* Nobody else takes the main thread back.
LEMMA StepsOfOthers ==
  ASSUME CoreInv, [Next]_vars, ~MainThread
  PROVE  StepsLeft' = StepsLeft
<1>1. MaxOutstandingSend' = MaxOutstandingSend
  BY GroupsFixed
<1>2. CASE SpinThread \/ ((HandlerRoutine \/ TimePasses) /\ UNCHANGED producerVars)
  <2>1. UNCHANGED <<pc, posted, results, sequenceNumber>>
    BY <1>2 DEF SpinThread, ReportExits, HandlerRoutine, TimePasses, producerVars, loopVars
  <2> QED
    BY <1>1, <2>1 DEF StepsLeft
<1>3. CASE Adapter
  <2>1. UNCHANGED <<pc, posted, results, sequenceNumber>>
    BY <1>3, TransmitEffect, CompletesEffect DEF Adapter
  <2> QED
    BY <1>1, <2>1 DEF StepsLeft
<1>4. CASE UNCHANGED vars
  <2>1. UNCHANGED <<pc, posted, results, sequenceNumber>>
    BY <1>4 DEF vars, sessionVars, producerVars, loopVars
  <2> QED
    BY <1>1, <2>1 DEF StepsLeft
<1> QED
  BY <1>2, <1>3, <1>4 DEF Next

-----------------------------------------------------------------------------
(* The theorems *)

LEMMA LayersInit == Init => WakeInv /\ LimitInv /\ RotationInv /\ OrderInv
<1> SUFFICES ASSUME Init PROVE WakeInv /\ LimitInv /\ RotationInv /\ OrderInv
  OBVIOUS
<1>1. /\ pc = "start" /\ armed = FALSE /\ iocp = 0 /\ totalPkts = 0 /\ posted = 0
      /\ groupCounter = 0 /\ sequenceNumber = 0 /\ batchIndex = 0
      /\ groupStats = [g \in GroupIndices |-> InitGroupStats]
  BY DEF Init, SessionInit, RioInit
<1>2. MaxOutstandingSend \in Nat \ {0} /\ numGroups \in Nat \ {0} /\ TotalMod \in Nat \ {0}
  BY CoreInit, Lengths, SessionAssumption DEF CoreInv
<1>3. 0 % numGroups = 0 /\ 0 % TotalMod = 0
  BY <1>2, SMT
<1>4. Ahead(0)
  <2>1. \A g \in GroupIndices : groupStats[g].Packets = 0 /\ g \in Nat
    BY <1>1, <1>2 DEF InitGroupStats, GroupIndices
  <2> QED
    BY <2>1 DEF Ahead
<1>5. WakeInv
  BY <1>1 DEF WakeInv, InfiniteWaitIsAnswered
<1>6. LimitInv
  BY <1>1, <1>2, SessionAssumption DEF LimitInv
<1>7. RotationInv
  BY <1>1, <1>3 DEF RotationInv, RotationExact
<1>8. OrderInv
  BY <1>1, <1>3, <1>4 DEF OrderInv
<1> QED
  BY <1>5, <1>6, <1>7, <1>8

(* The inductive core of the producer: types, and the sends.               *)
THEOREM CoreInvariance == Spec => []CoreInv
  BY CoreInit, CoreNext, PTL DEF Spec

(* Every variable keeps its type; in particular every descriptor and every *)
(* group is one that exists (RioProducer.cpp:58-155).                      *)
THEOREM TypeCorrect == Spec => []TypeOK
<1>1. CoreInv => TypeOK
  BY DEF CoreInv
<1> QED
  BY CoreInvariance, <1>1, PTL

(* RIOSendEx never finds the request queue full (RioProducer.cpp:83, :138). *)
THEOREM SendNeverRefused == Spec => []SendsConserved
<1>1. CoreInv => SendsConserved
  BY DEF CoreInv, SendInv, SendsConserved
<1> QED
  BY CoreInvariance, <1>1, PTL

(* The wait without a timeout has an answer to come, and the answer is     *)
(* about completions; neither RIONotify nor RIODequeueCompletion ends the  *)
(* process (RioProducer.cpp:117-128).                                      *)
THEOREM WaitAnswered == Spec => []InfiniteWaitIsAnswered
<1>1. Init => WakeInv
  BY LayersInit
<1>2. WakeInv => InfiniteWaitIsAnswered
  BY DEF WakeInv
<1> QED
  BY CoreInvariance, WakeNext, <1>1, <1>2, PTL DEF Spec

(* A run passes the packet limit by less than one batch                    *)
(* (RioProducer.cpp:116, RioSession.cpp:241).                              *)
THEOREM OvershootBound == Spec => []LimitOvershoot
<1>1. Init => LimitInv
  BY LayersInit
<1>2. LimitInv => LimitOvershoot
  BY DEF LimitInv, LimitOvershoot
<1> QED
  BY CoreInvariance, LimitNext, <1>1, <1>2, PTL DEF Spec

(* The sequence number and the group counter write the number of packets   *)
(* counted, however completions come in batches (RioProducer.cpp:144-147). *)
THEOREM RotationCounts == Spec => []RotationExact
<1>1. Init => RotationInv
  BY LayersInit
<1>2. RotationInv => RotationExact
  BY DEF RotationInv
<1> QED
  BY CoreInvariance, RotationNext, <1>1, <1>2, PTL DEF Spec

(* No group gets ahead of one before it (RioProducer.cpp:136).             *)
THEOREM GroupOrder == Spec => []EarlierGroupsNotBehind
<1>1. Init => OrderInv
  BY LayersInit
<1>2. CoreInv /\ OrderInv => EarlierGroupsNotBehind
  BY AheadRestart DEF CoreInv, OrderInv
<1> QED
  BY CoreInvariance, OrderNext, <1>1, <1>2, PTL DEF Spec
(* What was counted for a group is what went to it or waits to go to it    *)
(* (RioProducer.cpp:143-144, :206-215).                                    *)
THEOREM SendsAreAccounted == Spec => []SendsAccounted
<1>1. AccountInv => SendsAccounted
  BY DEF AccountInv
<1> QED
  BY CoreInvariance, AccountInit, AccountNext, <1>1, PTL DEF Spec

(* A send goes out with the number of its own round or, if groups share    *)
(* the packets, with that of the packet's next one (RioProducer.cpp:66-79, *)
(* :131-147).                                                              *)
THEOREM WireNumbers == Spec => []WireSequence
  BY CoreInvariance, RoundInit, RoundNext, DescNext, PayloadNext, WireNext, PTL DEF Spec

(* Neither thread waits for what will not come, although the main thread   *)
(* sleeps without a timeout and joins without one                          *)
(* (RioProducer.cpp:116-154, RioSession.cpp:237-262).                      *)
THEOREM NobodyWaitsForever == Spec => []WaitsAreAnswered
<1>1. Init => WakeInv
  BY LayersInit
<1>2. CoreInv /\ WakeInv /\ EndInv => WaitsAreAnswered
  <2> SUFFICES ASSUME CoreInv, WakeInv, EndInv PROVE WaitsAreAnswered
    OBVIOUS
  <2>1. pc = "join" => report = "exited" \/ (report = "running" /\ ~ShouldStop)
    BY DEF EndInv, CoreInv, TypeOK, SessionTypeOK
  <2>2. socketOpen \in BOOLEAN
    BY DEF CoreInv, TypeOK, SessionTypeOK
  <2>3. pc = "wait" => iocp > 0 \/ (armed /\ socketOpen /\ requestQueue # <<>>)
    BY <2>2 DEF EndInv, WakeInv, InfiniteWaitIsAnswered
  <2> QED
    BY <2>1, <2>3 DEF WaitsAreAnswered
<1> QED
  BY CoreInvariance, WakeNext, EndInit, EndNext, <1>1, <1>2, PTL DEF Spec

(* The packets in memory outlive the socket that sends them                *)
(* (RioSession.cpp:150-155).                                               *)
THEOREM PacketsOutliveSocket == Spec => []NoReadAfterRelease
<1>1. EndInv => NoReadAfterRelease
  BY DEF EndInv, NoReadAfterRelease
<1> QED
  BY EndInit, EndNext, <1>1, PTL DEF Spec

(* A limit that was reached is not forgotten, although the counter is a    *)
(* 32-bit one and the loop looks at it only between batches                *)
(* (RioProducer.cpp:116, RioSession.cpp:237-254).                          *)
THEOREM StopStays ==
  ASSUME LimitInRange
  PROVE  Spec => StopIsFinal
<1>1. CoreInv /\ LimitInv /\ EndInv /\ [Next]_vars => [Stopping => Stopping']_vars
  BY StopStep
<1>2. Init => LimitInv
  BY LayersInit
<1> QED
  BY CoreInvariance, LimitNext, EndInit, EndNext, <1>1, <1>2, PTL DEF Spec, StopIsFinal

(* After Ctrl-C, or once a limit is reached, the main thread is never      *)
(* further from the end than a batch and the steps around it, or the first *)
(* sends it has still to post; the completions that come meanwhile do not  *)
(* take it back (RioProducer.cpp:58-155).                                  *)
THEOREM StopIsQuick == Spec => StepsRunOut /\ []StepsBounded
<1>1. StepsBounded /\ StepsBounded' /\ CoreInv /\ [Next]_vars =>
        [Stopping => StepsLeft' <= StepsLeft /\ (MainThread => StepsLeft' < StepsLeft)]_vars
  <2> SUFFICES ASSUME StepsBounded, StepsBounded', CoreInv, Next, Stopping
               PROVE  StepsLeft' <= StepsLeft /\ (MainThread => StepsLeft' < StepsLeft)
    OBVIOUS
  <2>1. StepsLeft \in Nat /\ StepsLeft' \in Nat
    <3>1. MaxOutstandingSend \in Nat /\ MaxOutstandingSend' = MaxOutstandingSend
      BY BatchFits, GroupsFixed
    <3> QED
      BY <3>1 DEF StepsBounded
  <2>2. CASE MainThread
    <3>1. StepsLeft' < StepsLeft
      BY <2>2, StepsOfMain
    <3> QED
      BY <2>1, <3>1
  <2>3. CASE ~MainThread
    BY <2>1, <2>3, StepsOfOthers
  <2> QED
    BY <2>2, <2>3
<1> QED
  BY CoreInvariance, StepsAreBounded, <1>1, PTL DEF Spec, StepsRunOut
=============================================================================
