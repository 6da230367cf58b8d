------------------------- MODULE RioConsumerProofs --------------------------
(***************************************************************************)
(* Proofs about RioConsumer for every number of receives, batch size,      *)
(* packet limit and number of arrivals.                                    *)
(***************************************************************************)
EXTENDS RioConsumer, SharedLemmas

-----------------------------------------------------------------------------
(* Dequeuing *)

LEMMA DequeueSplits ==
  ASSUME NEW S, completionQueue \in Seq(S), NEW max \in Nat \ {0}, RIODequeueCompletion(max)
  PROVE  /\ Dequeued(max) \in Seq(S) /\ completionQueue' \in Seq(S)
         /\ Len(Dequeued(max)) + Len(completionQueue') = Len(completionQueue)
         /\ Len(Dequeued(max)) <= max
         /\ completionQueue # <<>> => Len(Dequeued(max)) > 0
         /\ completionQueue = <<>> => Dequeued(max) = <<>> /\ completionQueue' = <<>>
<1>1. Dequeued(max) \in Seq(S) /\ completionQueue' \in Seq(S)
  BY BatchCut DEF Dequeued, RIODequeueCompletion
<1>2. Len(completionQueue') = Len(completionQueue) - Len(Dequeued(max))
  <2> DEFINE k == Len(Dequeued(max))
  <2>1. k \in 0 .. Len(completionQueue)
    BY BatchCut DEF Dequeued, RIODequeueCompletion
  <2>2. completionQueue' = SubSeq(completionQueue, k + 1, Len(completionQueue))
    BY DEF RIODequeueCompletion
  <2> HIDE DEF k
  <2> QED
    BY <2>1, <2>2, QueueCut DEF k
<1>3. Len(Dequeued(max)) <= max
  BY BatchCut DEF Dequeued, RIODequeueCompletion
<1>4. completionQueue # <<>> => Len(Dequeued(max)) > 0
  BY BatchCut DEF Dequeued, RIODequeueCompletion
<1>5. completionQueue = <<>> => Dequeued(max) = <<>> /\ completionQueue' = <<>>
  BY BatchCut DEF Dequeued, RIODequeueCompletion
<1> QED
  BY <1>1, <1>2, <1>3, <1>4, <1>5

\* Dequeuing moves completions, and keeps their order.
LEMMA DequeueKeeps ==
  ASSUME NEW S, completionQueue \in Seq(S), NEW max \in Nat \ {0}, RIODequeueCompletion(max)
  PROVE  \A i \in 1 .. Len(completionQueue) :
           completionQueue[i] = IF i <= Len(Dequeued(max)) THEN Dequeued(max)[i]
                                ELSE completionQueue'[i - Len(Dequeued(max))]
  BY BatchCut DEF Dequeued, RIODequeueCompletion

-----------------------------------------------------------------------------
(* The inductive invariants.  Each layer is proved with the ones before it. *)

\* The receives: what ReceivesConserved says, and that the first ones are being
\* posted until N are; a batch is only in hand while it is processed.
ReceiveInv ==
  /\ Outstanding + Len(results) + otherPacketCounter = posted
  /\ pc = "start" => posted = 0
  /\ pc = "post" => posted < N
  /\ pc # "process" => results = <<>>
  /\ pc # "requestError"

\* The notifications: a loop that goes back to sleep without asking for a
\* notification has one pending, or completions that one on the port stands for.
WakeInv ==
  /\ pc \in {"start", "post"} => shouldNotify
  /\ pc \in {"check", "wait"} /\ ~shouldNotify =>
       armed \/ (iocp > 0 /\ completionQueue # <<>>)
  /\ pc = "dequeue" /\ ~shouldNotify => armed \/ completionQueue # <<>>
  /\ pc = "wait" /\ shouldNotify => armed \/ iocp > 0

\* Only a sleeping loop may have a second notification.
NotificationInv ==
  /\ NotificationsBounded
  /\ pc # "wait" => (IF armed THEN 1 ELSE 0) + iocp <= 1
  /\ pc \in {"start", "post"} => ~armed /\ iocp = 0

\* The limit was not reached when the batch in hand was taken.
LimitInv ==
  PktsToCount > 0 =>
    /\ totalPkts < PktsToCount + MaxRioResults
    /\ pc \in {"notify", "wait", "dequeue"} => totalPkts < PktsToCount
    /\ pc = "process" => totalPkts + Len(results) < PktsToCount + MaxRioResults
    /\ pc \in {"start", "post"} => totalPkts = 0

\* The order of the clean-up.
ReleaseInv ==
  /\ pc \in {"release", "done"} => ~socketOpen
  /\ pc # "done" => buffersRegistered

\* Where the datagrams are, and the slot index as a number of datagrams.
CountInv ==
  /\ packetCounter + otherPacketCounter + Len(results) + Len(completionQueue) = Len(arrived)
  /\ Len(arrived) <= MaxArrivals
  /\ mcAddrDescrIndex = packetCounter % IndexMod
  /\ pc \in {"start", "post"} => packetCounter = 0
  /\ pc \notin {"start", "post"} => posted = N

\* The counters of the loop, of the session and of the groups.
PacketCounts == [g \in DOMAIN groupStats |-> groupStats[g].Packets]
TotalsInv ==
  /\ IsFiniteSet(DOMAIN groupStats)
  /\ packetCounter = SumFunction(PacketCounts)
  /\ totalPkts = (packetCounter + otherPacketCounter) % TotalMod

\* The slots go round: the receives that wait for a datagram have the next ones,
\* and the last ones hold the destinations of the datagrams not counted yet.
SlotOrder ==
  \A i \in 1 .. Len(requestQueue) : requestQueue[i].slot = (Len(arrived) + i - 1) % N
RingInv ==
  \A k \in packetCounter .. Len(arrived) - 1 : mcAddr[k % N] = arrived[k + 1]
SlotInv == SlotOrder /\ RingInv

\* The data buffers in flight: first those of the results in hand, then those of
\* the completions, then those of the receives that wait.
InFlight == Len(results) + Outstanding
Bufs ==
  [k \in 1 .. InFlight |->
     IF k <= Len(results) THEN results[k].buf
     ELSE IF k <= Len(results) + Len(completionQueue) THEN completionQueue[k - Len(results)].buf
     ELSE requestQueue[k - Len(results) - Len(completionQueue)].buf]

\* They all differ, and the buffers that are not posted yet are none of them.
BufInv ==
  /\ \A j, k \in 1 .. InFlight : j < k => Bufs[j] # Bufs[k]
  /\ pc \in {"start", "post"} => \A k \in 1 .. InFlight : Bufs[k] < posted

\* The index comes round together with the slots, or not at all.
SlotsInStep == MaxArrivals < IndexMod \/ IndexMod % N = 0

-----------------------------------------------------------------------------
(* Types and receives *)

CoreInv == TypeOK /\ ReceiveInv

LEMMA CoreInit == Init => CoreInv
<1> SUFFICES ASSUME Init PROVE CoreInv
  OBVIOUS
<1> USE ConsumerAssumption, SessionAssumption, SeqModAssumption
<1>1. InitGroupStats \in GroupStatsType
  BY DEF InitGroupStats, GroupStatsType
<1>2. SessionTypeOK
  <2>1. /\ armed = FALSE /\ iocp = 0 /\ exitSignal = FALSE /\ totalPkts = 0 /\ timeUp = FALSE
        /\ groupStats = [g \in Groups |-> InitGroupStats]
        /\ pc = "start" /\ report = "none" /\ socketOpen = TRUE /\ buffersRegistered = TRUE
    BY DEF Init, SessionInit, RioInit
  <2>2. \A g \in DOMAIN groupStats : groupStats[g] \in GroupStatsType
    BY <1>1, <2>1
  <2>3. totalPkts \in 0 .. TotalMod - 1
    BY <2>1
  <2> QED
    BY <2>1, <2>2, <2>3 DEF SessionTypeOK
<1>3. TypeOK
  BY <1>2 DEF Init, SessionInit, RioInit, TypeOK, Cells, Destinations
<1>4. ReceiveInv
  BY DEF Init, SessionInit, RioInit, ReceiveInv, Outstanding
<1> QED
  BY <1>3, <1>4 DEF CoreInv

\* The numbers that the conservation of receives is about.
LEMMA Lengths ==
  ASSUME TypeOK
  PROVE  /\ Len(requestQueue) \in Nat /\ Len(completionQueue) \in Nat /\ Len(results) \in Nat
         /\ posted \in Nat /\ otherPacketCounter \in Nat /\ N \in Nat \ {0}
  BY ConsumerAssumption DEF TypeOK

LEMMA CoreSession ==
  ASSUME CoreInv, SessionStep, UNCHANGED consumerVars
  PROVE  CoreInv'
<1>1. /\ requestQueue' = requestQueue /\ completionQueue' = completionQueue
      /\ groupStats' = groupStats
      /\ UNCHANGED <<posted, shouldNotify, results, mcAddrDescrIndex, packetCounter,
                     otherPacketCounter, payload, mcAddr, arrived>>
  BY DEF SessionStep, StartReport, NotifyCompletionQueue, JoinThread, CloseSocket,
         ReleaseBuffers, RIONotify, rioVars, consumerVars, countVars, memoryVars
<1>2. /\ SessionTypeOK'
      /\ pc' = "post" => pc = "start"
      /\ pc' \notin {"start", "process", "requestError"} /\ pc # "process"
  <2> USE DEF SessionTypeOK, rioVars, limitVars, resourceVars
  <2>0. SessionTypeOK
    BY DEF CoreInv, TypeOK
  <2>1. CASE StartReport
    BY <2>0, <2>1 DEF StartReport
  <2>2. CASE NotifyCompletionQueue
    <3>1. /\ pc = "notify" /\ pc' \in {"wait", "notifyError"}
          /\ UNCHANGED <<exitSignal, totalPkts, timeUp, groupStats, report, socketOpen,
                         buffersRegistered>>
      BY <2>2 DEF NotifyCompletionQueue
    <3>2. armed' \in BOOLEAN
      BY <2>0, <2>2, Zenon DEF NotifyCompletionQueue, RIONotify
    <3>3. iocp' \in Nat
      BY <2>0, <2>2 DEF NotifyCompletionQueue, RIONotify
    <3> QED
      BY <2>0, <3>1, <3>2, <3>3
  <2>3. CASE JoinThread
    BY <2>0, <2>3 DEF JoinThread
  <2>4. CASE CloseSocket
    BY <2>0, <2>4 DEF CloseSocket
  <2>5. CASE ReleaseBuffers
    BY <2>0, <2>5 DEF ReleaseBuffers
  <2> QED
    BY <2>1, <2>2, <2>3, <2>4, <2>5 DEF SessionStep
<1>3. TypeOK'
  BY <1>1, <1>2 DEF CoreInv, TypeOK
<1>4. ReceiveInv'
  BY <1>1, <1>2, ConsumerAssumption DEF CoreInv, ReceiveInv, Outstanding
<1> QED
  BY <1>3, <1>4 DEF CoreInv

LEMMA CorePost ==
  ASSUME CoreInv, PostFirstRecv
  PROVE  CoreInv'
<1> USE ConsumerAssumption
<1>1. TypeOK /\ ReceiveInv /\ pc = "post"
  BY DEF CoreInv, PostFirstRecv
<1>2. posted \in Nat /\ posted < N /\ results = <<>> /\ Outstanding + otherPacketCounter = posted
  BY <1>1, Lengths DEF ReceiveInv, Outstanding
<1>3. Outstanding < N
  BY <1>1, <1>2, Lengths DEF Outstanding
<1>4. /\ requestQueue' = Append(requestQueue, [buf |-> posted, slot |-> posted])
      /\ UNCHANGED <<completionQueue, armed, iocp>>
      /\ pc' = IF posted + 1 = N THEN "check" ELSE "post"
      /\ posted' = posted + 1
      /\ UNCHANGED <<exitSignal, totalPkts, timeUp, groupStats, report, socketOpen,
                     buffersRegistered, shouldNotify, results, mcAddrDescrIndex, packetCounter,
                     otherPacketCounter, payload, mcAddr, arrived>>
  BY <1>3 DEF PostFirstRecv, RIOReceiveEx, PostRequest, AfterFirstRecv, limitVars, resourceVars,
              countVars, memoryVars
<1>5. [buf |-> posted, slot |-> posted] \in [buf : Cells, slot : Cells]
  BY <1>2 DEF Cells
<1>6. /\ requestQueue' \in Seq([buf : Cells, slot : Cells])
      /\ Len(requestQueue') = Len(requestQueue) + 1
  BY <1>1, <1>4, <1>5, AppendProperties DEF TypeOK
<1>7. SessionTypeOK'
  BY <1>1, <1>4 DEF TypeOK, SessionTypeOK
<1>8. TypeOK'
  BY <1>1, <1>2, <1>4, <1>6, <1>7 DEF TypeOK
<1>9. ReceiveInv'
  BY <1>1, <1>2, <1>4, <1>6, Lengths DEF ReceiveInv, Outstanding
<1> QED
  BY <1>8, <1>9 DEF CoreInv

\* The steps of the loop that take or return nothing.
LEMMA CoreLoop ==
  ASSUME CoreInv, CheckLoop \/ WaitForCompletion \/ EndBatch
  PROVE  CoreInv'
<1>1. /\ UNCHANGED <<requestQueue, completionQueue, groupStats, posted, results,
                     mcAddrDescrIndex, packetCounter, otherPacketCounter, payload, mcAddr,
                     arrived>>
      /\ shouldNotify' \in BOOLEAN
      /\ pc' \notin {"start", "post", "process", "requestError"}
      /\ pc = "process" => results = <<>>
  BY DEF CoreInv, TypeOK, CheckLoop, WaitForCompletion, EndBatch, TakeNotification, rioVars,
         consumerVars, countVars, memoryVars
<1>2. SessionTypeOK'
  BY DEF CoreInv, TypeOK, SessionTypeOK, CheckLoop, WaitForCompletion, EndBatch,
         TakeNotification, rioVars, limitVars, resourceVars
<1>3. TypeOK'
  BY <1>1, <1>2 DEF CoreInv, TypeOK
<1>4. ReceiveInv'
  BY <1>1 DEF CoreInv, ReceiveInv, Outstanding
<1> QED
  BY <1>3, <1>4 DEF CoreInv

LEMMA CoreDequeue ==
  ASSUME CoreInv, DequeueResults
  PROVE  CoreInv'
<1>1. TypeOK /\ ReceiveInv /\ pc = "dequeue" /\ results = <<>>
  BY DEF CoreInv, ReceiveInv, DequeueResults
<1>2. /\ results' = Dequeued(MaxRioResults) /\ RIODequeueCompletion(MaxRioResults)
      /\ UNCHANGED <<requestQueue, armed, iocp>>
      /\ IF completionQueue = <<>>
           THEN pc' = "check" /\ timeUp' = timeUp
           ELSE pc' = "process" /\ timeUp' = IF totalPkts = 0 THEN FALSE ELSE timeUp
      /\ UNCHANGED <<exitSignal, totalPkts, groupStats, report, socketOpen, buffersRegistered,
                     posted, shouldNotify, mcAddrDescrIndex, packetCounter,
                     otherPacketCounter, payload, mcAddr, arrived>>
  BY DEF DequeueResults, ClockAtResults, RIODequeueCompletion, resourceVars, countVars, memoryVars
<1>3. /\ results' \in Seq(Completion) /\ completionQueue' \in Seq(Completion)
      /\ Len(results') + Len(completionQueue') = Len(completionQueue)
      /\ completionQueue = <<>> => results' = <<>>
  BY <1>1, <1>2, DequeueSplits, ConsumerAssumption DEF TypeOK
<1>4. SessionTypeOK'
  BY <1>1, <1>2 DEF TypeOK, SessionTypeOK
<1>5. TypeOK'
  BY <1>1, <1>2, <1>3, <1>4 DEF TypeOK
<1>6. Len(results) = 0 /\ Len(results') \in Nat /\ Len(completionQueue') \in Nat
  BY <1>1, <1>3
<1>7. (Outstanding + Len(results) + otherPacketCounter = posted)'
  BY <1>1, <1>2, <1>3, <1>6, Lengths DEF ReceiveInv, Outstanding
<1>8. ReceiveInv'
  BY <1>2, <1>3, <1>7 DEF ReceiveInv
<1> QED
  BY <1>5, <1>8 DEF CoreInv

\* A counted datagram: its statistics, and the receive that is posted again.
LEMMA CoreProcessExpected ==
  ASSUME CoreInv, ProcessExpected
  PROVE  CoreInv'
<1> USE ConsumerAssumption
<1> DEFINE buf == Head(results).buf
           g == mcAddr[NextAddr]
           u == ConsumerStatsUpdate(StatsOf(g), payload[buf])
<1>1. TypeOK /\ ReceiveInv /\ pc = "process" /\ results # <<>>
  BY DEF CoreInv, ProcessExpected
<1>2. NextAddr \in Cells
  <2>1. mcAddrDescrIndex \in Nat
    BY <1>1 DEF TypeOK
  <2> QED
    BY <2>1, ModRange DEF NextAddr, Cells
<1>3. /\ Head(results) \in Completion /\ results' = Tail(results)
      /\ results' \in Seq(Completion) /\ Len(results') = Len(results) - 1 /\ Len(results) > 0
  BY <1>1, HeadTailProperties DEF TypeOK, ProcessExpected
<1>4. buf \in Cells /\ payload[buf] \in Nat /\ g \in Destinations \cup {NoAddress}
  BY <1>1, <1>2, <1>3 DEF TypeOK, Completion
<1>5. u \in GroupStatsType
  <2>1. StatsOf(g) \in GroupStatsType
    BY <1>1 DEF TypeOK, SessionTypeOK, StatsOf, InitGroupStats, GroupStatsType
  <2> QED
    BY <1>4, <2>1, UpdateType
<1>6. groupStats' = [h \in DOMAIN groupStats \cup {g} |-> IF h = g THEN u ELSE groupStats[h]]
  BY DEF ProcessExpected, SetStats
<1>7. Outstanding < N
  BY <1>1, <1>3, Lengths DEF ReceiveInv, Outstanding, TypeOK
<1>8. /\ requestQueue' = Append(requestQueue, [buf |-> buf, slot |-> NextAddr])
      /\ UNCHANGED <<completionQueue, armed, iocp>> /\ pc' = "process"
  BY <1>7 DEF ProcessExpected, RIOReceiveEx, PostRequest
<1>9. /\ requestQueue' \in Seq([buf : Cells, slot : Cells])
      /\ Len(requestQueue') = Len(requestQueue) + 1
  <2>1. [buf |-> buf, slot |-> NextAddr] \in [buf : Cells, slot : Cells]
    BY <1>2, <1>4
  <2> QED
    BY <1>1, <1>8, <2>1, AppendProperties DEF TypeOK
<1>10. /\ totalPkts' \in 0 .. TotalMod - 1 /\ packetCounter' \in Nat
       /\ mcAddrDescrIndex' \in 0 .. IndexMod - 1
  <2>1. totalPkts \in Nat /\ mcAddrDescrIndex \in Nat /\ packetCounter \in Nat
    BY <1>1, SessionAssumption DEF TypeOK, SessionTypeOK
  <2>2. totalPkts + 1 \in Nat /\ mcAddrDescrIndex + 1 \in Nat /\ TotalMod \in Nat \ {0}
    BY <2>1, SessionAssumption
  <2> QED
    BY <2>1, <2>2, ModRange DEF ProcessExpected, IncrementedTotal, AdvancedIndex
<1>11. UNCHANGED <<exitSignal, timeUp, report, socketOpen, buffersRegistered, posted,
                   shouldNotify, otherPacketCounter, payload, mcAddr, arrived>>
  BY DEF ProcessExpected, resourceVars, memoryVars
<1>12. SessionTypeOK'
  <2>1. \A h \in DOMAIN groupStats' : groupStats'[h] \in GroupStatsType
    BY <1>1, <1>5, <1>6 DEF TypeOK, SessionTypeOK
  <2> QED
    BY <1>1, <1>8, <1>10, <1>11, <2>1 DEF TypeOK, SessionTypeOK
<1>13. DOMAIN groupStats' \subseteq Destinations \cup {NoAddress}
  BY <1>1, <1>4, <1>6 DEF TypeOK
<1>14. TypeOK'
  BY <1>1, <1>3, <1>8, <1>9, <1>10, <1>11, <1>12, <1>13 DEF TypeOK
<1>15. ReceiveInv'
  BY <1>1, <1>3, <1>8, <1>9, <1>11, Lengths DEF ReceiveInv, Outstanding
<1> QED
  BY <1>14, <1>15 DEF CoreInv

LEMMA CoreProcessOther ==
  ASSUME CoreInv, ProcessOther
  PROVE  CoreInv'
<1>1. TypeOK /\ ReceiveInv /\ pc = "process" /\ results # <<>>
  BY DEF CoreInv, ProcessOther
<1>2. /\ results' \in Seq(Completion) /\ Len(results') = Len(results) - 1
  BY <1>1, HeadTailProperties DEF TypeOK, ProcessOther
<1>3. /\ UNCHANGED <<requestQueue, completionQueue, armed, iocp, exitSignal, timeUp, groupStats,
                     pc, report, socketOpen, buffersRegistered, posted, shouldNotify,
                     mcAddrDescrIndex, packetCounter, payload, mcAddr, arrived>>
      /\ otherPacketCounter' = otherPacketCounter + 1
  BY DEF ProcessOther, rioVars, resourceVars, memoryVars
<1>4. totalPkts' \in 0 .. TotalMod - 1
  <2>1. totalPkts + 1 \in Nat /\ TotalMod \in Nat \ {0}
    BY <1>1, SessionAssumption DEF TypeOK, SessionTypeOK
  <2> QED
    BY <2>1, ModRange DEF ProcessOther, IncrementedTotal
<1>5. SessionTypeOK'
  BY <1>1, <1>3, <1>4 DEF TypeOK, SessionTypeOK
<1>6. TypeOK'
  BY <1>1, <1>2, <1>3, <1>5 DEF TypeOK
<1>7. ReceiveInv'
  BY <1>1, <1>2, <1>3, Lengths DEF ReceiveInv, Outstanding
<1> QED
  BY <1>6, <1>7 DEF CoreInv

\* The arrival of a datagram moves a receive from one queue to the other.
LEMMA CoreArrive ==
  ASSUME CoreInv, NEW g \in Destinations, NEW seq \in Seqs, NEW expected \in BOOLEAN,
         Arrive(g, seq, expected)
  PROVE  CoreInv'
<1> USE ConsumerAssumption
<1> DEFINE request == Head(requestQueue)
           completion == [buf |-> request.buf, expected |-> expected]
<1>1. TypeOK /\ ReceiveInv /\ requestQueue # <<>>
  BY DEF CoreInv, Arrive, CompleteRequest
<1>2. /\ request \in [buf : Cells, slot : Cells] /\ requestQueue' = Tail(requestQueue)
      /\ requestQueue' \in Seq([buf : Cells, slot : Cells])
      /\ Len(requestQueue') = Len(requestQueue) - 1
  BY <1>1, HeadTailProperties DEF TypeOK, Arrive, CompleteRequest
<1>3. completion \in Completion
  BY <1>2 DEF Completion
<1>4. /\ completionQueue' = Append(completionQueue, completion)
      /\ completionQueue' \in Seq(Completion)
      /\ Len(completionQueue') = Len(completionQueue) + 1
  <2>1. completionQueue' = Append(completionQueue, completion)
    BY DEF Arrive, CompleteRequest
  <2> HIDE DEF completion
  <2> QED
    BY <1>1, <1>3, <2>1, AppendProperties DEF TypeOK
<1>5. armed' = FALSE /\ iocp' \in Nat
  BY <1>1 DEF TypeOK, SessionTypeOK, Arrive, CompleteRequest
<1>6. /\ payload' \in [Cells -> Nat] /\ mcAddr' \in [Cells -> Destinations \cup {NoAddress}]
      /\ arrived' \in Seq(Destinations)
  <2>1. seq \in Nat
    BY SeqModAssumption
  <2>2. /\ payload' = [payload EXCEPT ![request.buf] = seq]
        /\ mcAddr' = [mcAddr EXCEPT ![request.slot] = g]
        /\ arrived' = Append(arrived, g)
    BY DEF Arrive
  <2> QED
    BY <1>1, <2>1, <2>2, AppendProperties DEF TypeOK
<1>7. UNCHANGED <<exitSignal, totalPkts, timeUp, groupStats, pc, report, socketOpen,
                  buffersRegistered, posted, shouldNotify, results, mcAddrDescrIndex,
                  packetCounter, otherPacketCounter>>
  BY DEF Arrive, limitVars, resourceVars, countVars
<1>8. SessionTypeOK'
  BY <1>1, <1>5, <1>7 DEF TypeOK, SessionTypeOK
<1>9. TypeOK'
  BY <1>1, <1>2, <1>4, <1>6, <1>7, <1>8 DEF TypeOK
<1>10. ReceiveInv'
  BY <1>1, <1>2, <1>4, <1>7, Lengths DEF ReceiveInv, Outstanding
<1> QED
  BY <1>9, <1>10 DEF CoreInv

\* The report thread, Ctrl-C and the clock touch neither queue nor counter.
LEMMA CoreOthers ==
  ASSUME CoreInv, (ReportExits \/ HandlerRoutine \/ TimePasses) /\ UNCHANGED consumerVars
  PROVE  CoreInv'
<1>1. /\ UNCHANGED <<requestQueue, completionQueue, armed, iocp, totalPkts, groupStats, pc,
                     socketOpen, buffersRegistered, posted, shouldNotify, results,
                     mcAddrDescrIndex, packetCounter, otherPacketCounter, payload, mcAddr,
                     arrived>>
      /\ exitSignal' \in BOOLEAN /\ timeUp' \in BOOLEAN
      /\ report' \in {"none", "running", "exited"}
  BY DEF CoreInv, TypeOK, SessionTypeOK, ReportExits, HandlerRoutine, TimePasses, rioVars,
         limitVars, resourceVars, consumerVars, countVars, memoryVars
<1>2. SessionTypeOK'
  BY <1>1 DEF CoreInv, TypeOK, SessionTypeOK
<1>3. TypeOK'
  BY <1>1, <1>2 DEF CoreInv, TypeOK
<1>4. ReceiveInv'
  BY <1>1 DEF CoreInv, ReceiveInv, Outstanding
<1> QED
  BY <1>3, <1>4 DEF CoreInv

LEMMA CoreStutter ==
  ASSUME CoreInv, UNCHANGED vars
  PROVE  CoreInv'
  BY DEF CoreInv, TypeOK, SessionTypeOK, ReceiveInv, Outstanding, vars, sessionVars, rioVars,
         limitVars, resourceVars, consumerVars, countVars, memoryVars

LEMMA CoreNext == CoreInv /\ [Next]_vars => CoreInv'
<1> SUFFICES ASSUME CoreInv, [Next]_vars PROVE CoreInv'
  OBVIOUS
<1>1. CASE MainThread
  BY <1>1, CoreSession, CorePost, CoreLoop, CoreDequeue, CoreProcessExpected, CoreProcessOther
     DEF MainThread
<1>2. CASE ReportThread
  BY <1>2, CoreOthers DEF ReportThread
<1>3. ASSUME NEW g \in Destinations, NEW seq \in Seqs, NEW expected \in BOOLEAN,
             Arrive(g, seq, expected)
      PROVE  CoreInv'
  BY <1>3, CoreArrive
<1>4. CASE (HandlerRoutine \/ TimePasses) /\ UNCHANGED consumerVars
  BY <1>4, CoreOthers
<1>5. CASE UNCHANGED vars
  BY <1>5, CoreStutter
<1> QED
  BY <1>1, <1>2, <1>3, <1>4, <1>5 DEF Next

-----------------------------------------------------------------------------
(* Notifications *)

LEMMA EmptyOrNot ==
  ASSUME TypeOK
  PROVE  /\ iocp \in Nat /\ armed \in BOOLEAN /\ shouldNotify \in BOOLEAN
         /\ completionQueue = <<>> <=> Len(completionQueue) = 0
  BY DEF TypeOK, SessionTypeOK

LEMMA WakeNext == CoreInv /\ WakeInv /\ NotificationInv /\ [Next]_vars
                    => WakeInv' /\ NotificationInv'
<1> SUFFICES ASSUME CoreInv, WakeInv, NotificationInv, [Next]_vars
             PROVE  WakeInv' /\ NotificationInv'
  OBVIOUS
<1> USE DEF WakeInv, NotificationInv, NotificationsBounded
<1>0. TypeOK /\ iocp \in Nat /\ armed \in BOOLEAN /\ shouldNotify \in BOOLEAN
  BY EmptyOrNot DEF CoreInv
<1>1. ASSUME UNCHANGED <<completionQueue, armed, iocp, shouldNotify>>,
             \/ pc' = pc
             \/ pc = "start" /\ pc' = "post"
             \/ pc = "post" /\ pc' = "check"
             \/ pc' \notin {"start", "post", "check", "wait", "dequeue"} /\ pc # "wait"
             \/ pc = "check" /\ pc' = "wait" /\ ~shouldNotify
      PROVE  WakeInv' /\ NotificationInv'
  BY <1>0, <1>1
<1>2. CASE StartReport /\ UNCHANGED consumerVars
  BY <1>1, <1>2 DEF StartReport, rioVars, consumerVars
<1>3. CASE NotifyCompletionQueue /\ UNCHANGED consumerVars
  <2>1. shouldNotify' = shouldNotify /\ pc = "notify" /\ completionQueue' = completionQueue
    BY <1>3 DEF NotifyCompletionQueue, RIONotify, rioVars, consumerVars
  <2>2. CASE RIONotify /\ pc' = "wait"
    <3>1. \/ armed' = TRUE /\ iocp' = iocp /\ ~armed
          \/ armed' = armed /\ iocp' = iocp + 1 /\ completionQueue # <<>> /\ ~armed
      BY <2>2 DEF RIONotify
    <3> QED
      BY <1>0, <2>1, <2>2, <3>1
  <2>3. CASE armed /\ pc' = "notifyError" /\ UNCHANGED rioVars
    BY <1>0, <1>1, <2>1, <2>3 DEF rioVars
  <2> QED
    BY <1>3, <2>2, <2>3 DEF NotifyCompletionQueue
<1>4. CASE (JoinThread \/ CloseSocket \/ ReleaseBuffers) /\ UNCHANGED consumerVars
  BY <1>1, <1>4 DEF JoinThread, CloseSocket, ReleaseBuffers, rioVars, consumerVars
<1>5. CASE PostFirstRecv
  <2>1. /\ UNCHANGED <<completionQueue, armed, iocp, shouldNotify>>
        /\ pc = "post" /\ pc' \in {"post", "check", "requestError"}
    BY <1>5 DEF PostFirstRecv, RIOReceiveEx, PostRequest, AfterFirstRecv, rioVars
  <2> QED
    BY <1>1, <2>1
<1>6. CASE CheckLoop
  <2>1. /\ UNCHANGED <<completionQueue, armed, iocp, shouldNotify>> /\ pc = "check"
        /\ \/ pc' \in {"join", "notify"}
           \/ pc' = "wait" /\ ~shouldNotify
    BY <1>6 DEF CheckLoop, rioVars, consumerVars
  <2> QED
    BY <1>1, <2>1
<1>7. CASE WaitForCompletion
  <2>1. UNCHANGED <<completionQueue, armed>> /\ pc = "wait" /\ pc' = "dequeue"
    BY <1>7 DEF WaitForCompletion, TakeNotification, rioVars
  <2>2. \/ iocp > 0 /\ iocp' = iocp - 1 /\ shouldNotify' = shouldNotify
        \/ iocp = 0 /\ shouldNotify' = FALSE /\ iocp' = iocp
    BY <1>7 DEF WaitForCompletion, TakeNotification, rioVars
  <2> QED
    BY <1>0, <2>1, <2>2
<1>8. CASE DequeueResults
  <2>1. UNCHANGED <<armed, iocp, shouldNotify>> /\ pc = "dequeue"
    BY <1>8 DEF DequeueResults, RIODequeueCompletion
  <2>2. CASE completionQueue = <<>>
    <3>1. pc' = "check"
      BY <1>8, <2>2 DEF DequeueResults
    <3> QED
      BY <1>0, <2>1, <2>2, <3>1
  <2>3. CASE completionQueue # <<>>
    <3>1. pc' = "process"
      BY <1>8, <2>3 DEF DequeueResults
    <3> QED
      BY <1>0, <2>1, <3>1
  <2> QED
    BY <2>2, <2>3
<1>9. CASE ProcessExpected
  <2>1. /\ UNCHANGED <<completionQueue, armed, iocp, shouldNotify>>
        /\ pc = "process" /\ pc' \in {"process", "requestError"}
    BY <1>9 DEF ProcessExpected, RIOReceiveEx, PostRequest, rioVars
  <2> QED
    BY <1>1, <2>1
<1>10. CASE ProcessOther
  BY <1>1, <1>10 DEF ProcessOther, rioVars
<1>11. CASE EndBatch
  <2>1. /\ UNCHANGED <<completionQueue, armed, iocp>> /\ shouldNotify' = TRUE
        /\ pc = "process" /\ pc' = "check"
    BY <1>11 DEF EndBatch, rioVars
  <2> QED
    BY <1>0, <2>1
<1>12. ASSUME NEW g \in Destinations, NEW seq \in Seqs, NEW expected \in BOOLEAN,
              Arrive(g, seq, expected)
       PROVE  WakeInv' /\ NotificationInv'
  <2>1. /\ armed' = FALSE /\ iocp' = IF armed THEN iocp + 1 ELSE iocp
        /\ pc' = pc /\ shouldNotify' = shouldNotify
    BY <1>12 DEF Arrive, CompleteRequest
  <2>2. completionQueue' # <<>>
    <3>1. completionQueue \in Seq(Completion)
      BY <1>0 DEF TypeOK
    <3>2. PICK c : completionQueue' = Append(completionQueue, c)
      BY <1>12 DEF Arrive, CompleteRequest
    <3>3. Len(Append(completionQueue, c)) = Len(completionQueue) + 1
      BY <3>1
    <3>4. Len(completionQueue) \in Nat
      BY <3>1
    <3> QED
      BY <3>2, <3>3, <3>4
  <2>3. NotificationInv'
    BY <1>0, <2>1
  <2>4. WakeInv'
    BY <1>0, <2>1, <2>2
  <2> QED
    BY <2>3, <2>4
<1>13. CASE \/ ReportThread
            \/ (HandlerRoutine \/ TimePasses) /\ UNCHANGED consumerVars
            \/ UNCHANGED vars
  <2>1. UNCHANGED <<completionQueue, armed, iocp, shouldNotify, pc>>
    BY <1>13 DEF ReportThread, ReportExits, HandlerRoutine, TimePasses, vars, sessionVars,
                 rioVars, consumerVars
  <2> QED
    BY <1>1, <2>1
<1> QED
  BY <1>2, <1>3, <1>4, <1>5, <1>6, <1>7, <1>8, <1>9, <1>10, <1>11, <1>12, <1>13
     DEF Next, MainThread, SessionStep

-----------------------------------------------------------------------------
(* The packet limit and the clean-up *)

LEMMA LimitNext == CoreInv /\ LimitInv /\ [Next]_vars => LimitInv'
<1> SUFFICES ASSUME CoreInv, LimitInv, [Next]_vars, PktsToCount > 0 PROVE LimitInv'
  BY DEF LimitInv
<1> USE DEF LimitInv
<1>0. /\ TypeOK /\ totalPkts \in Nat /\ PktsToCount \in Nat /\ MaxRioResults \in Nat \ {0}
      /\ Len(results) \in Nat /\ TotalMod \in Nat \ {0}
  BY Lengths, SessionAssumption, ConsumerAssumption DEF CoreInv, TypeOK, SessionTypeOK
<1>1. ASSUME totalPkts' = totalPkts, results' = results,
             pc' = pc \/ pc' \notin {"start", "post", "notify", "wait", "dequeue", "process"}
      PROVE  LimitInv'
  BY <1>0, <1>1
<1>2. ASSUME totalPkts' = totalPkts,
             \/ pc' = "post" /\ pc \in {"start", "post"}
             \/ pc' \in {"notify", "wait"} /\ totalPkts < PktsToCount
             \/ pc' \in {"wait", "dequeue"} /\ pc \in {"notify", "wait"}
      PROVE  LimitInv'
  BY <1>0, <1>2
<1>3. CASE SessionStep /\ UNCHANGED consumerVars
  <2>1. totalPkts' = totalPkts /\ results' = results
    BY <1>3 DEF SessionStep, StartReport, NotifyCompletionQueue, JoinThread, CloseSocket,
                ReleaseBuffers, limitVars, consumerVars
  <2>2. \/ pc = "start" /\ pc' = "post"
        \/ pc = "notify" /\ pc' = "wait"
        \/ pc' \in {"notifyError", "closeSocket", "release", "done"}
    BY <1>3 DEF SessionStep, StartReport, NotifyCompletionQueue, JoinThread, CloseSocket,
                ReleaseBuffers
  <2> QED
    BY <1>1, <1>2, <2>1, <2>2
<1>4. CASE PostFirstRecv
  <2>1. /\ totalPkts' = totalPkts /\ results' = results
        /\ pc = "post" /\ pc' \in {"post", "check", "requestError"}
    BY <1>4 DEF PostFirstRecv, RIOReceiveEx, PostRequest, AfterFirstRecv, limitVars
  <2> QED
    BY <1>1, <1>2, <2>1
<1>5. CASE CheckLoop
  <2>1. totalPkts' = totalPkts /\ results' = results
    BY <1>5 DEF CheckLoop, limitVars, consumerVars
  <2>2. \/ pc' = "join"
        \/ pc' \in {"notify", "wait"} /\ totalPkts < PktsToCount
    BY <1>0, <1>5 DEF CheckLoop, ShouldStop
  <2> QED
    BY <1>1, <1>2, <2>1, <2>2
<1>6. CASE WaitForCompletion
  <2>1. totalPkts' = totalPkts /\ pc' = "dequeue" /\ pc = "wait"
    BY <1>6 DEF WaitForCompletion, limitVars
  <2> QED
    BY <1>2, <2>1
<1>7. CASE DequeueResults
  <2>1. /\ totalPkts' = totalPkts /\ pc = "dequeue" /\ pc' \in {"check", "process"}
        /\ results' = Dequeued(MaxRioResults) /\ RIODequeueCompletion(MaxRioResults)
    BY <1>7 DEF DequeueResults
  <2>2. Len(results') \in Nat /\ Len(results') <= MaxRioResults
    BY <1>0, <2>1, DequeueSplits DEF TypeOK
  <2> QED
    BY <1>0, <2>1, <2>2
<1>8. CASE ProcessExpected \/ ProcessOther
  <2>1. pc = "process" /\ pc' \in {"process", "requestError"}
    BY <1>8 DEF ProcessExpected, ProcessOther, RIOReceiveEx, PostRequest
  <2>2. Len(results') = Len(results) - 1
    BY <1>0, <1>8, HeadTailProperties DEF TypeOK, ProcessExpected, ProcessOther
  <2>3. totalPkts' \in Nat /\ totalPkts' <= totalPkts + 1
    <3>1. totalPkts' = (totalPkts + 1) % TotalMod
      BY <1>8 DEF ProcessExpected, ProcessOther, IncrementedTotal
    <3>2. (totalPkts + 1) % TotalMod <= totalPkts + 1
      BY <1>0, ModBelow
    <3>3. (totalPkts + 1) % TotalMod \in 0 .. TotalMod - 1
      BY <1>0, ModRange
    <3> QED
      BY <1>0, <3>1, <3>2, <3>3
  <2> HIDE DEF LimitInv
  <2>4. /\ totalPkts + Len(results) < PktsToCount + MaxRioResults
    BY <2>1 DEF LimitInv
  <2>5. (totalPkts + Len(results) < PktsToCount + MaxRioResults)' /\ Len(results') \in Nat
    <3>1. results # <<>> /\ results' = Tail(results)
      BY <1>8 DEF ProcessExpected, ProcessOther
    <3>2. Len(results) \in Nat /\ Len(results') \in Nat
      BY <1>0, <3>1, HeadTailProperties DEF TypeOK
    <3> QED
      BY <1>0, <2>2, <2>3, <2>4, <3>2
  <2> QED
    BY <1>0, <2>1, <2>3, <2>5 DEF LimitInv
<1>9. CASE EndBatch
  BY <1>1, <1>9 DEF EndBatch, limitVars
<1>10. ASSUME NEW g \in Destinations, NEW seq \in Seqs, NEW expected \in BOOLEAN,
              Arrive(g, seq, expected)
       PROVE  LimitInv'
  BY <1>1, <1>10 DEF Arrive, limitVars
<1>11. CASE \/ ReportThread
            \/ (HandlerRoutine \/ TimePasses) /\ UNCHANGED consumerVars
            \/ UNCHANGED vars
  BY <1>1, <1>11 DEF ReportThread, ReportExits, HandlerRoutine, TimePasses, vars, sessionVars,
                     limitVars, consumerVars
<1> QED
  BY <1>3, <1>4, <1>5, <1>6, <1>7, <1>8, <1>9, <1>10, <1>11 DEF Next, MainThread

LEMMA ReleaseNext == ReleaseInv /\ [Next]_vars => ReleaseInv'
<1> SUFFICES ASSUME ReleaseInv, [Next]_vars PROVE ReleaseInv'
  OBVIOUS
<1> USE DEF ReleaseInv
<1>1. ASSUME UNCHANGED resourceVars, pc' = pc \/ (pc' \notin {"release", "done"} /\ pc # "done")
      PROVE  ReleaseInv'
  BY <1>1 DEF resourceVars
<1>2. CASE StartReport \/ NotifyCompletionQueue \/ JoinThread
  BY <1>1, <1>2 DEF StartReport, NotifyCompletionQueue, JoinThread
<1>3. CASE CloseSocket \/ ReleaseBuffers
  BY <1>3 DEF CloseSocket, ReleaseBuffers
<1>4. CASE \/ PostFirstRecv \/ CheckLoop \/ WaitForCompletion \/ DequeueResults
           \/ ProcessExpected \/ ProcessOther \/ EndBatch
  BY <1>1, <1>4 DEF PostFirstRecv, CheckLoop, WaitForCompletion, DequeueResults, ProcessExpected,
       ProcessOther, EndBatch, RIOReceiveEx, AfterFirstRecv, resourceVars
<1>5. ASSUME NEW g \in Destinations, NEW seq \in Seqs, NEW expected \in BOOLEAN,
             Arrive(g, seq, expected)
      PROVE  ReleaseInv'
  BY <1>1, <1>5 DEF Arrive
<1>6. CASE \/ ReportThread
           \/ (HandlerRoutine \/ TimePasses) /\ UNCHANGED consumerVars
           \/ UNCHANGED vars
  BY <1>1, <1>6 DEF ReportThread, ReportExits, HandlerRoutine, TimePasses, vars, sessionVars
<1> QED
  BY <1>2, <1>3, <1>4, <1>5, <1>6 DEF Next, MainThread, SessionStep

LEMMA LayersInit == Init => WakeInv /\ NotificationInv /\ LimitInv /\ ReleaseInv
  BY ConsumerAssumption, SessionAssumption
     DEF Init, SessionInit, RioInit, WakeInv, NotificationInv, NotificationsBounded, LimitInv,
         ReleaseInv

-----------------------------------------------------------------------------
(* Slots and buffers *)

\* What the steps that move receives do to the queues and the counters.
LEMMA PostEffect ==
  ASSUME CoreInv, PostFirstRecv
  PROVE  /\ pc = "post" /\ posted \in Nat /\ posted < N /\ posted' = posted + 1
         /\ requestQueue' = Append(requestQueue, [buf |-> posted, slot |-> posted])
         /\ pc' = IF posted + 1 = N THEN "check" ELSE "post"
         /\ UNCHANGED <<completionQueue, results, mcAddrDescrIndex, packetCounter,
                        otherPacketCounter, mcAddr, arrived, groupStats>>
<1>1. TypeOK /\ ReceiveInv /\ pc = "post"
  BY DEF CoreInv, PostFirstRecv
<1>2. posted \in Nat /\ posted < N /\ Outstanding < N
  BY <1>1, Lengths DEF ReceiveInv, Outstanding
<1> QED
  BY <1>1, <1>2 DEF PostFirstRecv, RIOReceiveEx, PostRequest, AfterFirstRecv, countVars,
                    memoryVars

LEMMA ExpectedEffect ==
  ASSUME CoreInv, ProcessExpected
  PROVE  /\ pc = "process" /\ pc' = "process" /\ results # <<>> /\ results' = Tail(results)
         /\ requestQueue' = Append(requestQueue, [buf |-> Head(results).buf, slot |-> NextAddr])
         /\ packetCounter' = packetCounter + 1 /\ mcAddrDescrIndex' = AdvancedIndex
         /\ UNCHANGED <<completionQueue, posted, otherPacketCounter, mcAddr, arrived>>
<1>1. TypeOK /\ ReceiveInv /\ results # <<>>
  BY DEF CoreInv, ProcessExpected
<1>2. Len(results) > 0
  BY <1>1 DEF TypeOK
<1>3. Outstanding < N
  BY <1>1, <1>2, Lengths DEF ReceiveInv, Outstanding, TypeOK
<1> QED
  BY <1>3 DEF ProcessExpected, RIOReceiveEx, PostRequest, memoryVars

LEMMA ArriveEffect ==
  ASSUME NEW g \in Destinations, NEW seq \in Seqs, NEW expected \in BOOLEAN,
         Arrive(g, seq, expected)
  PROVE  /\ requestQueue # <<>> /\ requestQueue' = Tail(requestQueue)
         /\ completionQueue' = Append(completionQueue,
                                      [buf |-> Head(requestQueue).buf, expected |-> expected])
         /\ mcAddr' = [mcAddr EXCEPT ![Head(requestQueue).slot] = g]
         /\ arrived' = Append(arrived, g) /\ Len(arrived) < MaxArrivals
         /\ UNCHANGED <<results, mcAddrDescrIndex, packetCounter, otherPacketCounter, posted,
                        pc, groupStats>>
  BY DEF Arrive, CompleteRequest, countVars

\* The steps that move none.
Quiet ==
  \/ SessionStep /\ UNCHANGED consumerVars
  \/ CheckLoop \/ WaitForCompletion \/ EndBatch
  \/ ReportThread
  \/ (HandlerRoutine \/ TimePasses) /\ UNCHANGED consumerVars
  \/ UNCHANGED vars

LEMMA QuietEffect ==
  ASSUME Quiet
  PROVE  /\ UNCHANGED <<requestQueue, completionQueue, results, mcAddrDescrIndex, packetCounter,
                        otherPacketCounter, posted, mcAddr, arrived, groupStats>>
         /\ pc \in {"start", "post"} <=> pc' \in {"start", "post"}
<1> USE DEF rioVars, limitVars, resourceVars, consumerVars, countVars, memoryVars
<1>1. CASE SessionStep /\ UNCHANGED consumerVars
  BY <1>1 DEF SessionStep, StartReport, NotifyCompletionQueue, JoinThread, CloseSocket,
              ReleaseBuffers, RIONotify
<1>2. CASE CheckLoop \/ WaitForCompletion \/ EndBatch
  BY <1>2 DEF CheckLoop, WaitForCompletion, EndBatch, TakeNotification
<1>3. CASE ReportThread \/ ((HandlerRoutine \/ TimePasses) /\ UNCHANGED consumerVars)
  BY <1>3 DEF ReportThread, ReportExits, HandlerRoutine, TimePasses
<1>4. CASE UNCHANGED vars
  BY <1>4 DEF vars, sessionVars
<1> QED
  BY <1>1, <1>2, <1>3, <1>4 DEF Quiet

LEMMA QuietTotal == ASSUME Quiet PROVE UNCHANGED totalPkts
<1> USE DEF rioVars, limitVars, resourceVars
<1>1. CASE SessionStep /\ UNCHANGED consumerVars
  BY <1>1 DEF SessionStep, StartReport, NotifyCompletionQueue, JoinThread, CloseSocket,
              ReleaseBuffers
<1>2. CASE CheckLoop \/ WaitForCompletion \/ EndBatch
  BY <1>2 DEF CheckLoop, WaitForCompletion, EndBatch
<1>3. CASE ReportThread \/ ((HandlerRoutine \/ TimePasses) /\ UNCHANGED consumerVars)
  BY <1>3 DEF ReportThread, ReportExits, HandlerRoutine, TimePasses
<1>4. CASE UNCHANGED vars
  BY <1>4 DEF vars, sessionVars
<1> QED
  BY <1>1, <1>2, <1>3, <1>4 DEF Quiet

LEMMA NextSplits ==
  ASSUME [Next]_vars
  PROVE  \/ PostFirstRecv \/ DequeueResults \/ ProcessExpected \/ ProcessOther \/ Quiet
         \/ \E g \in Destinations, seq \in Seqs, expected \in BOOLEAN : Arrive(g, seq, expected)
  BY DEF Next, MainThread, Quiet

LEMMA CountInit == Init => CountInv
  BY ConsumerAssumption DEF Init, SessionInit, RioInit, CountInv

LEMMA CountNext == CoreInv /\ CountInv /\ [Next]_vars => CountInv'
<1> SUFFICES ASSUME CoreInv, CountInv, [Next]_vars PROVE CountInv'
  OBVIOUS
<1> USE DEF CountInv
<1>0. /\ TypeOK /\ ReceiveInv /\ packetCounter \in Nat /\ otherPacketCounter \in Nat
      /\ Len(results) \in Nat /\ Len(completionQueue) \in Nat /\ Len(arrived) \in Nat
      /\ posted \in Nat /\ N \in Nat \ {0} /\ IndexMod \in Nat \ {0} /\ MaxArrivals \in Nat
  BY Lengths, ConsumerAssumption DEF CoreInv, TypeOK
<1>1. CASE PostFirstRecv
  BY <1>0, <1>1, PostEffect
<1>2. CASE DequeueResults
  <2>1. /\ results' = Dequeued(MaxRioResults) /\ RIODequeueCompletion(MaxRioResults)
        /\ UNCHANGED <<posted, packetCounter, otherPacketCounter, mcAddrDescrIndex, arrived>>
        /\ pc = "dequeue" /\ pc' \notin {"start", "post"} /\ results = <<>>
    BY <1>0, <1>2 DEF DequeueResults, ReceiveInv, countVars
  <2>2. /\ Len(results') + Len(completionQueue') = Len(completionQueue)
        /\ Len(results') \in Nat /\ Len(completionQueue') \in Nat
    BY <1>0, <2>1, DequeueSplits, ConsumerAssumption DEF TypeOK
  <2>3. Len(results) = 0
    BY <2>1
  <2> QED
    BY <1>0, <2>1, <2>2, <2>3
<1>3. CASE ProcessExpected
  <2>1. /\ pc = "process" /\ pc' = "process" /\ results # <<>> /\ results' = Tail(results)
        /\ packetCounter' = packetCounter + 1 /\ mcAddrDescrIndex' = AdvancedIndex
        /\ UNCHANGED <<completionQueue, posted, otherPacketCounter, arrived>>
    BY <1>3, ExpectedEffect
  <2>2. Len(results') = Len(results) - 1
    BY <1>0, <2>1, HeadTailProperties DEF TypeOK
  <2>3. mcAddrDescrIndex' = packetCounter' % IndexMod
    BY <1>0, <2>1, ModIncrement DEF AdvancedIndex
  <2> QED
    BY <1>0, <2>1, <2>2, <2>3
<1>4. CASE ProcessOther
  <2>1. /\ pc = "process" /\ pc' = "process" /\ results # <<>> /\ results' = Tail(results)
        /\ otherPacketCounter' = otherPacketCounter + 1
        /\ UNCHANGED <<completionQueue, posted, packetCounter, mcAddrDescrIndex, arrived>>
    BY <1>4 DEF ProcessOther, rioVars
  <2>2. Len(results') = Len(results) - 1
    BY <1>0, <2>1, HeadTailProperties DEF TypeOK
  <2> QED
    BY <1>0, <2>1, <2>2
<1>5. ASSUME NEW g \in Destinations, NEW seq \in Seqs, NEW expected \in BOOLEAN,
             Arrive(g, seq, expected)
      PROVE  CountInv'
  <2>1. /\ completionQueue' = Append(completionQueue,
                                     [buf |-> Head(requestQueue).buf, expected |-> expected])
        /\ arrived' = Append(arrived, g) /\ Len(arrived) < MaxArrivals
        /\ UNCHANGED <<results, mcAddrDescrIndex, packetCounter, otherPacketCounter, posted, pc>>
    BY <1>5, ArriveEffect
  <2>2. Len(arrived') = Len(arrived) + 1
    BY <1>0, <2>1, AppendProperties DEF TypeOK
  <2>3. Len(completionQueue') = Len(completionQueue) + 1
    <3> DEFINE c == [buf |-> Head(requestQueue).buf, expected |-> expected]
    <3>1. completionQueue' = Append(completionQueue, c)
      BY <2>1
    <3> HIDE DEF c
    <3> QED
      BY <1>0, <3>1 DEF TypeOK
  <2>4. /\ Len(arrived) < MaxArrivals
        /\ UNCHANGED <<results, mcAddrDescrIndex, packetCounter, otherPacketCounter, posted, pc>>
    BY <2>1
  <2> QED
    BY <1>0, <2>2, <2>3, <2>4
<1>6. CASE Quiet
  BY <1>0, <1>6, QuietEffect
<1> QED
  BY <1>1, <1>2, <1>3, <1>4, <1>5, <1>6, NextSplits

-----------------------------------------------------------------------------
(* The counters *)

\* Setting the statistics of a group, known or not, to ones with another packet.
LEMMA OneMoreCounted ==
  ASSUME SessionTypeOK, IsFiniteSet(DOMAIN groupStats), NEW g, NEW st,
         st.Packets = PacketsOf(g) + 1, SetStats(g, st)
  PROVE  /\ IsFiniteSet(DOMAIN groupStats')
         /\ SumFunction(PacketCounts') = SumFunction(PacketCounts) + 1
<1> DEFINE D == DOMAIN groupStats
           E == D \cup {g}
           old == PacketCounts
           new == PacketCounts'
<1>1. IsFiniteSet(D) /\ \A h \in D : groupStats[h].Packets \in Nat
  BY DEF SessionTypeOK, GroupStatsType
<1>2. groupStats' = [h \in E |-> IF h = g THEN st ELSE groupStats[h]]
  BY DEF SetStats
<1>3. IsFiniteSet(E)
  BY <1>1, FS_AddElement
<1>4. /\ DOMAIN old = D /\ DOMAIN new = E
      /\ \A h \in D : old[h] = groupStats[h].Packets
      /\ \A h \in E : new[h] = IF h = g THEN st.Packets ELSE groupStats[h].Packets
  BY <1>2 DEF PacketCounts
<1>5. SumFunction(old) = SumFunctionOnSet(old, D) /\ SumFunction(new) = SumFunctionOnSet(new, E)
  BY <1>4 DEF SumFunction
<1>6. PacketsOf(g) = IF g \in D THEN old[g] ELSE 0
  BY <1>4 DEF PacketsOf, StatsOf, InitGroupStats
<1>7. DOMAIN groupStats' = E
  BY <1>2
<1> HIDE DEF D, E, old, new
<1>8. CASE g \in D
  <2>1. E = D
    BY <1>8 DEF E
  <2>2. \A h \in D : old[h] \in Int /\ new[h] \in Int
    BY <1>1, <1>4, <1>6, <1>8, <2>1
  <2>3. \A h \in D \ {g} : old[h] = new[h]
    BY <1>4, <2>1
  <2>4. SumFunctionOnSet(new, D) - new[g] = SumFunctionOnSet(old, D) - old[g]
    BY <1>1, <1>8, <2>2, <2>3, SumChange
  <2>5. new[g] = old[g] + 1 /\ old[g] \in Int
    BY <1>4, <1>6, <1>8, <2>1, <2>2
  <2>6. SumFunctionOnSet(new, D) \in Int /\ SumFunctionOnSet(old, D) \in Int
    BY <1>1, <2>2, SumType
  <2>7. SumFunctionOnSet(new, E) = SumFunctionOnSet(old, D) + 1
    BY <2>1, <2>4, <2>5, <2>6
  <2> QED
    BY <1>3, <1>5, <1>7, <2>7 DEF old, new
<1>9. CASE g \notin D
  <2>1. \A h \in D \cup {g} : new[h] \in Int
    BY <1>1, <1>4, <1>6, <1>9 DEF E
  <2>2. SumFunctionOnSet(new, E) = new[g] + SumFunctionOnSet(new, D)
    BY <1>1, <1>9, <2>1, SumAddElement DEF E
  <2>3. SumFunctionOnSet(new, D) = SumFunctionOnSet(old, D)
    <3>1. \A h \in D : new[h] = old[h]
      BY <1>4, <1>9 DEF E
    <3> QED
      BY <1>1, <3>1, SumSame
  <2>4. new[g] = 1
    BY <1>4, <1>6, <1>9 DEF E
  <2>5. SumFunctionOnSet(old, D) \in Int
    BY <1>1, <1>4, SumType
  <2>6. SumFunctionOnSet(new, E) = SumFunctionOnSet(old, D) + 1
    BY <2>2, <2>3, <2>4, <2>5
  <2> QED
    BY <1>3, <1>5, <1>7, <2>6 DEF old, new
<1> QED
  BY <1>8, <1>9

LEMMA TotalsInit == Init => TotalsInv
<1> SUFFICES ASSUME Init PROVE TotalsInv
  OBVIOUS
<1>1. /\ groupStats = [g \in Groups |-> InitGroupStats] /\ totalPkts = 0
      /\ packetCounter = 0 /\ otherPacketCounter = 0
  BY DEF Init, SessionInit
<1>2. DOMAIN groupStats = Groups /\ IsFiniteSet(Groups)
  BY <1>1, ConsumerAssumption
<1>3. SumFunction(PacketCounts) = 0
  <2>1. DOMAIN PacketCounts = Groups /\ \A g \in Groups : PacketCounts[g] = 0
    BY <1>1 DEF PacketCounts, InitGroupStats
  <2> HIDE DEF PacketCounts
  <2> QED
    BY <1>2, <2>1, SumZero DEF SumFunction
<1>4. 0 % TotalMod = 0
  BY SessionAssumption, SMT
<1> QED
  BY <1>1, <1>2, <1>3, <1>4 DEF TotalsInv

LEMMA TotalsNext == CoreInv /\ TotalsInv /\ [Next]_vars => TotalsInv'
<1> SUFFICES ASSUME CoreInv, TotalsInv, [Next]_vars PROVE TotalsInv'
  OBVIOUS
<1>0. /\ TypeOK /\ SessionTypeOK /\ packetCounter \in Nat /\ otherPacketCounter \in Nat
      /\ TotalMod \in Nat \ {0}
  BY SessionAssumption DEF CoreInv, TypeOK
<1>total. IncrementedTotal = (packetCounter + otherPacketCounter + 1) % TotalMod
  <2>1. packetCounter + otherPacketCounter \in Nat
    BY <1>0
  <2> QED
    BY <1>0, <2>1, ModIncrement DEF TotalsInv, IncrementedTotal
<1>1. ASSUME UNCHANGED <<groupStats, totalPkts, packetCounter, otherPacketCounter>>
      PROVE  TotalsInv'
  BY <1>1 DEF TotalsInv, PacketCounts
<1>2. CASE PostFirstRecv
  BY <1>1, <1>2 DEF PostFirstRecv, limitVars, countVars
<1>3. CASE DequeueResults
  BY <1>1, <1>3 DEF DequeueResults, countVars
<1>4. CASE ProcessExpected
  <2> DEFINE buf == Head(results).buf
             g == mcAddr[NextAddr]
             st == ConsumerStatsUpdate(StatsOf(g), payload[buf])
  <2>1. /\ results # <<>> /\ SetStats(g, st) /\ totalPkts' = IncrementedTotal
        /\ packetCounter' = packetCounter + 1 /\ otherPacketCounter' = otherPacketCounter
    BY <1>4 DEF ProcessExpected
  <2>2. payload[buf] \in Nat
    <3>1. Head(results) \in Completion
      BY <1>0, <2>1, HeadTailProperties DEF TypeOK
    <3> QED
      BY <1>0, <3>1 DEF TypeOK, Completion
  <2>3. StatsOf(g) \in GroupStatsType
    BY <1>0 DEF StatsOf, SessionTypeOK, InitGroupStats, GroupStatsType
  <2>4. st.Packets = PacketsOf(g) + 1
    BY <2>2, <2>3, UpdateCounts DEF PacketsOf
  <2> HIDE DEF st, g
  <2>5. /\ IsFiniteSet(DOMAIN groupStats')
        /\ SumFunction(PacketCounts') = SumFunction(PacketCounts) + 1
    BY <1>0, <2>1, <2>4, OneMoreCounted DEF TotalsInv
  <2>6. totalPkts' = (packetCounter' + otherPacketCounter') % TotalMod
    <3>1. totalPkts' = (packetCounter + otherPacketCounter + 1) % TotalMod
      BY <1>total, <2>1
    <3>2. packetCounter' + otherPacketCounter' = packetCounter + otherPacketCounter + 1
      BY <1>0, <2>1
    <3> QED
      BY <3>1, <3>2
  <2>7. packetCounter' = SumFunction(PacketCounts')
    BY <2>1, <2>5 DEF TotalsInv
  <2> QED
    BY <2>5, <2>6, <2>7 DEF TotalsInv
<1>5. CASE ProcessOther
  <2>1. /\ UNCHANGED <<groupStats, packetCounter>> /\ totalPkts' = IncrementedTotal
        /\ otherPacketCounter' = otherPacketCounter + 1
    BY <1>5 DEF ProcessOther
  <2>2. totalPkts' = (packetCounter + otherPacketCounter + 1) % TotalMod
    BY <1>total, <2>1
  <2>3. packetCounter' + otherPacketCounter' = packetCounter + otherPacketCounter + 1
    BY <1>0, <2>1
  <2> QED
    BY <2>1, <2>2, <2>3 DEF TotalsInv, PacketCounts
<1>6. ASSUME NEW g \in Destinations, NEW seq \in Seqs, NEW expected \in BOOLEAN,
             Arrive(g, seq, expected)
      PROVE  TotalsInv'
  BY <1>1, <1>6 DEF Arrive, limitVars, countVars
<1>7. CASE Quiet
  <2>1. UNCHANGED <<groupStats, packetCounter, otherPacketCounter>>
    BY <1>7, QuietEffect
  <2>2. UNCHANGED totalPkts
    BY <1>7, QuietTotal
  <2> QED
    BY <1>1, <2>1, <2>2
<1> QED
  BY <1>2, <1>3, <1>4, <1>5, <1>6, <1>7, NextSplits

\* Receives that wait, and datagrams that came and are not counted yet.
LEMMA Balance ==
  ASSUME CoreInv, CountInv
  PROVE  /\ Len(requestQueue) \in Nat /\ Len(arrived) \in Nat /\ packetCounter \in Nat
         /\ posted \in 0 .. N /\ posted + packetCounter = Len(requestQueue) + Len(arrived)
         /\ packetCounter <= Len(arrived)
<1>1. /\ TypeOK /\ packetCounter \in Nat /\ Len(arrived) \in Nat /\ posted \in 0 .. N
  BY DEF CoreInv, TypeOK
<1>2. /\ Len(requestQueue) \in Nat /\ Len(completionQueue) \in Nat /\ Len(results) \in Nat
      /\ otherPacketCounter \in Nat
  BY <1>1, Lengths
<1>3. Len(requestQueue) + Len(completionQueue) + Len(results) + otherPacketCounter = posted
  BY DEF CoreInv, ReceiveInv, Outstanding
<1>4. packetCounter + otherPacketCounter + Len(results) + Len(completionQueue) = Len(arrived)
  BY DEF CountInv
<1> QED
  BY ONLY <1>1, <1>2, <1>3, <1>4

LEMMA NextAddrInStep ==
  ASSUME SlotsInStep, CoreInv, CountInv
  PROVE  NextAddr = packetCounter % N
<1>1. /\ packetCounter \in Nat /\ packetCounter <= Len(arrived) /\ Len(arrived) \in Nat
      /\ N \in Nat \ {0} /\ IndexMod \in Nat \ {0} /\ MaxArrivals \in Nat
  BY Balance, ConsumerAssumption
<1>2. mcAddrDescrIndex = packetCounter % IndexMod /\ Len(arrived) <= MaxArrivals
  BY DEF CountInv
<1>3. CASE MaxArrivals < IndexMod
  <2>1. packetCounter % IndexMod = packetCounter
    BY <1>1, <1>2, <1>3, ModSmall
  <2> QED
    BY <1>2, <2>1 DEF NextAddr
<1>4. CASE IndexMod % N = 0
  <2>1. (packetCounter % IndexMod) % N = packetCounter % N
    BY <1>1, <1>4, ModOfMultiple
  <2> QED
    BY <1>2, <2>1 DEF NextAddr
<1> QED
  BY <1>3, <1>4 DEF SlotsInStep

LEMMA SlotInit == Init => SlotInv
  BY DEF Init, SessionInit, RioInit, SlotInv, SlotOrder, RingInv

\* A receive that is posted takes the slot after the last one.
LEMMA SlotOfPosted ==
  ASSUME CoreInv, CountInv, SlotOrder, NEW r \in [buf : Cells, slot : Cells],
         r.slot = (Len(arrived) + Len(requestQueue)) % N,
         requestQueue' = Append(requestQueue, r), arrived' = arrived
  PROVE  SlotOrder'
<1>1. requestQueue \in Seq([buf : Cells, slot : Cells])
  BY DEF CoreInv, TypeOK
<1>2. /\ Len(requestQueue') = Len(requestQueue) + 1 /\ Len(requestQueue) \in Nat
      /\ \A i \in 1 .. Len(requestQueue) : requestQueue'[i] = requestQueue[i]
      /\ requestQueue'[Len(requestQueue) + 1] = r
  BY <1>1, AppendProperties
<1>3. Len(arrived) \in Nat
  BY Balance
<1> SUFFICES ASSUME NEW i \in 1 .. Len(requestQueue')
             PROVE  requestQueue'[i].slot = (Len(arrived) + i - 1) % N
  BY DEF SlotOrder
<1>4. CASE i <= Len(requestQueue)
  BY <1>2, <1>4 DEF SlotOrder
<1>5. CASE i = Len(requestQueue) + 1
  <2>1. Len(arrived) + i - 1 = Len(arrived) + Len(requestQueue)
    BY <1>2, <1>3, <1>5
  <2> QED
    BY <1>2, <1>5, <2>1
<1> QED
  BY <1>2, <1>4, <1>5

LEMMA SlotNext == SlotsInStep /\ CoreInv /\ CountInv /\ SlotInv /\ [Next]_vars => SlotInv'
<1> SUFFICES ASSUME SlotsInStep, CoreInv, CountInv, SlotInv, [Next]_vars PROVE SlotInv'
  OBVIOUS
<1>0. /\ TypeOK /\ Len(requestQueue) \in Nat /\ Len(arrived) \in Nat /\ packetCounter \in Nat
      /\ posted \in 0 .. N /\ posted + packetCounter = Len(requestQueue) + Len(arrived)
      /\ packetCounter <= Len(arrived) /\ N \in Nat \ {0} /\ SlotOrder /\ RingInv
  BY Balance, ConsumerAssumption DEF CoreInv, SlotInv
<1>1. CASE PostFirstRecv
  <2> DEFINE r == [buf |-> posted, slot |-> posted]
  <2>1. /\ posted < N /\ packetCounter = 0 /\ requestQueue' = Append(requestQueue, r)
        /\ UNCHANGED <<packetCounter, mcAddr, arrived>>
    BY <1>1, PostEffect DEF CountInv
  <2>2. r \in [buf : Cells, slot : Cells] /\ r.slot = posted
    BY <1>0, <2>1 DEF Cells
  <2>3. Len(arrived) + Len(requestQueue) = posted /\ posted % N = posted
    BY <1>0, <2>1, ModSmall
  <2> HIDE DEF r
  <2>4. SlotOrder'
    BY <1>0, <2>1, <2>2, <2>3, SlotOfPosted
  <2>5. RingInv'
    BY <1>0, <2>1 DEF RingInv
  <2> QED
    BY <2>4, <2>5 DEF SlotInv
<1>2. CASE ProcessExpected
  <2> DEFINE r == [buf |-> Head(results).buf, slot |-> NextAddr]
  <2>1. /\ posted = N /\ packetCounter' = packetCounter + 1 /\ results # <<>>
        /\ requestQueue' = Append(requestQueue, r)
        /\ UNCHANGED <<mcAddr, arrived>>
    BY <1>2, ExpectedEffect DEF CountInv
  <2>2. NextAddr = packetCounter % N
    BY NextAddrInStep
  <2>3. r \in [buf : Cells, slot : Cells] /\ r.slot = NextAddr
    <3>1. Head(results) \in Completion
      BY <1>0, <2>1 DEF TypeOK
    <3>2. NextAddr \in Cells
      BY <1>0, <2>2, ModRange DEF Cells
    <3> QED
      BY <3>1, <3>2 DEF Completion
  <2>4. Len(arrived) + Len(requestQueue) = N + packetCounter
    BY <1>0, <2>1
  <2>5. (N + packetCounter) % N = packetCounter % N
    BY <1>0, ModShift
  <2> HIDE DEF r
  <2>6. SlotOrder'
    <3>1. r.slot = (Len(arrived) + Len(requestQueue)) % N
      BY ONLY <2>2, <2>3, <2>4, <2>5
    <3>2. /\ CoreInv /\ CountInv /\ SlotOrder
          /\ requestQueue' = Append(requestQueue, r) /\ arrived' = arrived
      BY <2>1 DEF SlotInv
    <3> QED
      BY ONLY <2>3, <3>1, <3>2, SlotOfPosted
  <2>7. RingInv'
    BY <1>0, <2>1 DEF RingInv
  <2> QED
    BY <2>6, <2>7 DEF SlotInv
<1>3. ASSUME NEW g \in Destinations, NEW seq \in Seqs, NEW expected \in BOOLEAN,
             Arrive(g, seq, expected)
      PROVE  SlotInv'
  <2>1. /\ requestQueue # <<>> /\ requestQueue' = Tail(requestQueue)
        /\ mcAddr' = [mcAddr EXCEPT ![Head(requestQueue).slot] = g]
        /\ arrived' = Append(arrived, g) /\ packetCounter' = packetCounter
    BY <1>3, ArriveEffect
  <2>2. /\ Len(arrived') = Len(arrived) + 1 /\ arrived'[Len(arrived) + 1] = g
        /\ \A k \in 1 .. Len(arrived) : arrived'[k] = arrived[k]
    BY <1>0, <2>1, AppendProperties DEF TypeOK
  <2>3. /\ Len(requestQueue) > 0 /\ Len(requestQueue') = Len(requestQueue) - 1
        /\ \A i \in 1 .. Len(requestQueue') : requestQueue'[i] = requestQueue[i + 1]
        /\ Head(requestQueue) = requestQueue[1]
    BY <1>0, <2>1, HeadTailProperties DEF TypeOK
  <2>4. SlotOrder'
    <3> SUFFICES ASSUME NEW i \in 1 .. Len(requestQueue')
                 PROVE  requestQueue'[i].slot = (Len(arrived') + i - 1) % N
      BY DEF SlotOrder
    <3>1. i + 1 \in 1 .. Len(requestQueue) /\ requestQueue'[i] = requestQueue[i + 1]
      BY <1>0, <2>3
    <3>2. requestQueue[i + 1].slot = (Len(arrived) + (i + 1) - 1) % N
      BY <1>0, <3>1 DEF SlotOrder
    <3>3. Len(arrived) + (i + 1) - 1 = Len(arrived') + i - 1
      BY <1>0, <2>2
    <3> QED
      BY <3>1, <3>2, <3>3
  <2>5. Head(requestQueue).slot = Len(arrived) % N
    <3>1. 1 \in 1 .. Len(requestQueue) /\ Len(arrived) + 1 - 1 = Len(arrived)
      BY <1>0, <2>3
    <3> QED
      BY <1>0, <2>3, <3>1 DEF SlotOrder
  <2>6. RingInv'
    <3> SUFFICES ASSUME NEW k \in packetCounter .. Len(arrived)
                 PROVE  mcAddr'[k % N] = arrived'[k + 1]
      BY <1>0, <2>1, <2>2 DEF RingInv
    <3>1. mcAddr \in [Cells -> Destinations \cup {NoAddress}] /\ k \in Nat /\ k % N \in Cells
      BY <1>0, ModRange DEF TypeOK, Cells
    <3>2. CASE k = Len(arrived)
      BY <2>1, <2>2, <2>5, <3>1, <3>2
    <3>3. CASE k < Len(arrived)
      <4>1. Len(arrived) - k < N
        BY <1>0, <2>3, <3>1
      <4>2. k % N # Len(arrived) % N
        BY <1>0, <3>1, <3>3, <4>1, ModDistinct
      <4>3. k \in packetCounter .. Len(arrived) - 1 /\ k + 1 \in 1 .. Len(arrived)
        BY <1>0, <3>1, <3>3
      <4> QED
        BY <1>0, <2>1, <2>2, <2>5, <3>1, <4>2, <4>3 DEF RingInv
    <3> QED
      BY <1>0, <3>1, <3>2, <3>3
  <2> QED
    BY <2>4, <2>6 DEF SlotInv
<1>4. CASE DequeueResults \/ ProcessOther \/ Quiet
  <2>1. UNCHANGED <<requestQueue, packetCounter, mcAddr, arrived>>
    BY <1>4, QuietEffect DEF DequeueResults, RIODequeueCompletion, ProcessOther, rioVars,
                             countVars, memoryVars
  <2> QED
    BY <1>0, <2>1 DEF SlotInv, SlotOrder, RingInv
<1> QED
  BY <1>1, <1>2, <1>3, <1>4, NextSplits

-----------------------------------------------------------------------------
(* Buffers *)

LEMMA BufInit == Init => BufInv
  BY DEF Init, SessionInit, RioInit, BufInv, InFlight, Outstanding

\* The lengths that say where a buffer in flight is.
LEMMA FlightLengths ==
  ASSUME TypeOK
  PROVE  /\ InFlight = Len(results) + Len(completionQueue) + Len(requestQueue)
         /\ InFlight \in Nat
         /\ Len(results) \in Nat /\ Len(completionQueue) \in Nat /\ Len(requestQueue) \in Nat
  BY Lengths DEF InFlight, Outstanding

LEMMA BufsAreCells ==
  ASSUME TypeOK, NEW k \in 1 .. InFlight
  PROVE  Bufs[k] \in Cells
<1>1. /\ InFlight = Len(results) + Len(completionQueue) + Len(requestQueue)
      /\ Len(results) \in Nat /\ Len(completionQueue) \in Nat /\ Len(requestQueue) \in Nat
  BY FlightLengths
<1>2. CASE k <= Len(results)
  <2>1. k \in 1 .. Len(results) /\ Bufs[k] = results[k].buf
    BY <1>1, <1>2 DEF Bufs
  <2>2. results[k] \in Completion
    BY <2>1 DEF TypeOK
  <2> QED
    BY <2>1, <2>2 DEF Completion
<1>3. CASE k > Len(results) /\ k <= Len(results) + Len(completionQueue)
  <2> DEFINE i == k - Len(results)
  <2>1. i \in 1 .. Len(completionQueue) /\ Bufs[k] = completionQueue[i].buf
    BY <1>1, <1>3 DEF Bufs
  <2> HIDE DEF i
  <2>2. completionQueue[i] \in Completion
    BY <2>1 DEF TypeOK
  <2> QED
    BY <2>1, <2>2 DEF Completion
<1>4. CASE k > Len(results) + Len(completionQueue)
  <2> DEFINE i == k - Len(results) - Len(completionQueue)
  <2>1. i \in 1 .. Len(requestQueue) /\ Bufs[k] = requestQueue[i].buf
    BY <1>1, <1>4 DEF Bufs
  <2> HIDE DEF i
  <2>2. requestQueue[i] \in [buf : Cells, slot : Cells]
    <3>1. requestQueue \in Seq([buf : Cells, slot : Cells])
      BY DEF TypeOK
    <3>2. \A S : requestQueue \in Seq(S) => requestQueue[i] \in S
      BY <2>1
    <3> QED
      BY <3>1, <3>2
  <2> QED
    BY <2>1, <2>2
<1> QED
  BY <1>1, <1>2, <1>3, <1>4

\* A step that leaves the buffers in flight where they are.
LEMMA BufSame ==
  ASSUME BufInv, InFlight' = InFlight, \A k \in 1 .. InFlight : Bufs'[k] = Bufs[k],
         posted' = posted, pc' \in {"start", "post"} => pc \in {"start", "post"}
  PROVE  BufInv'
<1>1. \A j, k \in 1 .. InFlight' : j < k => Bufs'[j] # Bufs'[k]
  BY DEF BufInv
<1>2. pc' \in {"start", "post"} => \A k \in 1 .. InFlight' : Bufs'[k] < posted'
  BY DEF BufInv
<1> QED
  BY <1>1, <1>2 DEF BufInv

LEMMA BufPost ==
  ASSUME CoreInv, BufInv, PostFirstRecv
  PROVE  BufInv'
<1> DEFINE r == [buf |-> posted, slot |-> posted]
<1>1. /\ pc = "post" /\ posted \in Nat /\ posted < N /\ posted' = posted + 1
      /\ requestQueue' = Append(requestQueue, r)
      /\ UNCHANGED <<completionQueue, results>>
  BY PostEffect
<1>2. r \in [buf : Cells, slot : Cells] /\ r.buf = posted
  BY <1>1, ConsumerAssumption DEF Cells
<1> HIDE DEF r
<1>3. /\ Len(requestQueue') = Len(requestQueue) + 1
      /\ \A i \in 1 .. Len(requestQueue) : requestQueue'[i] = requestQueue[i]
      /\ requestQueue'[Len(requestQueue) + 1] = r
  BY <1>1, <1>2, AppendProperties DEF CoreInv, TypeOK
<1>4. /\ InFlight = Len(results) + Len(completionQueue) + Len(requestQueue)
      /\ InFlight' = InFlight + 1 /\ InFlight \in Nat
      /\ Len(results) \in Nat /\ Len(completionQueue) \in Nat /\ Len(requestQueue) \in Nat
  BY <1>1, <1>3, FlightLengths DEF CoreInv, InFlight, Outstanding
<1>5. \A k \in 1 .. InFlight : Bufs'[k] = Bufs[k] /\ Bufs[k] < posted
  <2>1. \A k \in 1 .. InFlight : Bufs[k] < posted
    BY <1>1 DEF BufInv
  <2>2. ASSUME NEW k \in 1 .. InFlight PROVE Bufs'[k] = Bufs[k]
    BY <1>1, <1>3, <1>4 DEF Bufs
  <2> QED
    BY <2>1, <2>2
<1>6. Bufs'[InFlight + 1] = posted
  BY <1>1, <1>2, <1>3, <1>4 DEF Bufs
<1>7. \A k \in 1 .. InFlight : Bufs'[k] # posted /\ Bufs'[k] < posted + 1
  <2> SUFFICES ASSUME NEW k \in 1 .. InFlight PROVE Bufs'[k] # posted /\ Bufs'[k] < posted + 1
    OBVIOUS
  <2>1. Bufs[k] \in Nat
    BY BufsAreCells, ConsumerAssumption DEF CoreInv, Cells
  <2> QED
    BY <1>1, <1>5, <2>1
<1>8. \A j, k \in 1 .. InFlight' : j < k => Bufs'[j] # Bufs'[k]
  <2> SUFFICES ASSUME NEW j \in 1 .. InFlight + 1, NEW k \in 1 .. InFlight + 1, j < k
               PROVE  Bufs'[j] # Bufs'[k]
    BY <1>4
  <2>1. CASE k = InFlight + 1
    BY <1>4, <1>6, <1>7, <2>1
  <2>2. CASE k # InFlight + 1
    BY <1>4, <1>5, <2>2 DEF BufInv
  <2> QED
    BY <2>1, <2>2
<1>9. \A k \in 1 .. InFlight' : Bufs'[k] < posted'
  <2> SUFFICES ASSUME NEW k \in 1 .. InFlight + 1 PROVE Bufs'[k] < posted + 1
    BY <1>1, <1>4
  <2>1. k \in 1 .. InFlight \/ k = InFlight + 1
    BY <1>4
  <2> QED
    BY <1>1, <1>6, <1>7, <2>1
<1> QED
  BY <1>8, <1>9 DEF BufInv

\* A datagram: the first receive that waits becomes the last completion.
LEMMA BufArrive ==
  ASSUME CoreInv, BufInv, NEW g \in Destinations, NEW seq \in Seqs, NEW expected \in BOOLEAN,
         Arrive(g, seq, expected)
  PROVE  BufInv'
<1> DEFINE c == [buf |-> Head(requestQueue).buf, expected |-> expected]
<1>1. /\ requestQueue # <<>> /\ requestQueue' = Tail(requestQueue)
      /\ completionQueue' = Append(completionQueue, c)
      /\ UNCHANGED <<results, posted, pc>>
  BY ArriveEffect
<1>2. /\ Len(requestQueue) > 0 /\ Len(requestQueue') = Len(requestQueue) - 1
      /\ \A i \in 1 .. Len(requestQueue') : requestQueue'[i] = requestQueue[i + 1]
      /\ Head(requestQueue) = requestQueue[1] /\ requestQueue[1].buf \in Cells
  <2>1. requestQueue \in Seq([buf : Cells, slot : Cells])
    BY DEF CoreInv, TypeOK
  <2>2. /\ Head(requestQueue) \in [buf : Cells, slot : Cells]
        /\ Len(requestQueue) > 0 /\ Head(requestQueue) = requestQueue[1]
    <3>1. \A S : requestQueue \in Seq(S) =>
            /\ Head(requestQueue) \in S
            /\ Len(requestQueue) > 0 /\ Head(requestQueue) = requestQueue[1]
      BY <1>1, HeadTailProperties
    <3> QED
      BY <2>1, <3>1
  <2>3. /\ Len(requestQueue') = Len(requestQueue) - 1
        /\ \A i \in 1 .. Len(requestQueue') : requestQueue'[i] = requestQueue[i + 1]
    BY <1>1, <2>1, HeadTailProperties
  <2> QED
    BY <2>2, <2>3
<1>3. c \in Completion /\ c.buf = requestQueue[1].buf
  BY <1>2 DEF Completion
<1> HIDE DEF c
<1>4. /\ Len(completionQueue') = Len(completionQueue) + 1
      /\ \A i \in 1 .. Len(completionQueue) : completionQueue'[i] = completionQueue[i]
      /\ completionQueue'[Len(completionQueue) + 1] = c
  BY <1>1, <1>3, AppendProperties DEF CoreInv, TypeOK
<1>5. /\ InFlight = Len(results) + Len(completionQueue) + Len(requestQueue)
      /\ InFlight' = InFlight /\ InFlight \in Nat
      /\ Len(results) \in Nat /\ Len(completionQueue) \in Nat /\ Len(requestQueue) \in Nat
  BY <1>1, <1>2, <1>4, FlightLengths DEF CoreInv, InFlight, Outstanding
<1>6. ASSUME NEW k \in 1 .. InFlight PROVE Bufs'[k] = Bufs[k]
  <2>1. CASE k <= Len(results) + Len(completionQueue)
    BY <1>1, <1>4, <1>5, <2>1 DEF Bufs
  <2>2. CASE k = Len(results) + Len(completionQueue) + 1
    BY <1>1, <1>2, <1>3, <1>4, <1>5, <2>2 DEF Bufs
  <2>3. CASE k > Len(results) + Len(completionQueue) + 1
    BY <1>1, <1>2, <1>4, <1>5, <2>3 DEF Bufs
  <2> QED
    BY <1>5, <2>1, <2>2, <2>3
<1> QED
  BY <1>1, <1>5, <1>6, BufSame

\* Dequeuing: the first completions become the results in hand.
LEMMA BufDequeue ==
  ASSUME CoreInv, BufInv, DequeueResults
  PROVE  BufInv'
<1>1. /\ results = <<>> /\ results' = Dequeued(MaxRioResults)
      /\ RIODequeueCompletion(MaxRioResults)
      /\ UNCHANGED <<requestQueue, posted>> /\ pc' \notin {"start", "post"}
  BY DEF CoreInv, ReceiveInv, DequeueResults, RIODequeueCompletion
<1>2. completionQueue \in Seq(Completion) /\ MaxRioResults \in Nat \ {0}
  BY ConsumerAssumption DEF CoreInv, TypeOK
<1>3. /\ Len(results') + Len(completionQueue') = Len(completionQueue)
      /\ Len(results') \in Nat /\ Len(completionQueue') \in Nat /\ Len(results) = 0
  BY <1>1, <1>2, DequeueSplits
<1>4. \A i \in 1 .. Len(completionQueue) :
        completionQueue[i] = IF i <= Len(results') THEN results'[i]
                             ELSE completionQueue'[i - Len(results')]
  BY <1>1, <1>2, DequeueKeeps
<1>5. /\ InFlight = Len(completionQueue) + Len(requestQueue)
      /\ InFlight' = InFlight /\ InFlight \in Nat
      /\ Len(completionQueue) \in Nat /\ Len(requestQueue) \in Nat
  BY <1>1, <1>3, FlightLengths DEF CoreInv, InFlight, Outstanding
<1>6. ASSUME NEW k \in 1 .. InFlight PROVE Bufs'[k] = Bufs[k]
  <2>1. CASE k <= Len(completionQueue)
    BY <1>1, <1>3, <1>4, <1>5, <2>1 DEF Bufs
  <2>2. CASE k > Len(completionQueue)
    BY <1>1, <1>3, <1>5, <2>2 DEF Bufs
  <2> QED
    BY <1>5, <2>1, <2>2
<1> QED
  BY <1>1, <1>5, <1>6, BufSame

\* A counted datagram: its buffer goes from the first place to the last.
LEMMA BufExpected ==
  ASSUME CoreInv, BufInv, ProcessExpected
  PROVE  BufInv'
<1> DEFINE r == [buf |-> Head(results).buf, slot |-> NextAddr]
<1>1. /\ pc' = "process" /\ results # <<>> /\ results' = Tail(results)
      /\ requestQueue' = Append(requestQueue, r)
      /\ UNCHANGED completionQueue
  BY ExpectedEffect
<1>2. /\ Len(results) > 0 /\ Len(results') = Len(results) - 1
      /\ \A i \in 1 .. Len(results') : results'[i] = results[i + 1]
      /\ Head(results) = results[1] /\ Head(results) \in Completion
  BY <1>1, HeadTailProperties DEF CoreInv, TypeOK
<1>3. r \in [buf : Cells, slot : Cells] /\ r.buf = results[1].buf
  <2>1. NextAddr \in Cells
    BY ConsumerAssumption, ModRange DEF CoreInv, TypeOK, NextAddr, Cells
  <2> QED
    BY <1>2, <2>1 DEF Completion
<1> HIDE DEF r
<1>4. /\ Len(requestQueue') = Len(requestQueue) + 1
      /\ \A i \in 1 .. Len(requestQueue) : requestQueue'[i] = requestQueue[i]
      /\ requestQueue'[Len(requestQueue) + 1] = r
  BY <1>1, <1>3, AppendProperties DEF CoreInv, TypeOK
<1>5. /\ InFlight = Len(results) + Len(completionQueue) + Len(requestQueue)
      /\ InFlight' = InFlight /\ InFlight \in Nat
      /\ Len(results) \in Nat /\ Len(completionQueue) \in Nat /\ Len(requestQueue) \in Nat
  BY <1>1, <1>2, <1>4, FlightLengths DEF CoreInv, InFlight, Outstanding
<1>6. ASSUME NEW k \in 1 .. InFlight, k < InFlight PROVE Bufs'[k] = Bufs[k + 1]
  <2>1. CASE k < Len(results)
    BY <1>1, <1>2, <1>5, <1>6, <2>1 DEF Bufs
  <2>2. CASE k >= Len(results) /\ k < Len(results) + Len(completionQueue)
    <3>1. (k + 1) - Len(results) = k - Len(results')
      BY <1>2, <1>5
    <3> QED
      BY <1>1, <1>2, <1>5, <1>6, <2>2, <3>1 DEF Bufs
  <2>3. CASE k >= Len(results) + Len(completionQueue)
    <3>1. (k + 1) - Len(results) - Len(completionQueue)
            = k - Len(results') - Len(completionQueue')
      BY <1>1, <1>2, <1>5
    <3> QED
      BY <1>1, <1>2, <1>4, <1>5, <1>6, <2>3, <3>1 DEF Bufs
  <2> QED
    BY <1>5, <2>1, <2>2, <2>3
<1>7. Bufs'[InFlight] = Bufs[1]
  BY <1>1, <1>2, <1>3, <1>4, <1>5 DEF Bufs
<1>8. ASSUME NEW j \in 1 .. InFlight, NEW k \in 1 .. InFlight, j < k
      PROVE  Bufs'[j] # Bufs'[k]
  <2>1. CASE k < InFlight
    <3>1. /\ j + 1 \in 1 .. InFlight /\ k + 1 \in 1 .. InFlight /\ j + 1 < k + 1
          /\ j < InFlight
      BY <1>5, <1>8, <2>1
    <3>2. Bufs[j + 1] # Bufs[k + 1]
      BY <3>1 DEF BufInv
    <3>3. Bufs'[j] = Bufs[j + 1] /\ Bufs'[k] = Bufs[k + 1]
      BY <1>6, <2>1, <3>1
    <3> QED
      BY <3>2, <3>3
  <2>2. CASE k = InFlight
    BY <1>5, <1>6, <1>7, <1>8, <2>2 DEF BufInv
  <2> QED
    BY <1>5, <2>1, <2>2
<1> QED
  BY <1>1, <1>5, <1>8 DEF BufInv

\* A result of another size: its buffer is not posted again.
LEMMA BufOther ==
  ASSUME CoreInv, BufInv, ProcessOther
  PROVE  BufInv'
<1>1. /\ pc = "process" /\ pc' = "process" /\ results # <<>> /\ results' = Tail(results)
      /\ UNCHANGED <<completionQueue, requestQueue>>
  BY DEF ProcessOther, rioVars
<1>2. /\ Len(results) > 0 /\ Len(results') = Len(results) - 1
      /\ \A i \in 1 .. Len(results') : results'[i] = results[i + 1]
  BY <1>1, HeadTailProperties DEF CoreInv, TypeOK
<1>3. /\ InFlight = Len(results) + Len(completionQueue) + Len(requestQueue)
      /\ InFlight' = InFlight - 1 /\ InFlight \in Nat
      /\ Len(results) \in Nat /\ Len(completionQueue) \in Nat /\ Len(requestQueue) \in Nat
  BY <1>1, <1>2, FlightLengths DEF CoreInv, InFlight, Outstanding
<1>4. ASSUME NEW k \in 1 .. InFlight, k < InFlight PROVE Bufs'[k] = Bufs[k + 1]
  <2>1. /\ (k + 1) - Len(results) = k - Len(results')
        /\ (k + 1) - Len(results) - Len(completionQueue)
             = k - Len(results') - Len(completionQueue')
    BY <1>1, <1>2, <1>3
  <2> QED
    BY <1>1, <1>2, <1>3, <1>4, <2>1 DEF Bufs
<1>5. ASSUME NEW j \in 1 .. InFlight', NEW k \in 1 .. InFlight', j < k
      PROVE  Bufs'[j] # Bufs'[k]
  <2>1. /\ j \in 1 .. InFlight /\ k \in 1 .. InFlight /\ j < InFlight /\ k < InFlight
        /\ j + 1 \in 1 .. InFlight /\ k + 1 \in 1 .. InFlight /\ j + 1 < k + 1
    BY <1>3, <1>5
  <2>2. Bufs[j + 1] # Bufs[k + 1]
    BY <2>1 DEF BufInv
  <2>3. Bufs'[j] = Bufs[j + 1] /\ Bufs'[k] = Bufs[k + 1]
    BY <1>4, <2>1
  <2> QED
    BY <2>2, <2>3
<1> QED
  BY <1>1, <1>5 DEF BufInv

LEMMA BufNext == CoreInv /\ BufInv /\ [Next]_vars => BufInv'
<1> SUFFICES ASSUME CoreInv, BufInv, [Next]_vars PROVE BufInv'
  OBVIOUS
<1>1. CASE Quiet
  <2>1. /\ UNCHANGED <<requestQueue, completionQueue, results, posted>>
        /\ pc' \in {"start", "post"} => pc \in {"start", "post"}
    BY <1>1, QuietEffect
  <2>2. InFlight' = InFlight /\ Bufs' = Bufs
    BY <2>1 DEF InFlight, Outstanding, Bufs
  <2> QED
    BY <2>1, <2>2, BufSame
<1> QED
  BY <1>1, BufPost, BufArrive, BufDequeue, BufExpected, BufOther, NextSplits

\* The slots of the receives that wait differ because there are at most N.
LEMMA SlotsDiffer ==
  ASSUME CoreInv, CountInv, SlotInv, NEW i \in 1 .. Len(requestQueue),
         NEW j \in 1 .. Len(requestQueue), i < j
  PROVE  requestQueue[i].slot # requestQueue[j].slot
<1>1. /\ Len(requestQueue) \in Nat /\ Len(arrived) \in Nat /\ Len(requestQueue) <= N
      /\ N \in Nat \ {0}
  BY Balance, ConsumerAssumption
<1> DEFINE a == Len(arrived) + i - 1
           b == Len(arrived) + j - 1
<1>2. a \in Nat /\ b \in Nat /\ a < b /\ b - a < N
  BY <1>1
<1>3. requestQueue[i].slot = a % N /\ requestQueue[j].slot = b % N
  BY DEF SlotInv, SlotOrder
<1> HIDE DEF a, b
<1> QED
  BY <1>1, <1>2, <1>3, ModDistinct

\* And their buffers differ because all buffers in flight do.
LEMMA NoneAliased ==
  ASSUME CoreInv, CountInv, SlotInv, BufInv
  PROVE  NoAliasedReceives
<1> DEFINE lr == Len(results)
           lc == Len(completionQueue)
           lq == Len(requestQueue)
<1>1. InFlight = lr + lc + lq /\ lr \in Nat /\ lc \in Nat /\ lq \in Nat
  BY FlightLengths DEF CoreInv
<1>2. \A i \in 1 .. lr : i \in 1 .. InFlight /\ Bufs[i] = results[i].buf
  BY <1>1 DEF Bufs
<1>3. \A i \in 1 .. lc : lr + i \in 1 .. InFlight /\ Bufs[lr + i] = completionQueue[i].buf
  <2> SUFFICES ASSUME NEW i \in 1 .. lc
               PROVE  lr + i \in 1 .. InFlight /\ Bufs[lr + i] = completionQueue[i].buf
    OBVIOUS
  <2>1. (lr + i) - lr = i
    BY <1>1
  <2> QED
    BY <1>1, <2>1 DEF Bufs
<1>4. \A i \in 1 .. lq : lr + lc + i \in 1 .. InFlight /\ Bufs[lr + lc + i] = requestQueue[i].buf
  <2> SUFFICES ASSUME NEW i \in 1 .. lq
               PROVE  lr + lc + i \in 1 .. InFlight /\ Bufs[lr + lc + i] = requestQueue[i].buf
    OBVIOUS
  <2>1. (lr + lc + i) - lr - lc = i
    BY <1>1
  <2> QED
    BY <1>1, <2>1 DEF Bufs
<1>5. ASSUME NEW i \in 1 .. lq, NEW j \in 1 .. lq, i < j
      PROVE  /\ requestQueue[i].buf # requestQueue[j].buf
             /\ requestQueue[i].slot # requestQueue[j].slot
  <2>1. lr + lc + i < lr + lc + j
    BY <1>1, <1>5
  <2>2. requestQueue[i].buf # requestQueue[j].buf
    BY <1>4, <2>1 DEF BufInv
  <2> QED
    BY <1>5, <2>2, SlotsDiffer
<1>6. ASSUME NEW i \in 1 .. lq, NEW j \in 1 .. lq, i # j
      PROVE  /\ requestQueue[i].buf # requestQueue[j].buf
             /\ requestQueue[i].slot # requestQueue[j].slot
  <2>1. i < j \/ j < i
    BY <1>1, <1>6
  <2> QED
    BY <1>5, <2>1
<1>7. ASSUME NEW i \in 1 .. lq, NEW j \in 1 .. lc
      PROVE  requestQueue[i].buf # completionQueue[j].buf
  <2>1. lr + j < lr + lc + i
    BY <1>1
  <2> QED
    BY <1>3, <1>4, <2>1 DEF BufInv
<1>8. ASSUME NEW i \in 1 .. lq, NEW j \in 1 .. lr
      PROVE  requestQueue[i].buf # results[j].buf
  <2>1. j < lr + lc + i
    BY <1>1
  <2> QED
    BY <1>2, <1>4, <2>1 DEF BufInv
<1> QED
  BY <1>6, <1>7, <1>8 DEF NoAliasedReceives

-----------------------------------------------------------------------------
(* The refinement *)

LEMMA SinkInit == Init => Sink!Init
<1> SUFFICES ASSUME Init PROVE Sink!Init
  OBVIOUS
<1>1. /\ arrived = <<>> /\ packetCounter = 0 /\ otherPacketCounter = 0 /\ pc = "start"
      /\ groupStats = [g \in Groups |-> InitGroupStats]
  BY DEF Init, SessionInit, RioInit
<1>2. \A g \in Destinations : PacketsOf(g) = 0
  BY <1>1 DEF PacketsOf, StatsOf, InitGroupStats
<1>3. Running
  BY <1>1 DEF Running, Failed
<1> QED
  BY <1>1, <1>2, <1>3 DEF Sink!Init

LEMMA SinkCount ==
  ASSUME SlotsInStep, CoreInv, CountInv, SlotInv, ProcessExpected
  PROVE  Sink!Count
<1> DEFINE g == mcAddr[NextAddr]
           u == ConsumerStatsUpdate(StatsOf(g), payload[Head(results).buf])
<1>1. /\ pc = "process" /\ pc' = "process" /\ results # <<>>
      /\ packetCounter' = packetCounter + 1
      /\ UNCHANGED <<otherPacketCounter, arrived>>
  BY ExpectedEffect
<1>2. /\ TypeOK /\ Len(results) \in Nat /\ Len(results) > 0 /\ Len(completionQueue) \in Nat
      /\ packetCounter \in Nat /\ otherPacketCounter \in Nat /\ Len(arrived) \in Nat
  BY <1>1, Lengths DEF CoreInv, TypeOK
<1>3. packetCounter + otherPacketCounter < Len(arrived) /\ packetCounter < Len(arrived)
  BY <1>2 DEF CountInv
<1>4. g = arrived[packetCounter + 1] /\ g \in Destinations
  <2>1. packetCounter \in packetCounter .. Len(arrived) - 1
    BY <1>2, <1>3
  <2>2. g = arrived[packetCounter + 1]
    BY <2>1, NextAddrInStep DEF SlotInv, RingInv
  <2>3. packetCounter + 1 \in 1 .. Len(arrived)
    BY <1>2, <1>3
  <2> QED
    BY <1>2, <2>2, <2>3 DEF TypeOK
<1>5. u.Packets = PacketsOf(g) + 1
  <2>1. StatsOf(g) \in GroupStatsType
    BY <1>2 DEF TypeOK, SessionTypeOK, StatsOf, InitGroupStats, GroupStatsType
  <2>2. Head(results).buf \in Cells
    <3>1. Head(results) \in Completion
      BY <1>1, <1>2 DEF TypeOK
    <3> QED
      BY <3>1 DEF Completion
  <2>3. payload[Head(results).buf] \in Nat
    BY <1>2, <2>2 DEF TypeOK
  <2> QED
    BY <2>1, <2>3, UpdateCounts DEF PacketsOf
<1>6. groupStats' = [h \in DOMAIN groupStats \cup {g} |-> IF h = g THEN u ELSE groupStats[h]]
  BY DEF ProcessExpected, SetStats
<1> HIDE DEF g, u
<1>7. \A h \in Destinations : PacketsOf(h)' = IF h = g THEN PacketsOf(g) + 1 ELSE PacketsOf(h)
  BY <1>5, <1>6 DEF PacketsOf, StatsOf
<1>8. [h \in Destinations |-> PacketsOf(h)]'
        = [[h \in Destinations |-> PacketsOf(h)] EXCEPT ![g] = @ + 1]
  BY <1>4, <1>7
<1>9. Running /\ Running'
  BY <1>1 DEF Running, Failed
<1> QED
  BY <1>1, <1>3, <1>4, <1>8, <1>9 DEF Sink!Count, Sink!Pending

LEMMA SinkIgnore ==
  ASSUME CoreInv, CountInv, ProcessOther
  PROVE  Sink!Ignore
<1>1. /\ pc = "process" /\ pc' = "process" /\ results # <<>>
      /\ otherPacketCounter' = otherPacketCounter + 1
      /\ UNCHANGED <<packetCounter, arrived, groupStats>>
  BY DEF ProcessOther
<1>2. /\ Len(results) \in Nat /\ Len(results) > 0 /\ Len(completionQueue) \in Nat
      /\ packetCounter \in Nat /\ otherPacketCounter \in Nat /\ Len(arrived) \in Nat
  BY <1>1, Lengths DEF CoreInv, TypeOK
<1>3. packetCounter + otherPacketCounter < Len(arrived)
  BY <1>2 DEF CountInv
<1>4. Running /\ Running'
  BY <1>1 DEF Running, Failed
<1>5. [h \in Destinations |-> PacketsOf(h)]' = [h \in Destinations |-> PacketsOf(h)]
  BY <1>1 DEF PacketsOf, StatsOf
<1> QED
  BY <1>1, <1>3, <1>4, <1>5 DEF Sink!Ignore, Sink!Pending

\* A loop that is left is never entered again.
LEMMA RunningOnce ==
  ASSUME CoreInv, [Next]_vars
  PROVE  Running' => Running
<1> USE DEF Running, Failed
<1>1. CASE PostFirstRecv
  BY <1>1, PostEffect
<1>2. CASE DequeueResults \/ ProcessOther
  BY <1>2 DEF DequeueResults, ProcessOther
<1>3. CASE ProcessExpected
  BY <1>3, ExpectedEffect
<1>4. ASSUME NEW g \in Destinations, NEW seq \in Seqs, NEW expected \in BOOLEAN,
             Arrive(g, seq, expected)
      PROVE  Running' => Running
  BY <1>4, ArriveEffect
<1>5. CASE CheckLoop \/ WaitForCompletion \/ EndBatch
  BY <1>5 DEF CheckLoop, WaitForCompletion, EndBatch
<1>6. CASE SessionStep
  BY <1>6 DEF SessionStep, StartReport, NotifyCompletionQueue, JoinThread, CloseSocket,
              ReleaseBuffers
<1>7. CASE ReportThread \/ HandlerRoutine \/ TimePasses \/ UNCHANGED vars
  BY <1>7 DEF ReportThread, ReportExits, HandlerRoutine, TimePasses, vars, sessionVars
<1> QED
  BY <1>1, <1>2, <1>3, <1>4, <1>5, <1>6, <1>7 DEF Next, MainThread

LEMMA SinkNext ==
  ASSUME SlotsInStep, CoreInv, CountInv, SlotInv, [Next]_vars
  PROVE  [Sink!Next]_Sink!vars
<1>1. CASE ProcessExpected
  BY <1>1, SinkCount DEF Sink!Next
<1>2. CASE ProcessOther
  BY <1>2, SinkIgnore DEF Sink!Next
<1>3. ASSUME NEW g \in Destinations, NEW seq \in Seqs, NEW expected \in BOOLEAN,
             Arrive(g, seq, expected)
      PROVE  [Sink!Next]_Sink!vars
  <2>1. /\ arrived' = Append(arrived, g)
        /\ UNCHANGED <<packetCounter, otherPacketCounter, pc, groupStats>>
    BY <1>3, ArriveEffect
  <2>2. Running' = Running
    BY <2>1 DEF Running, Failed
  <2>3. [h \in Destinations |-> PacketsOf(h)]' = [h \in Destinations |-> PacketsOf(h)]
    BY <2>1 DEF PacketsOf, StatsOf
  <2>4. Sink!Take(g)
    BY <2>1, <2>2, <2>3 DEF Sink!Take
  <2> QED
    BY <2>4 DEF Sink!Next
<1>4. CASE PostFirstRecv \/ DequeueResults \/ Quiet
  <2>1. UNCHANGED <<packetCounter, otherPacketCounter, arrived, groupStats>>
    BY <1>4, PostEffect, QuietEffect DEF DequeueResults, countVars, memoryVars
  <2>2. [h \in Destinations |-> PacketsOf(h)]' = [h \in Destinations |-> PacketsOf(h)]
    BY <2>1 DEF PacketsOf, StatsOf
  <2>3. Running \in BOOLEAN /\ Running' \in BOOLEAN /\ (Running' => Running)
    BY RunningOnce DEF Running
  <2>4. CASE Running' = Running
    BY <2>1, <2>2, <2>4 DEF Sink!vars
  <2>5. CASE Running /\ Running' = FALSE
    <3>1. Sink!Stop
      BY <2>1, <2>2, <2>5 DEF Sink!Stop
    <3> QED
      BY <3>1 DEF Sink!Next
  <2> QED
    BY <2>3, <2>4, <2>5
<1> QED
  BY <1>1, <1>2, <1>3, <1>4, NextSplits

\* Whoever is credited is the destination of the datagram with the number of the count.
LEMMA CreditedInOrder ==
  ASSUME SlotsInStep, CoreInv, CountInv, SlotInv, [Next]_vars, packetCounter' # packetCounter
  PROVE  LET g == arrived[packetCounter']
         IN  g \in DOMAIN groupStats' /\ groupStats'[g].Packets = PacketsOf(g) + 1
<1> DEFINE packets == [h \in Destinations |-> PacketsOf(h)]
           g == arrived[packetCounter']
<1>1. CASE ProcessExpected
  <2>1. Sink!Count
    BY <1>1, SinkCount
  <2>2. /\ packetCounter' = packetCounter + 1
        /\ packetCounter + otherPacketCounter < Len(arrived)
        /\ packets' = [packets EXCEPT ![arrived[packetCounter + 1]] = @ + 1]
    BY <2>1 DEF Sink!Count, Sink!Pending
  <2>3. /\ TypeOK /\ packetCounter \in Nat /\ otherPacketCounter \in Nat
        /\ arrived \in Seq(Destinations)
    BY DEF CoreInv, TypeOK
  <2>4. g \in Destinations
    <3>1. packetCounter' \in 1 .. Len(arrived)
      BY <2>2, <2>3
    <3> QED
      BY <2>3, <3>1
  <2>5. PacketsOf(g) \in Nat
    <3>1. StatsOf(g) \in GroupStatsType
      BY <2>3 DEF TypeOK, SessionTypeOK, StatsOf, InitGroupStats, GroupStatsType
    <3> QED
      BY <3>1 DEF PacketsOf, GroupStatsType
  <2>6. packets'[g] = packets[g] + 1
    BY <2>2, <2>4
  <2> HIDE DEF g
  <2>7. packets[g] = PacketsOf(g)
    BY <2>4
  <2>8. packets'[g] = IF g \in DOMAIN groupStats' THEN groupStats'[g].Packets ELSE 0
    BY <2>4 DEF PacketsOf, StatsOf, InitGroupStats
  <2> HIDE DEF packets
  <2> QED
    BY <2>5, <2>6, <2>7, <2>8 DEF g
<1>2. CASE PostFirstRecv \/ DequeueResults \/ ProcessOther \/ Quiet
  <2>1. UNCHANGED packetCounter
    BY <1>2, PostEffect, QuietEffect DEF DequeueResults, ProcessOther, countVars, memoryVars
  <2> QED
    BY <2>1
<1>3. ASSUME NEW d \in Destinations, NEW seq \in Seqs, NEW expected \in BOOLEAN,
             Arrive(d, seq, expected)
      PROVE  FALSE
  BY <1>3, ArriveEffect
<1> QED
  BY <1>1, <1>2, <1>3, NextSplits

\* Of the datagrams taken, as many as were counted are credited to their own destinations.
CreditInv ==
  \A g \in Destinations : PacketsOf(g) = Cardinality({k \in 1 .. packetCounter : arrived[k] = g})

LEMMA CreditInit == Init => CreditInv
<1> SUFFICES ASSUME Init PROVE CreditInv
  OBVIOUS
<1>1. Sink!Init
  BY SinkInit
<1>2. packetCounter = 0 /\ \A g \in Destinations : PacketsOf(g) = 0
  BY <1>1 DEF Sink!Init
<1>3. \A g : {k \in 1 .. packetCounter : arrived[k] = g} = {}
  BY <1>2
<1> QED
  BY <1>2, <1>3, FS_EmptySet DEF CreditInv

LEMMA CreditNext ==
  ASSUME SlotsInStep, CoreInv, CountInv, SlotInv, CreditInv, [Next]_vars
  PROVE  CreditInv'
<1> DEFINE packets == [h \in Destinations |-> PacketsOf(h)]
           Own(s, n, g) == {k \in 1 .. n : s[k] = g}
<1>1. /\ packetCounter \in Nat /\ otherPacketCounter \in Nat /\ arrived \in Seq(Destinations)
      /\ packetCounter <= Len(arrived)
  <2>1. TypeOK /\ Len(results) \in Nat /\ Len(completionQueue) \in Nat
    BY Lengths DEF CoreInv, TypeOK
  <2> QED
    BY <2>1 DEF TypeOK, CountInv
<1>2. \A g \in Destinations : packets[g] = Cardinality(Own(arrived, packetCounter, g))
  BY DEF CreditInv
<1>3. \A n \in Nat : \A s, g : IsFiniteSet(Own(s, n, g)) /\ Cardinality(Own(s, n, g)) \in Nat
  <2>1. ASSUME NEW n \in Nat, NEW s, NEW g
        PROVE  IsFiniteSet(Own(s, n, g)) /\ Cardinality(Own(s, n, g)) \in Nat
    <3>1. Own(s, n, g) \in SUBSET (1 .. n) /\ 1 \in Int /\ n \in Int
      OBVIOUS
    <3> HIDE DEF Own
    <3> QED
      BY <3>1, PartOfInterval
  <2> QED
    BY <2>1
<1>4. SUFFICES ASSUME NEW g \in Destinations
               PROVE  packets'[g] = Cardinality(Own(arrived', packetCounter', g))
  BY DEF CreditInv
<1>5. [Sink!Next]_Sink!vars
  BY SinkNext
<1>6. CASE \E d \in Destinations : Sink!Take(d)
  <2>1. PICK d \in Destinations :
          arrived' = Append(arrived, d) /\ packetCounter' = packetCounter /\ packets' = packets
    BY <1>6 DEF Sink!Take
  <2>2. \A k \in 1 .. packetCounter : arrived'[k] = arrived[k]
    BY <1>1, <2>1
  <2>3. Own(arrived', packetCounter', g) = Own(arrived, packetCounter, g)
    BY <2>1, <2>2
  <2> QED
    BY <1>2, <2>1, <2>3
<1>7. CASE Sink!Count
  <2> DEFINE n == packetCounter
             d == arrived[n + 1]
  <2>1. /\ packetCounter' = n + 1 /\ arrived' = arrived
        /\ packets' = [packets EXCEPT ![d] = @ + 1]
    BY <1>7 DEF Sink!Count
  <2>2. packets'[g] = IF g = d THEN packets[g] + 1 ELSE packets[g]
    BY <2>1
  <2>3. CASE g = d
    <3>1. Own(arrived, n + 1, g) = Own(arrived, n, g) \cup {n + 1}
      BY <1>1, <2>3
    <3>2. n + 1 \notin Own(arrived, n, g)
      BY <1>1
    <3> HIDE DEF Own
    <3>3. IsFiniteSet(Own(arrived, n, g))
      BY <1>1, <1>3
    <3>4. Cardinality(Own(arrived, n + 1, g)) = Cardinality(Own(arrived, n, g)) + 1
      BY <3>1, <3>2, <3>3, FS_AddElement
    <3> QED
      BY <1>2, <2>1, <2>2, <2>3, <3>4
  <2>4. CASE g # d
    <3>1. Own(arrived, n + 1, g) = Own(arrived, n, g)
      BY <1>1, <2>4
    <3> QED
      BY <1>2, <2>1, <2>2, <2>4, <3>1
  <2> QED
    BY <2>3, <2>4
<1>8. CASE Sink!Ignore \/ Sink!Stop \/ UNCHANGED Sink!vars
  <2>1. arrived' = arrived /\ packetCounter' = packetCounter /\ packets' = packets
    BY <1>8 DEF Sink!Ignore, Sink!Stop, Sink!vars
  <2> QED
    BY <1>2, <2>1
<1> QED
  BY <1>5, <1>6, <1>7, <1>8 DEF Sink!Next

-----------------------------------------------------------------------------
(* How a run ends *)

\* The report thread runs from the start of the loop on; whoever waits for it
\* has left the loop for a reason that it sees as well.
JoinInv ==
  /\ report = "none" <=> pc = "start"
  /\ pc = "join" => report = "exited" \/ ~ShouldStop
  /\ pc \in {"closeSocket", "release", "done"} => report = "exited"

\* The threads do not wait for each other: the main thread joins a report thread
\* that is there and has left its loop or is about to (RioConsumer.cpp:109, :151,
\* RioSession.cpp:237-262).
JoinIsAnswered ==
  pc = "join" => report = "exited" \/ (report = "running" /\ ~ShouldStop)

\* How many steps of the main thread there are to come at most when it has a
\* reason to stop.
StepsLeft ==
  CASE pc = "start" -> 6 + N
    [] pc = "post" -> 5 + (N - posted)
    [] pc = "notify" -> 8 + MaxRioResults
    [] pc = "wait" -> 7 + MaxRioResults
    [] pc = "dequeue" -> 6 + MaxRioResults
    [] pc = "process" -> 5 + Len(results)
    [] pc = "check" -> 4
    [] pc = "join" -> 3
    [] pc = "closeSocket" -> 2
    [] pc = "release" -> 1
    [] OTHER -> 0

\* The counter of packets does not wrap around, because no more packets come or
\* because the limit stops the loop before.
CounterInRange ==
  \/ MaxArrivals < TotalMod
  \/ PktsToCount > 0 /\ PktsToCount + MaxRioResults <= TotalMod

\* Once a run has a reason to end, the main thread comes nearer to the end with
\* every step, whatever the others do in between.
StepsRunOut ==
  [][Stopping => StepsLeft' <= StepsLeft /\ (MainThread => StepsLeft' < StepsLeft)]_vars
StepsBounded == StepsLeft \in 0 .. N + MaxRioResults + 8

LEMMA JoinInit == Init => JoinInv
  BY DEF Init, SessionInit, JoinInv

LEMMA JoinNext == JoinInv /\ [Next]_vars => JoinInv'
<1> SUFFICES ASSUME JoinInv, [Next]_vars PROVE JoinInv'
  OBVIOUS
<1> USE DEF JoinInv
<1>1. ASSUME UNCHANGED report, pc # "start", pc # "join",
             pc' \notin {"start", "join", "closeSocket", "release", "done"}
      PROVE  JoinInv'
  BY <1>1
<1>2. ASSUME UNCHANGED <<report, pc>>, ShouldStop' => ShouldStop
      PROVE  JoinInv'
  BY <1>2
<1>3. CASE StartReport
  BY <1>3 DEF StartReport
<1>4. CASE JoinThread \/ CloseSocket \/ ReleaseBuffers
  BY <1>4 DEF JoinThread, CloseSocket, ReleaseBuffers
<1>5. CASE NotifyCompletionQueue \/ WaitForCompletion \/ EndBatch
  <2>1. UNCHANGED report /\ pc \in {"notify", "wait", "process"}
        /\ pc' \in {"wait", "notifyError", "dequeue", "check"}
    BY <1>5 DEF NotifyCompletionQueue, WaitForCompletion, EndBatch
  <2> QED
    BY <1>1, <2>1
<1>6. CASE DequeueResults \/ ProcessExpected \/ ProcessOther
  <2>1. UNCHANGED report /\ pc \in {"dequeue", "process"}
        /\ pc' \in {"check", "process", "requestError"}
    BY <1>6 DEF DequeueResults, ProcessExpected, ProcessOther, RIOReceiveEx
  <2> QED
    BY <1>1, <2>1
<1>7. CASE PostFirstRecv
  <2>1. UNCHANGED report /\ pc = "post" /\ pc' \in {"post", "check", "requestError"}
    BY <1>7 DEF PostFirstRecv, RIOReceiveEx, AfterFirstRecv
  <2> QED
    BY <1>1, <2>1
<1>8. CASE CheckLoop
  <2>1. UNCHANGED report /\ UNCHANGED limitVars /\ pc = "check"
        /\ pc' = IF ~ShouldStop THEN "join" ELSE IF shouldNotify THEN "notify" ELSE "wait"
    BY <1>8 DEF CheckLoop
  <2>2. ShouldStop' <=> ShouldStop
    BY <2>1 DEF limitVars, ShouldStop
  <2> QED
    BY <2>1, <2>2
<1>9. ASSUME NEW g \in Destinations, NEW seq \in Seqs, NEW expected \in BOOLEAN,
             Arrive(g, seq, expected)
      PROVE  JoinInv'
  <2>1. UNCHANGED <<report, pc>> /\ UNCHANGED limitVars
    BY <1>9 DEF Arrive
  <2> QED
    BY <1>2, <2>1 DEF limitVars, ShouldStop
<1>10. CASE ReportThread
  BY <1>10 DEF ReportThread, ReportExits
<1>11. CASE HandlerRoutine \/ TimePasses
  BY <1>2, <1>11 DEF HandlerRoutine, TimePasses, ShouldStop
<1>12. CASE UNCHANGED vars
  BY <1>2, <1>12 DEF vars, sessionVars, limitVars, ShouldStop
<1> QED
  BY <1>3, <1>4, <1>5, <1>6, <1>7, <1>8, <1>9, <1>10, <1>11, <1>12
     DEF Next, MainThread, SessionStep

\* A packet more is counted without a wrap-around.
LEMMA CountedInRange ==
  ASSUME CounterInRange, CoreInv, CountInv, TotalsInv, LimitInv, ProcessExpected \/ ProcessOther
  PROVE  totalPkts \in Nat /\ totalPkts' = totalPkts + 1
<1>1. /\ totalPkts \in 0 .. TotalMod - 1 /\ TotalMod \in Nat \ {0}
      /\ totalPkts' = (totalPkts + 1) % TotalMod
      /\ pc = "process" /\ results # <<>>
  BY SessionAssumption DEF CoreInv, TypeOK, SessionTypeOK, ProcessExpected, ProcessOther,
                           IncrementedTotal
<1>2. Len(results) \in Nat /\ Len(results) > 0
  BY <1>1 DEF CoreInv, TypeOK
<1>3. totalPkts + 1 < TotalMod
  <2>1. CASE MaxArrivals < TotalMod
    <3>1. /\ packetCounter \in Nat /\ otherPacketCounter \in Nat
          /\ Len(completionQueue) \in Nat /\ Len(arrived) \in Nat /\ MaxArrivals \in Nat
      BY ConsumerAssumption DEF CoreInv, TypeOK
    <3>2. packetCounter + otherPacketCounter + 1 <= MaxArrivals
      BY <1>2, <3>1 DEF CountInv
    <3>3. packetCounter + otherPacketCounter \in Nat
      BY <3>1
    <3>4. (packetCounter + otherPacketCounter) % TotalMod <= packetCounter + otherPacketCounter
      BY <1>1, <3>3, ModBelow
    <3>5. totalPkts = (packetCounter + otherPacketCounter) % TotalMod
      BY DEF TotalsInv
    <3>6. totalPkts <= packetCounter + otherPacketCounter
      BY <3>4, <3>5
    <3>7. totalPkts \in Nat /\ TotalMod \in Nat
      BY <1>1
    <3> QED
      BY ONLY <2>1, <3>1, <3>2, <3>6, <3>7
  <2>2. CASE PktsToCount > 0 /\ PktsToCount + MaxRioResults <= TotalMod
    BY <1>1, <1>2, <2>2, SessionAssumption, ConsumerAssumption DEF LimitInv
  <2> QED
    BY <2>1, <2>2 DEF CounterInRange
<1>4. (totalPkts + 1) % TotalMod = totalPkts + 1
  BY <1>1, <1>3, ModSmall
<1> QED
  BY <1>1, <1>4

\* Without a wrap-around m_TotalPkts is the number of packets that were processed.
Unwrapped == totalPkts = packetCounter + otherPacketCounter

LEMMA UnwrappedInit == Init => Unwrapped
  BY DEF Init, SessionInit, Unwrapped

LEMMA UnwrappedNext ==
  ASSUME CounterInRange
  PROVE  CoreInv /\ CountInv /\ TotalsInv /\ LimitInv /\ Unwrapped /\ [Next]_vars => Unwrapped'
<1> SUFFICES ASSUME CoreInv, CountInv, TotalsInv, LimitInv, Unwrapped, [Next]_vars
             PROVE  Unwrapped'
  OBVIOUS
<1>0. packetCounter \in Nat /\ otherPacketCounter \in Nat
  BY DEF CoreInv, TypeOK
<1>1. ASSUME UNCHANGED <<totalPkts, packetCounter, otherPacketCounter>>
      PROVE  Unwrapped'
  BY <1>1 DEF Unwrapped
<1>2. CASE PostFirstRecv \/ DequeueResults
  BY <1>1, <1>2 DEF PostFirstRecv, DequeueResults, limitVars, countVars
<1>3. CASE ProcessExpected \/ ProcessOther
  <2>1. totalPkts' = totalPkts + 1
    BY <1>3, CountedInRange
  <2>2. \/ packetCounter' = packetCounter + 1 /\ otherPacketCounter' = otherPacketCounter
        \/ packetCounter' = packetCounter /\ otherPacketCounter' = otherPacketCounter + 1
    BY <1>3 DEF ProcessExpected, ProcessOther
  <2> QED
    BY <1>0, <2>1, <2>2 DEF Unwrapped
<1>4. ASSUME NEW g \in Destinations, NEW seq \in Seqs, NEW expected \in BOOLEAN,
             Arrive(g, seq, expected)
      PROVE  Unwrapped'
  BY <1>1, <1>4 DEF Arrive, limitVars, countVars
<1>5. CASE Quiet
  BY <1>1, <1>5, QuietEffect, QuietTotal
<1> QED
  BY <1>2, <1>3, <1>4, <1>5, NextSplits

LEMMA StopStep ==
  ASSUME CounterInRange, CoreInv, CountInv, TotalsInv, LimitInv, Stopping, [Next]_vars
  PROVE  Stopping'
<1>1. totalPkts \in Nat /\ timeUp \in BOOLEAN /\ exitSignal \in BOOLEAN
  BY DEF CoreInv, TypeOK, SessionTypeOK
<1>2. ASSUME exitSignal' = exitSignal, totalPkts' = totalPkts, timeUp => timeUp'
      PROVE  Stopping'
  BY <1>2 DEF Stopping, ShouldStop
<1>3. CASE StartReport
  <2>1. totalPkts = 0
    <3>1. pc = "start" /\ packetCounter = 0 /\ otherPacketCounter = 0
      <4>1. pc = "start"
        BY <1>3 DEF StartReport
      <4>2. Outstanding + Len(results) + otherPacketCounter = 0 /\ packetCounter = 0
        BY <4>1 DEF CoreInv, ReceiveInv, CountInv
      <4>3. Outstanding \in Nat /\ Len(results) \in Nat /\ otherPacketCounter \in Nat
        BY Lengths DEF CoreInv, Outstanding, TypeOK
      <4> QED
        BY <4>1, <4>2, <4>3
    <3>2. totalPkts = 0 % TotalMod
      BY <3>1 DEF TotalsInv
    <3>3. TotalMod \in Nat \ {0}
      BY SessionAssumption
    <3> QED
      BY <3>2, <3>3, ModSmall
  <2> QED
    BY <1>3, <2>1 DEF StartReport, Stopping
<1>4. CASE NotifyCompletionQueue \/ JoinThread \/ CloseSocket \/ ReleaseBuffers
  BY <1>2, <1>4 DEF NotifyCompletionQueue, JoinThread, CloseSocket, ReleaseBuffers, limitVars
<1>5. CASE PostFirstRecv \/ CheckLoop \/ WaitForCompletion \/ EndBatch
  BY <1>2, <1>5 DEF PostFirstRecv, CheckLoop, WaitForCompletion, EndBatch, limitVars
<1>6. CASE DequeueResults
  <2>1. exitSignal' = exitSignal /\ totalPkts' = totalPkts
        /\ (timeUp' = timeUp \/ totalPkts = 0)
    BY <1>6 DEF DequeueResults, ClockAtResults
  <2> QED
    BY <1>2, <2>1 DEF Stopping
<1>7. CASE ProcessExpected \/ ProcessOther
  <2>1. exitSignal' = exitSignal /\ timeUp' = timeUp
    BY <1>7 DEF ProcessExpected, ProcessOther
  <2>2. totalPkts' = totalPkts + 1
    BY <1>7, CountedInRange
  <2> QED
    BY <1>1, <2>1, <2>2, SessionAssumption DEF Stopping, ShouldStop
<1>8. ASSUME NEW g \in Destinations, NEW seq \in Seqs, NEW expected \in BOOLEAN,
             Arrive(g, seq, expected)
      PROVE  Stopping'
  BY <1>2, <1>8 DEF Arrive, limitVars
<1>9. CASE ReportThread \/ TimePasses \/ UNCHANGED vars
  BY <1>2, <1>9 DEF ReportThread, ReportExits, TimePasses, limitVars, vars, sessionVars
<1>10. CASE HandlerRoutine
  BY <1>10 DEF HandlerRoutine, Stopping
<1> QED
  BY <1>3, <1>4, <1>5, <1>6, <1>7, <1>8, <1>9, <1>10 DEF Next, MainThread, SessionStep

\* A batch is never larger than the array it is dequeued into.
BatchInv == Len(results) <= MaxRioResults

LEMMA BatchInit == Init => BatchInv
  BY ConsumerAssumption DEF Init, BatchInv

LEMMA BatchNext == CoreInv /\ BatchInv /\ [Next]_vars => BatchInv'
<1> SUFFICES ASSUME CoreInv, BatchInv, [Next]_vars PROVE BatchInv'
  OBVIOUS
<1>1. CASE DequeueResults
  <2>1. results' = Dequeued(MaxRioResults) /\ RIODequeueCompletion(MaxRioResults)
    BY <1>1 DEF DequeueResults
  <2> QED
    BY <2>1, DequeueSplits, ConsumerAssumption DEF CoreInv, TypeOK, BatchInv
<1>2. CASE ProcessExpected \/ ProcessOther
  <2>1. results # <<>> /\ results' = Tail(results) /\ results \in Seq(Completion)
    BY <1>2 DEF CoreInv, TypeOK, ProcessExpected, ProcessOther
  <2>2. Len(results) \in Nat /\ Len(results') = Len(results) - 1
    BY <2>1, HeadTailProperties
  <2> QED
    BY <2>2, ConsumerAssumption DEF BatchInv
<1>3. CASE PostFirstRecv \/ Quiet
  <2>1. results' = results
    BY <1>3, PostEffect, QuietEffect
  <2> QED
    BY <2>1 DEF BatchInv
<1>4. ASSUME NEW g \in Destinations, NEW seq \in Seqs, NEW expected \in BOOLEAN,
             Arrive(g, seq, expected)
      PROVE  BatchInv'
  <2>1. results' = results
    BY <1>4, ArriveEffect
  <2> QED
    BY <2>1 DEF BatchInv
<1> QED
  BY <1>1, <1>2, <1>3, <1>4, NextSplits

LEMMA StepsAreBounded == CoreInv /\ BatchInv => StepsBounded
<1> SUFFICES ASSUME CoreInv, BatchInv PROVE StepsBounded
  OBVIOUS
<1>1. /\ posted \in 0 .. N /\ Len(results) \in Nat /\ Len(results) <= MaxRioResults
      /\ N \in Nat \ {0} /\ MaxRioResults \in Nat \ {0}
  BY ConsumerAssumption DEF CoreInv, TypeOK, BatchInv
<1>2. StepsLeft \in Nat /\ StepsLeft <= N + MaxRioResults + 8
  <2>1. CASE pc \in {"start", "post"}
    BY <1>1, <2>1 DEF StepsLeft
  <2>2. CASE pc \in {"notify", "wait", "dequeue", "process"}
    BY <1>1, <2>2 DEF StepsLeft
  <2>3. CASE pc \notin {"start", "post", "notify", "wait", "dequeue", "process"}
    <3>1. StepsLeft \in 0 .. 4
      BY <2>3 DEF StepsLeft
    <3> QED
      BY <1>1, <3>1
  <2> QED
    BY <2>1, <2>2, <2>3
<1> QED
  BY <1>1, <1>2 DEF StepsBounded

\* The main thread, when it has a reason to stop.
LEMMA StepsOfMain ==
  ASSUME CoreInv, BatchInv', Stopping, MainThread
  PROVE  StepsLeft' < StepsLeft
<1>1. /\ posted \in 0 .. N /\ Len(results) \in Nat
      /\ N \in Nat \ {0} /\ MaxRioResults \in Nat \ {0}
  BY ConsumerAssumption DEF CoreInv, TypeOK
<1>2. CASE SessionStep /\ UNCHANGED consumerVars
  <2>1. \/ pc = "start" /\ pc' = "post"
        \/ pc = "notify" /\ pc' \in {"wait", "notifyError"}
        \/ pc = "join" /\ pc' = "closeSocket"
        \/ pc = "closeSocket" /\ pc' = "release"
        \/ pc = "release" /\ pc' = "done"
    BY <1>2 DEF SessionStep, StartReport, NotifyCompletionQueue, JoinThread, CloseSocket,
                ReleaseBuffers
  <2>2. posted' = posted
    BY <1>2 DEF consumerVars
  <2> QED
    BY <1>1, <2>1, <2>2 DEF StepsLeft
<1>3. CASE PostFirstRecv
  <2>1. /\ pc = "post" /\ posted < N /\ posted' = posted + 1
        /\ pc' = IF posted + 1 = N THEN "check" ELSE "post"
    BY <1>3, PostEffect
  <2> QED
    BY <1>1, <2>1 DEF StepsLeft
<1>4. CASE CheckLoop
  <2>1. pc = "check" /\ (exitSignal \/ ~ShouldStop => pc' = "join")
    BY <1>4 DEF CheckLoop, ShouldStop
  <2> QED
    BY <2>1 DEF StepsLeft, Stopping
<1>5. CASE WaitForCompletion
  <2>1. pc = "wait" /\ pc' = "dequeue"
    BY <1>5 DEF WaitForCompletion
  <2> QED
    BY <1>1, <2>1 DEF StepsLeft
<1>6. CASE DequeueResults
  <2>1. pc = "dequeue" /\ pc' \in {"check", "process"}
        /\ results' = Dequeued(MaxRioResults) /\ RIODequeueCompletion(MaxRioResults)
    BY <1>6 DEF DequeueResults
  <2>2. Len(results') \in Nat /\ Len(results') <= MaxRioResults
    BY <2>1, DequeueSplits, ConsumerAssumption DEF CoreInv, TypeOK
  <2> QED
    BY <1>1, <2>1, <2>2 DEF StepsLeft
<1>7. CASE ProcessExpected \/ ProcessOther
  <2>1. /\ pc = "process" /\ pc' = "process" /\ results # <<>> /\ results' = Tail(results)
    BY <1>7, ExpectedEffect DEF ProcessOther
  <2>2. Len(results') = Len(results) - 1
    BY <2>1, HeadTailProperties DEF CoreInv, TypeOK
  <2> QED
    BY <1>1, <2>1, <2>2 DEF StepsLeft
<1>8. CASE EndBatch
  <2>1. pc = "process" /\ pc' = "check" /\ Len(results) = 0
    BY <1>8 DEF EndBatch
  <2> QED
    BY <2>1 DEF StepsLeft
<1> QED
  BY <1>2, <1>3, <1>4, <1>5, <1>6, <1>7, <1>8 DEF MainThread

\* Nobody else takes the main thread back.
LEMMA StepsOfOthers ==
  ASSUME CoreInv, [Next]_vars, ~MainThread
  PROVE  StepsLeft' = StepsLeft
<1>1. CASE ReportThread \/ ((HandlerRoutine \/ TimePasses) /\ UNCHANGED consumerVars)
  BY <1>1 DEF ReportThread, ReportExits, HandlerRoutine, TimePasses, consumerVars, StepsLeft
<1>2. ASSUME NEW g \in Destinations, NEW seq \in Seqs, NEW expected \in BOOLEAN,
             Arrive(g, seq, expected)
      PROVE  StepsLeft' = StepsLeft
  <2>1. UNCHANGED <<pc, posted, results>>
    BY <1>2, ArriveEffect
  <2> QED
    BY <2>1 DEF StepsLeft
<1>3. CASE UNCHANGED vars
  BY <1>3 DEF vars, sessionVars, consumerVars, StepsLeft
<1> QED
  BY <1>1, <1>2, <1>3 DEF Next

-----------------------------------------------------------------------------
(* The theorems *)

\* The inductive core: types, and the conservation of receives.
THEOREM CoreInvariance == Spec => []CoreInv
  BY CoreInit, CoreNext, PTL DEF Spec

\* Every variable keeps its type; in particular every address slot and buffer
\* index stays inside the registered memory (RioConsumer.cpp:77-154).
THEOREM TypeCorrect == Spec => []TypeOK
<1>1. CoreInv => TypeOK
  BY DEF CoreInv
<1> QED
  BY CoreInvariance, <1>1, PTL

\* RIOReceiveEx never finds the request queue full, for any number of receives
\* and any mix of results (RioConsumer.cpp:87, :140).
THEOREM ReceiveNeverRefused == Spec => []ReceivesConserved
<1>1. CoreInv => ReceivesConserved
  BY DEF CoreInv, ReceiveInv, ReceivesConserved
<1> QED
  BY CoreInvariance, <1>1, PTL

\* The inductive invariant of the notifications.
THEOREM WakeInvariance == Spec => [](WakeInv /\ NotificationInv)
<1>1. Init => WakeInv /\ NotificationInv
  BY LayersInit
<1>2. CoreInv /\ (WakeInv /\ NotificationInv) /\ [Next]_vars => (WakeInv /\ NotificationInv)'
  BY WakeNext
<1> QED
  BY CoreInvariance, <1>1, <1>2, PTL DEF Spec

\* The loop never sleeps without a notification to come (RioConsumer.cpp:110-116).
THEOREM WakeupNotLost == Spec => []NoLostWakeup
<1>1. CoreInv /\ WakeInv => NoLostWakeup
  BY EmptyOrNot DEF CoreInv, WakeInv, NoLostWakeup
<1> QED
  BY CoreInvariance, WakeInvariance, <1>1, PTL

\* At most one notification that the loop has outrun waits on the port besides
\* the current one (RioConsumer.cpp:113-119).
THEOREM NotificationBound == Spec => []NotificationsBounded
<1>1. NotificationInv => NotificationsBounded
  BY DEF NotificationInv
<1> QED
  BY WakeInvariance, <1>1, PTL

\* The buffers outlive the socket (RioSession.cpp:150-155).
THEOREM ReleaseOrder == Spec => []NoWriteAfterRelease
<1>1. Init => ReleaseInv
  BY LayersInit
<1>2. ReleaseInv => NoWriteAfterRelease
  BY DEF ReleaseInv, NoWriteAfterRelease
<1> QED
  BY ReleaseNext, <1>1, <1>2, PTL DEF Spec

\* Where every datagram is, and what the slot index counts (RioConsumer.cpp:129-150).
THEOREM CountInvariance == Spec => []CountInv
  BY CoreInvariance, CountInit, CountNext, PTL DEF Spec

\* The two local counters, m_TotalPkts and the statistics of all groups together
\* agree after every packet, whatever arrives (RioConsumer.cpp:130-147, :185).
THEOREM CountersAgree == Spec => []CountsAgree
<1>1. CountInv /\ TotalsInv => CountsAgree
  BY DEF CountInv, TotalsInv, CountsAgree, PacketCounts
<1> QED
  BY CoreInvariance, CountInvariance, TotalsInit, TotalsNext, <1>1, PTL DEF Spec

\* The slots go round in the order of the datagrams, whatever arrives, as long
\* as the 32-bit index comes round with them (RioConsumer.cpp:133-144).
THEOREM SlotInvariance ==
  ASSUME SlotsInStep
  PROVE  Spec => []SlotInv
<1>1. CoreInv /\ CountInv /\ SlotInv /\ [Next]_vars => SlotInv'
  BY SlotNext
<1> QED
  BY CoreInvariance, CountInvariance, SlotInit, <1>1, PTL DEF Spec

\* The data buffers in flight are all different, whatever comes first
\* (RioConsumer.cpp:129-141).
THEOREM BufInvariance == Spec => []BufInv
  BY CoreInvariance, BufInit, BufNext, PTL DEF Spec

\* No two receives can write the same memory, for any number of receives
\* (RioConsumer.cpp:129-141).
THEOREM ReceivesNotAliased ==
  ASSUME SlotsInStep
  PROVE  Spec => []NoAliasedReceives
<1>1. CoreInv /\ CountInv /\ SlotInv /\ BufInv => NoAliasedReceives
  BY NoneAliased
<1> QED
  BY CoreInvariance, CountInvariance, SlotInvariance, BufInvariance, <1>1, PTL

\* The consumer is a packet sink for every number of receives and batch size
\* and every mix of results (RioConsumer.cpp:109-150).
THEOREM SinkRefinement ==
  ASSUME SlotsInStep
  PROVE  Spec => ImplementsSink
<1>1. CoreInv /\ CountInv /\ SlotInv /\ [Next]_vars => [Sink!Next]_Sink!vars
  BY SinkNext
<1> QED
  BY CoreInvariance, CountInvariance, SlotInvariance, SinkInit, <1>1, PTL
     DEF Spec, ImplementsSink, Sink!Spec

\* As long as the slot index stays in step, what index_wrap finds violated is true: the
\* k-th datagram counted is counted for the destination of the k-th one taken,
\* whatever batches, timeouts and results of another size come between
\* (RioConsumer.cpp:133-137, :144).
THEOREM AttributionInOrder ==
  ASSUME SlotsInStep
  PROVE  Spec => AttributionLag
<1>1. CoreInv /\ CountInv /\ SlotInv /\ [Next]_vars =>
        [packetCounter' # packetCounter =>
           LET g == arrived[packetCounter']
           IN  g \in DOMAIN groupStats' /\ groupStats'[g].Packets = PacketsOf(g) + 1]_vars
  BY CreditedInOrder
<1> QED
  BY CoreInvariance, CountInvariance, SlotInvariance, <1>1, PTL DEF Spec, AttributionLag

\* So the statistics of a destination are the number of datagrams that came for
\* it, among as many as were counted: all those processed, until one of
\* another size is (RioConsumer.cpp:129-150, :156-187).
THEOREM StatisticsOfOwn ==
  ASSUME SlotsInStep
  PROVE  Spec => []CreditInv
  BY CreditInit, CreditNext, CoreInvariance, CountInvariance, SlotInvariance, PTL DEF Spec

\* The two threads never wait for each other (RioConsumer.cpp:109, :151,
\* RioSession.cpp:237-262).
THEOREM JoinAnswered == Spec => []JoinIsAnswered
<1>1. JoinInv /\ CoreInv => JoinIsAnswered
  BY DEF JoinInv, JoinIsAnswered, CoreInv, TypeOK, SessionTypeOK
<1> QED
  BY CoreInvariance, JoinInit, JoinNext, <1>1, PTL DEF Spec

\* A run processes less than a batch more than its packet limit, where the counter
\* has room for both (RioConsumer.cpp:109, :131).
THEOREM OvershootBound ==
  ASSUME CounterInRange
  PROVE  Spec => []LimitOvershoot
<1>1. LimitInv /\ Unwrapped => LimitOvershoot
  BY DEF LimitInv, Unwrapped, LimitOvershoot
<1>2. Init => LimitInv
  BY LayersInit
<1> QED
  BY CoreInvariance, CountInvariance, TotalsInit, TotalsNext, LimitNext, UnwrappedInit,
     UnwrappedNext, <1>1, <1>2, PTL DEF Spec

\* A limit that was reached is not forgotten, although the first results start the
\* clock again and the counter is a 32-bit one (RioConsumer.cpp:109, :125,
\* RioSession.cpp:237-254).
THEOREM StopStays ==
  ASSUME CounterInRange
  PROVE  Spec => StopIsFinal
<1>1. CoreInv /\ CountInv /\ TotalsInv /\ LimitInv /\ [Next]_vars => [Stopping => Stopping']_vars
  BY StopStep
<1>2. Init => LimitInv
  BY LayersInit
<1> QED
  BY CoreInvariance, CountInvariance, TotalsInit, TotalsNext, LimitNext, <1>1, <1>2, PTL
     DEF Spec, StopIsFinal

\* After Ctrl-C, or once a limit is reached, the main thread is never further from
\* the end than a batch and the steps around it, or the first receives it has
\* still to post; nothing that datagrams, notifications and timeouts do takes it
\* back (RioConsumer.cpp:84-92, :106-153).
THEOREM StopIsQuick == Spec => StepsRunOut /\ []StepsBounded
<1>1. CoreInv /\ BatchInv /\ [Next]_vars => BatchInv'
  BY BatchNext
<1>2. StepsBounded /\ StepsBounded' /\ CoreInv /\ BatchInv /\ [Next]_vars =>
        [Stopping => StepsLeft' <= StepsLeft /\ (MainThread => StepsLeft' < StepsLeft)]_vars
  <2> SUFFICES ASSUME StepsBounded, StepsBounded', CoreInv, BatchInv, Next, Stopping
               PROVE  StepsLeft' <= StepsLeft /\ (MainThread => StepsLeft' < StepsLeft)
    OBVIOUS
  <2>1. StepsLeft \in Nat /\ StepsLeft' \in Nat
    BY ConsumerAssumption DEF StepsBounded
  <2>2. CASE MainThread
    <3>1. StepsLeft' < StepsLeft
      BY <2>2, BatchNext, StepsOfMain
    <3> QED
      BY <2>1, <3>1
  <2>3. CASE ~MainThread
    BY <2>1, <2>3, StepsOfOthers
  <2> QED
    BY <2>2, <2>3
<1> QED
  BY CoreInvariance, BatchInit, StepsAreBounded, <1>1, <1>2, PTL DEF Spec, StepsRunOut
=============================================================================
