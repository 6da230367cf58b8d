---------------------------- MODULE RioProducer -----------------------------
(***************************************************************************)
(* The producer: RioProducer::Start on the main thread, SpinWorker as far  *)
(* as the main thread depends on it, and the network adapter.              *)
(*                                                                         *)
(* There are PacketRate packets in registered memory and one descriptor    *)
(* for every packet and group: numGroups descriptors share a packet, which *)
(* the adapter may read at any moment between the send and its completion. *)
(* The pauses of utilities::spin change no state and are left out.         *)
(***************************************************************************)
EXTENDS RioSession, Integers, FiniteSets, FiniteSetsExt

CONSTANTS
  PacketRate,   \* --pps: the number of packets in memory
  GroupCounts   \* the numbers of groups that --mcast_ip may give

ASSUME ProducerAssumption ==
  PacketRate \in Nat \ {0} /\ GroupCounts \subseteq Nat \ {0}

VARIABLES
  numGroups,        \* m_NumberOfMcGroups, fixed when the session is made
  posted,           \* loop index of PostFirstSend
  results,          \* what RIODequeueCompletion returned, not yet processed
  batchIndex,       \* loop index over the results of a batch
  groupCounter,
  sequenceNumber,
  payload,          \* m_RioBuffPtr: the sequence number in each packet
  onWire,           \* requests at the head of the queue that the adapter has read
  wire              \* history: what the adapter sent, in order

loopVars == <<batchIndex, groupCounter, sequenceNumber>>
adapterVars == <<onWire, wire>>
producerVars == <<numGroups, posted, results, loopVars, payload, adapterVars>>
vars == <<sessionVars, producerVars>>

GroupIndices == 0 .. numGroups - 1
Packets == 0 .. PacketRate - 1
MaxOutstandingSend == PacketRate * numGroups
Descriptors == 0 .. MaxOutstandingSend - 1

\* The packet that descriptor d sends: PostFirstSend gives it to numGroups in a row.
PacketOfByColumns(d) == d % PacketRate
PacketOf(d) == d \div numGroups

Init ==
  /\ numGroups \in GroupCounts
  /\ SessionInit(GroupIndices)
  /\ posted = 0 /\ results = <<>>
  /\ batchIndex = 0 /\ groupCounter = 0 /\ sequenceNumber = 0
  /\ payload = [b \in Packets |-> 0]
  /\ onWire = 0 /\ wire = <<>>

-----------------------------------------------------------------------------
(* The main thread *)

\* RIOSendEx with descriptor d to group g; `next` is where the caller goes on.
RIOSendEx(d, g, next) ==
  IF Outstanding < MaxOutstandingSend
    THEN PostRequest([desc |-> d, group |-> g]) /\ pc' = next
    ELSE pc' = "requestError" /\ UNCHANGED rioVars

\* A packet sent to group g is counted.
CountSendByCounter(g) ==
  /\ totalPkts' = IncrementedTotal
  /\ SetStats(groupCounter, ProducerStatsUpdate(StatsOf(groupCounter)))
CountSend(g) ==
  /\ totalPkts' = IncrementedTotal
  /\ SetStats(g, ProducerStatsUpdate(StatsOf(g)))

\* The first loop of PostFirstSend: the packets are numbered.
FillPackets ==
  /\ pc = "post" /\ posted = 0 /\ sequenceNumber = 0
  /\ payload' = [b \in Packets |-> b]
  /\ sequenceNumber' = PacketRate
  /\ UNCHANGED <<sessionVars, numGroups, posted, results, batchIndex, groupCounter, adapterVars>>

\* One turn of its second loop.  Its groupCounter only paces the sends.
AfterFirstSendOffByOne(i) == IF i = MaxOutstandingSend THEN "check" ELSE "post"
AfterFirstSend(i) == IF i + 1 = MaxOutstandingSend THEN "check" ELSE "post"

PostFirstSend ==
  /\ pc = "post" /\ sequenceNumber > 0
  /\ RIOSendEx(posted, posted % numGroups, AfterFirstSend(posted))
  /\ CountSend(posted % numGroups)
  /\ posted' = posted + 1
  /\ UNCHANGED <<exitSignal, timeUp, report, resourceVars, numGroups, results, loopVars,
                 payload, adapterVars>>

\* while (ShouldStop())
CheckLoop ==
  /\ pc = "check"
  /\ pc' = IF ShouldStop THEN "notify" ELSE "join"
  /\ UNCHANGED <<rioVars, limitVars, groupStats, report, resourceVars, producerVars>>

\* GetQueuedCompletionStatus with INFINITE.
WaitTimesOut ==
  /\ pc = "wait" /\ pc' = "dequeue"
  /\ TakeNotification \/ UNCHANGED rioVars
  /\ UNCHANGED <<limitVars, groupStats, report, resourceVars, producerVars>>

WaitForCompletion ==
  /\ pc = "wait"
  /\ TakeNotification /\ pc' = "dequeue"
  /\ UNCHANGED <<limitVars, groupStats, report, resourceVars, producerVars>>

DequeueResults ==
  /\ pc = "dequeue"
  /\ results' = Dequeued(MaxOutstandingSend)
  /\ RIODequeueCompletion(MaxOutstandingSend)
  /\ batchIndex' = 0
  /\ pc' = IF completionQueue = <<>> THEN "dequeueError" ELSE "process"
  /\ UNCHANGED <<limitVars, groupStats, report, resourceVars, numGroups, posted, groupCounter,
                 sequenceNumber, payload, adapterVars>>

\* nextAddr: the group that the next result's packet is sent to.
NextGroupOffByOne == (batchIndex + 1) % numGroups
NextGroup == batchIndex % numGroups

\* groupCounter = (groupCounter + 1) % m_NumberOfMcGroups
NextGroupCounterUnwrapped == groupCounter + 1
NextGroupCounter == (groupCounter + 1) % numGroups

\* sequenceNumber++ once every group had its turn.
NextSequenceEarly == IF groupCounter = 0 THEN sequenceNumber + 1 ELSE sequenceNumber
NextSequence == IF NextGroupCounter = 0 THEN sequenceNumber + 1 ELSE sequenceNumber

\* The packet of a completed send is renumbered and sent again.
ProcessResult ==
  /\ pc = "process" /\ results # <<>>
  /\ payload' = [payload EXCEPT ![PacketOf(Head(results))] = sequenceNumber]
  /\ RIOSendEx(Head(results), NextGroup, "process")
  /\ CountSend(NextGroup)
  /\ groupCounter' = NextGroupCounter
  /\ sequenceNumber' = NextSequence
  /\ batchIndex' = batchIndex + 1
  /\ results' = Tail(results)
  /\ UNCHANGED <<exitSignal, timeUp, report, resourceVars, numGroups, posted, adapterVars>>

EndBatch ==
  /\ pc = "process" /\ results = <<>>
  /\ pc' = "check"
  /\ UNCHANGED <<rioVars, limitVars, groupStats, report, resourceVars, producerVars>>

MainThread ==
  \/ SessionStep /\ UNCHANGED producerVars
  \/ FillPackets \/ PostFirstSend \/ CheckLoop \/ WaitForCompletion \/ DequeueResults
  \/ ProcessResult \/ EndBatch

-----------------------------------------------------------------------------
(* The network adapter, and the complete system *)

\* The adapter reads the packet of the next request and sends it.
Transmit ==
  /\ ~Failed /\ socketOpen /\ onWire < Len(requestQueue)
  /\ LET request == requestQueue[onWire + 1]
     IN  wire' = Append(wire, [group |-> request.group, seq |-> payload[PacketOf(request.desc)]])
  /\ onWire' = onWire + 1
  /\ UNCHANGED <<sessionVars, numGroups, posted, results, loopVars, payload>>

\* The oldest send completes; the completion names its descriptor.
SendCompletes ==
  /\ ~Failed /\ socketOpen /\ onWire > 0
  /\ CompleteRequest(Head(requestQueue).desc)
  /\ onWire' = onWire - 1
  /\ UNCHANGED <<limitVars, groupStats, pc, report, resourceVars, numGroups, posted, results,
                 loopVars, payload, wire>>

Adapter == Transmit \/ SendCompletes

SpinThread == ReportExits /\ UNCHANGED producerVars

Next ==
  \/ MainThread
  \/ SpinThread
  \/ Adapter
  \/ (HandlerRoutine \/ TimePasses) /\ UNCHANGED producerVars

Spec == Init /\ [][Next]_vars

\* Both threads are scheduled, and what is sent is sent and completes.
FairSpec == Spec /\ WF_vars(MainThread) /\ WF_vars(SpinThread) /\ WF_vars(Adapter)

-----------------------------------------------------------------------------
(* Properties *)

Request == [desc : Descriptors, group : GroupIndices]

TypeOK ==
  /\ SessionTypeOK
  /\ numGroups \in GroupCounts
  /\ DOMAIN groupStats = GroupIndices
  /\ requestQueue \in Seq(Request)
  /\ completionQueue \in Seq(Descriptors) /\ results \in Seq(Descriptors)
  /\ posted \in 0 .. MaxOutstandingSend
  /\ batchIndex \in Nat /\ groupCounter \in GroupIndices /\ sequenceNumber \in Nat
  /\ payload \in [Packets -> Nat]
  /\ onWire \in Nat /\ wire \in Seq([group : GroupIndices, seq : Nat])

\* The request queue is created for MaxOutstandingSend sends and never refuses
\* one: every result in hand frees the place its packet is sent from again
\* (RioProducer.cpp:83, :138).
SendsConserved ==
  pc # "requestError" /\ Outstanding + Len(results) = posted

\* The wait without a timeout is answered, and only with completions to
\* process: the notification on the port stands for a queue that is not empty,
\* and a pending one for a send that has not completed.  So neither RIONotify
\* nor RIODequeueCompletion ends the process (RioProducer.cpp:117-128).
InfiniteWaitIsAnswered ==
  /\ pc \notin {"notifyError", "dequeueError"}
  /\ pc = "wait" => \/ ~armed /\ iocp = 1 /\ completionQueue # <<>>
                    \/ armed /\ iocp = 0 /\ completionQueue = <<>> /\ requestQueue # <<>>

\* sequenceNumber and groupCounter, which know nothing of the batches, count
\* the sends in base numGroups (RioProducer.cpp:144-147).
RotationExact ==
  pc \notin {"start", "post"} =>
    totalPkts = (numGroups * sequenceNumber + groupCounter) % TotalMod

\* numGroups descriptors share a packet, which is rewritten for the first of them
\* while sends of the others are outstanding.  Counted from 0, the k-th send on the
\* wire carries its own sequence number, k \div numGroups; a send that is not the
\* first of its packet may instead carry the number of the packet's next round.
\* No other number ever goes out.  Which group it goes to is not claimed here
\* (RioProducer.cpp:66-79, :131-147).
WireSequence ==
  \A i \in 1 .. Len(wire) :
    LET own == (i - 1) \div numGroups
    IN  \/ wire[i].seq = own
        \/ (i - 1) % numGroups # 0 /\ wire[i].seq = own + PacketRate

OnWireTo(g) == Cardinality({k \in 1 .. Len(wire) : wire[k].group = g})
InQueueTo(g) == Cardinality({k \in onWire + 1 .. Len(requestQueue) : requestQueue[k].group = g})

\* What the statistics count as sent to a group has gone to that group or
\* waits in the request queue to go there (RioProducer.cpp:143-144, :206-215).
SendsAccounted ==
  \A g \in GroupIndices : groupStats[g].Packets = OnWireTo(g) + InQueueTo(g)

\* The address starts again with the first group in every batch: a group never
\* gets more packets than one before it (RioProducer.cpp:136).
EarlierGroupsNotBehind ==
  \A g, h \in GroupIndices : g < h => groupStats[g].Packets >= groupStats[h].Packets

\* The packet limit is only looked at between batches: a run goes past it by
\* less than MaxOutstandingSend (RioProducer.cpp:116, RioSession.cpp:241).
LimitOvershoot == PktsToCount > 0 => totalPkts < PktsToCount + MaxOutstandingSend

\* "Send the same packet for each Multicast Group" (RioProducer.cpp:82): every
\* sequence number goes once to each group.
SamePacketForEachGroup ==
  \A j, k \in 1 .. Len(wire) :
    j # k /\ wire[j].seq = wire[k].seq => wire[j].group # wire[k].group

\* Once the user, the limit or the clock says so, the run ends, although the
\* main thread waits for completions without a timeout (RioProducer.cpp:116-154).
StopEndsRun == exitSignal \/ ~ShouldStop ~> pc = "done"
=============================================================================
