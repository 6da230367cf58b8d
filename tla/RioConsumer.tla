---------------------------- MODULE RioConsumer -----------------------------
(***************************************************************************)
(* The consumer: RioConsumer::Start on the main thread, the report thread  *)
(* as far as the main thread depends on it, and the datagrams the network  *)
(* delivers.                                                               *)
(*                                                                         *)
(* Every receive names two pieces of registered memory: a data buffer, for *)
(* the payload, and an address slot, where RIO stores the destination the  *)
(* datagram was sent to.  The completion gives back the data buffer; which *)
(* slot belongs to it is the program's own bookkeeping, mcAddrDescrIndex.  *)
(***************************************************************************)
EXTENDS RioSession, FiniteSets, Functions

CONSTANTS
  Groups,           \* the multicast groups given with --mcast_ip
  Strays,           \* other destinations the bound socket gets datagrams for
  Seqs,             \* sequence numbers the datagrams carry
  N,                \* m_MaxOutstandingReceive = MAX_PENDING_RECVS
  MaxRioResults,    \* MAX_RIO_RESULTS
  IndexMod,         \* range of the ULONG mcAddrDescrIndex: 2^32 in the code
  MaxArrivals       \* bound of the model: datagrams that arrive in a run

ASSUME ConsumerAssumption ==
  /\ N \in Nat \ {0}
  /\ MaxRioResults \in Nat \ {0}
  /\ IndexMod \in Nat \ {0}
  /\ MaxArrivals \in Nat
  /\ IsFiniteSet(Groups)
  /\ Seqs \subseteq 0 .. SeqMod - 1

Destinations == Groups \cup Strays
NoAddress == "0.0.0.0"  \* fresh memory is zeroed
Cells == 0 .. N - 1     \* indices of the data buffers and of the address slots

VARIABLES
  posted,             \* loop index of PostFirstRecvs
  shouldNotify,
  results,            \* what RIODequeueCompletion returned, not yet processed
  mcAddrDescrIndex,
  packetCounter,
  otherPacketCounter,
  payload,            \* m_RioBuffPtr: the sequence number in each data buffer
  mcAddr,             \* m_McAddrBuffPtr: the destination in each address slot
  arrived             \* history: destinations of the datagrams RIO took, in order

countVars == <<mcAddrDescrIndex, packetCounter, otherPacketCounter>>
memoryVars == <<payload, mcAddr>>
consumerVars == <<posted, shouldNotify, results, countVars, memoryVars, arrived>>
vars == <<sessionVars, consumerVars>>

Init ==
  /\ SessionInit(Groups)
  /\ posted = 0 /\ shouldNotify = TRUE /\ results = <<>>
  /\ mcAddrDescrIndex = 0 /\ packetCounter = 0 /\ otherPacketCounter = 0
  /\ payload = [b \in Cells |-> 0] /\ mcAddr = [s \in Cells |-> NoAddress]
  /\ arrived = <<>>

-----------------------------------------------------------------------------
(* The main thread *)

\* RIOReceiveEx on buffer b and slot s; `next` is where the caller goes on.
RIOReceiveEx(b, s, next) ==
  IF Outstanding < N
    THEN PostRequest([buf |-> b, slot |-> s]) /\ pc' = next
    ELSE pc' = "requestError" /\ UNCHANGED rioVars

\* One turn of the loop of PostFirstRecvs.
AfterFirstRecvOffByOne(i) == IF i = N THEN "check" ELSE "post"
AfterFirstRecv(i) == IF i + 1 = N THEN "check" ELSE "post"

PostFirstRecv ==
  /\ pc = "post"
  /\ RIOReceiveEx(posted, posted, AfterFirstRecv(posted))
  /\ posted' = posted + 1
  /\ UNCHANGED <<limitVars, groupStats, report, resourceVars, shouldNotify, results,
                 countVars, memoryVars, arrived>>

\* while (ShouldStop()) ... if (shouldNotify)
CheckLoop ==
  /\ pc = "check"
  /\ pc' = IF ~ShouldStop THEN "join" ELSE IF shouldNotify THEN "notify" ELSE "wait"
  /\ UNCHANGED <<rioVars, limitVars, groupStats, report, resourceVars, consumerVars>>

\* GetQueuedCompletionStatus with 100 ms: it times out only on an empty port.
WaitLeavesPort ==
  /\ pc = "wait" /\ pc' = "dequeue"
  /\ shouldNotify' \in {shouldNotify, FALSE}
  /\ UNCHANGED <<rioVars, limitVars, groupStats, report, resourceVars, posted, results,
                 countVars, memoryVars, arrived>>

WaitForCompletion ==
  /\ pc = "wait"
  /\ pc' = "dequeue"
  /\ \/ TakeNotification /\ UNCHANGED shouldNotify
     \/ iocp = 0 /\ shouldNotify' = FALSE /\ UNCHANGED rioVars
  /\ UNCHANGED <<limitVars, groupStats, report, resourceVars, posted, results,
                 countVars, memoryVars, arrived>>

\* The first results restart the clock; the faulty variant lets all of them do it.
ClockAtEveryResults == FALSE
ClockAtResults == IF totalPkts = 0 THEN FALSE ELSE timeUp

\* No results: loop around.
DequeueResults ==
  /\ pc = "dequeue"
  /\ results' = Dequeued(MaxRioResults)
  /\ RIODequeueCompletion(MaxRioResults)
  /\ IF completionQueue = <<>>
       THEN pc' = "check" /\ UNCHANGED timeUp
       ELSE pc' = "process" /\ timeUp' = ClockAtResults
  /\ UNCHANGED <<exitSignal, totalPkts, groupStats, report, resourceVars, posted,
                 shouldNotify, countVars, memoryVars, arrived>>

\* nextAddr: the address slot taken to belong to the result in hand.
NextAddrEarly == (mcAddrDescrIndex + 1) % N
NextAddr == mcAddrDescrIndex % N

\* mcAddrDescrIndex++ on a ULONG.
AdvancedIndexForgotten == mcAddrDescrIndex
AdvancedIndex == (mcAddrDescrIndex + 1) % IndexMod

\* A result of EXPECTED_DATA_SIZE bytes is counted for the group in the next
\* slot, and its buffer is posted again together with that slot.
ProcessExpected ==
  /\ pc = "process" /\ results # <<>> /\ Head(results).expected
  /\ LET buf  == Head(results).buf
         g    == mcAddr[NextAddr]
     IN  /\ SetStats(g, ConsumerStatsUpdate(StatsOf(g), payload[buf]))
         /\ RIOReceiveEx(buf, NextAddr, "process")
  /\ totalPkts' = IncrementedTotal
  /\ packetCounter' = packetCounter + 1
  /\ mcAddrDescrIndex' = AdvancedIndex
  /\ results' = Tail(results)
  /\ UNCHANGED <<exitSignal, timeUp, report, resourceVars, posted, shouldNotify,
                 otherPacketCounter, memoryVars, arrived>>

\* Any other result is only counted: its buffer is not posted again.
ProcessOther ==
  /\ pc = "process" /\ results # <<>> /\ ~Head(results).expected
  /\ totalPkts' = IncrementedTotal
  /\ otherPacketCounter' = otherPacketCounter + 1
  /\ results' = Tail(results)
  /\ UNCHANGED <<rioVars, exitSignal, timeUp, groupStats, pc, report, resourceVars, posted,
                 shouldNotify, mcAddrDescrIndex, packetCounter, memoryVars, arrived>>

EndBatchKeepsFlag ==
  /\ pc = "process" /\ results = <<>> /\ pc' = "check"
  /\ UNCHANGED <<rioVars, limitVars, groupStats, report, resourceVars, consumerVars>>

EndBatchOneEarly ==
  /\ pc = "process" /\ Len(results) <= 1
  /\ pc' = "check" /\ shouldNotify' = TRUE /\ results' = <<>>
  /\ UNCHANGED <<rioVars, limitVars, groupStats, report, resourceVars, posted, countVars,
                 memoryVars, arrived>>

EndBatch ==
  /\ pc = "process" /\ results = <<>>
  /\ pc' = "check" /\ shouldNotify' = TRUE
  /\ UNCHANGED <<rioVars, limitVars, groupStats, report, resourceVars, posted, results,
                 countVars, memoryVars, arrived>>

MainThread ==
  \/ SessionStep /\ UNCHANGED consumerVars
  \/ PostFirstRecv \/ CheckLoop \/ WaitForCompletion \/ DequeueResults
  \/ ProcessExpected \/ ProcessOther \/ EndBatch

-----------------------------------------------------------------------------
(* The network, and the complete system *)

\* A datagram for g completes the oldest receive; without one it is lost.
Arrive(g, seq, expected) ==
  /\ ~Failed /\ socketOpen /\ Len(arrived) < MaxArrivals
  /\ CompleteRequest([buf |-> Head(requestQueue).buf, expected |-> expected])
  /\ payload' = [payload EXCEPT ![Head(requestQueue).buf] = seq]
  /\ mcAddr' = [mcAddr EXCEPT ![Head(requestQueue).slot] = g]
  /\ arrived' = Append(arrived, g)
  /\ UNCHANGED <<limitVars, groupStats, pc, report, resourceVars, posted, shouldNotify, results,
                 countVars>>

ReportThread == ReportExits /\ UNCHANGED consumerVars

Next ==
  \/ MainThread
  \/ ReportThread
  \/ \E g \in Destinations, seq \in Seqs, expected \in BOOLEAN : Arrive(g, seq, expected)
  \/ (HandlerRoutine \/ TimePasses) /\ UNCHANGED consumerVars

Spec == Init /\ [][Next]_vars

\* The operating system schedules both threads; nothing is owed by the network,
\* the clock or the user.
FairSpec == Spec /\ WF_vars(MainThread) /\ WF_vars(ReportThread)

-----------------------------------------------------------------------------
(* Properties *)

Completion == [buf : Cells, expected : BOOLEAN]

TypeOK ==
  /\ SessionTypeOK
  /\ DOMAIN groupStats \subseteq Destinations \cup {NoAddress}
  /\ requestQueue \in Seq([buf : Cells, slot : Cells])
  /\ completionQueue \in Seq(Completion) /\ results \in Seq(Completion)
  /\ posted \in 0 .. N /\ shouldNotify \in BOOLEAN
  /\ mcAddrDescrIndex \in 0 .. IndexMod - 1
  /\ packetCounter \in Nat /\ otherPacketCounter \in Nat
  /\ payload \in [Cells -> Nat] /\ mcAddr \in [Cells -> Destinations \cup {NoAddress}]
  /\ arrived \in Seq(Destinations)

\* The request queue is created for N receives and never refuses one: what is
\* posted, completed or in the hands of the loop is what was posted at the
\* start less one for every result of another size (RioConsumer.cpp:87, :140).
ReceivesConserved ==
  /\ pc # "requestError"
  /\ Outstanding + Len(results) + otherPacketCounter = posted

\* No two receives can write the same memory: every data buffer and every
\* address slot is in at most one outstanding receive, and no buffer that a
\* result in hand refers to is open to the network (RioConsumer.cpp:129-141).
NoAliasedReceives ==
  /\ \A i, j \in 1 .. Len(requestQueue) : i # j =>
       /\ requestQueue[i].buf # requestQueue[j].buf
       /\ requestQueue[i].slot # requestQueue[j].slot
  /\ \A i \in 1 .. Len(requestQueue) :
       /\ \A j \in 1 .. Len(completionQueue) : requestQueue[i].buf # completionQueue[j].buf
       /\ \A j \in 1 .. Len(results) : requestQueue[i].buf # results[j].buf

\* Going to sleep in GetQueuedCompletionStatus, the main thread is never deaf:
\* a notification is pending or already on the port (RioConsumer.cpp:110-116).
NoLostWakeup == pc = "wait" => armed \/ iocp > 0

\* Notifications do not pile up on the port: one that the loop has outrun
\* and the current one, at most (RioConsumer.cpp:113-119).
NotificationsBounded == (IF armed THEN 1 ELSE 0) + iocp <= 2

PacketsOf(g) == StatsOf(g).Packets

\* Every datagram RIO took is in exactly one place, and the two local counters,
\* m_TotalPkts and the per-group statistics agree about those that were
\* processed (RioConsumer.cpp:130-147, :185).
CountsAgree ==
  /\ packetCounter + otherPacketCounter + Len(results) + Len(completionQueue) = Len(arrived)
  /\ totalPkts = (packetCounter + otherPacketCounter) % TotalMod
  /\ packetCounter = SumFunction([g \in DOMAIN groupStats |-> groupStats[g].Packets])

\* The packet limit is only looked at between batches: a run processes less than
\* one batch beyond it, and a 32-bit m_TotalPkts with room for the limit and one
\* batch is wide enough for that (RioConsumer.cpp:109, :131, RioSession.cpp:241).
LimitOvershoot ==
  PktsToCount > 0 => packetCounter + otherPacketCounter < PktsToCount + MaxRioResults

\* Registered memory is given back only when RIO cannot write it any more
\* (RioSession.cpp:150-155).
NoWriteAfterRelease == ~buffersRegistered => ~socketOpen

\* The k-th datagram that is counted is counted for the destination of the k-th
\* datagram that RIO took.  They are the same one until a result of another size
\* comes; every such result leaves the bookkeeping of the slots one more place
\* behind, and nothing else does (RioConsumer.cpp:133-137, :144).
AttributionLag ==
  [][packetCounter' # packetCounter =>
       LET g == arrived[packetCounter']
       IN  g \in DOMAIN groupStats' /\ groupStats'[g].Packets = PacketsOf(g) + 1]_vars

\* What the documentation promises: a datagram that is counted is counted for
\* its own destination (RioConsumer.cpp:159, README.md:74-75).
AttributionExact ==
  [][packetCounter' # packetCounter =>
       LET g == arrived[packetCounter' + otherPacketCounter']
       IN  g \in DOMAIN groupStats' /\ groupStats'[g].Packets = PacketsOf(g) + 1]_vars

\* "If there is no pkts to read right now just loop around" (RioConsumer.cpp:121):
\* an empty dequeue never ends the process.
EmptyDequeueLoopsAround == pc # "notifyError"

\* There is a reason to end the run: Ctrl-C, the packet limit or, with traffic
\* flowing, the clock.
Stopping == exitSignal \/ (~ShouldStop /\ totalPkts > 0)

\* A run that has a reason to end keeps one, although the first results start the
\* clock again and the packets left in the batch are still counted: as long as the
\* 32-bit counter has room for the limit and one batch, its wrap-around never takes
\* the reason away (RioConsumer.cpp:125-131, RioSession.cpp:237-254).
StopIsFinal == [][Stopping => Stopping']_vars

\* Such a run does end: the loop is left, the report thread exits and is joined,
\* and the memory is released.  The one thing that can come in between is the
\* crash of a RIONotify while a notification is pending, which the code does not
\* exclude (see EmptyDequeueLoopsAround); a run in which it does not happen ends
\* properly, whatever else does (RioConsumer.cpp:109-153, RioSession.cpp:237-262).
StopEndsRun == []EmptyDequeueLoopsAround => (Stopping ~> pc = "done")

Running ==
  pc \notin {"join", "closeSocket", "release", "done"} /\ ~Failed

\* The refinement mapping: a datagram is taken when RIO takes it.
Sink == INSTANCE PacketSink WITH
  taken <- arrived, counted <- packetCounter, ignored <- otherPacketCounter,
  packets <- [g \in Destinations |-> PacketsOf(g)], running <- Running

\* Receives, slots, notifications and batches together are a packet sink: each
\* datagram RIO took is processed at most once and only inside the loop, and
\* whatever is counted goes to a destination a datagram was taken for, in the
\* order they were taken, never to a zeroed slot (RioConsumer.cpp:109-150).
ImplementsSink == Sink!Spec

\* And the sink makes progress: while the loop runs and its process has not
\* crashed, no order of arrivals, timeouts and notifications leaves a datagram in
\* the queue for ever (RioConsumer.cpp:109-150).
ImplementsFairSink == Sink!FairSpec
=============================================================================
