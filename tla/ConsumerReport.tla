--------------------------- MODULE ConsumerReport ----------------------------
(***************************************************************************)
(* The report thread of the consumer reads the group statistics while the  *)
(* main thread updates them.  Every counter is atomic, a packet or a row   *)
(* of the report is not: GroupStatsUpdate stores field by field, and       *)
(* GetMcTotals loads field by field while it goes through the map.         *)
(*                                                                         *)
(* std::map is not made for a reader and a writer: when the main thread    *)
(* inserts a group while the report thread iterates, the iterator may end  *)
(* up anywhere.  Bytes is left out, as in McGroupStats.  Time is left out: *)
(* any turn of ReportWorker may find that its period is over.              *)
(***************************************************************************)
EXTENDS McGroupStats, Integers, Sequences, FiniteSetsExt

CONSTANTS
  Groups,        \* keys of the groups given with --mcast_ip
  Strays,        \* keys of other destinations the socket gets datagrams for
  MaxSeq,        \* bound of the model: sequence numbers are below it
  MaxDeliveries  \* bound of the model: datagrams that are delivered

ASSUME ReportAssumption ==
  /\ Groups \subseteq Nat \ {0} /\ IsFiniteSet(Groups) /\ Strays \subseteq Nat \ {0}
  /\ MaxSeq \in Nat /\ MaxSeq < SeqMod /\ MaxDeliveries \in Nat

VARIABLES
  groupStats,  \* m_GroupStats, as stored so far
  updated,     \* the packet in the main thread's hands: its group, and what the
               \* statistics of that group will be
  iterator,    \* of GetMcTotals
  field,       \* the field that GetMcTotals loads next
  statsNow,    \* its partialStats, which becomes statsNow
  prevStats,
  received,    \* history: sequence numbers delivered to each destination
  exact        \* history: none came twice or was below the first of its group

mainVars == <<groupStats, updated, received, exact>>
reportVars == <<iterator, field, statsNow, prevStats>>
vars == <<mainVars, reportVars>>

Destinations == Groups \cup Strays
NoPacket == [group |-> 0, stats |-> InitGroupStats]
Idle == 0   \* no iteration is under way
End == -1   \* the end of the map
NoTotals == [Packets |-> 0, OutOfOrder |-> 0, RxDropped |-> 0]

\* The map holds every configured group before a thread is started.  The variant
\* leaves that to operator[].
InitialKeysNone == {}
InitialKeys == Groups

Init ==
  /\ groupStats = [g \in InitialKeys |-> InitGroupStats] /\ updated = NoPacket
  /\ iterator = Idle /\ field = 1 /\ statsNow = NoTotals /\ prevStats = NoTotals
  /\ received = [g \in Destinations |-> {}] /\ exact = TRUE

-----------------------------------------------------------------------------
(* The main thread: GroupStatsUpdate *)

\* The order of the stores; each branch of the code makes some of them.
StoreOrderPacketsFirst ==
  <<"Packets", "RxDropped", "ExpectedSequence", "Sequence", "OutOfOrder">>
StoreOrder == <<"RxDropped", "ExpectedSequence", "Sequence", "OutOfOrder", "Packets">>

ToStore ==
  {i \in 1 .. Len(StoreOrder) :
     groupStats[updated.group][StoreOrder[i]] # updated.stats[StoreOrder[i]]}

\* The bound counts what has been stored.
Delivered == SumFunction([g \in DOMAIN groupStats |-> groupStats[g].Packets])

\* m_GroupStats[g] inserts a group that the map does not hold, and the datagram
\* is compared with what is stored.
Deliver(g, seq) ==
  LET known == g \in DOMAIN groupStats
      st    == IF known THEN groupStats[g] ELSE InitGroupStats
  IN  /\ updated = NoPacket /\ Delivered < MaxDeliveries
      /\ updated' = [group |-> g, stats |-> ConsumerStatsUpdate(st, seq)]
      /\ groupStats' = [h \in DOMAIN groupStats \cup {g} |->
                          IF h = g THEN st ELSE groupStats[h]]
      /\ IF known \/ iterator = Idle THEN UNCHANGED iterator
         ELSE iterator' \in DOMAIN groupStats' \cup {End}
      /\ received' = [received EXCEPT ![g] = @ \cup {seq}]
      /\ exact' = /\ exact
                  /\ \/ received[g] = {}
                     \/ seq \notin received[g] /\ \E s \in received[g] : s < seq
      /\ UNCHANGED <<field, statsNow, prevStats>>

StoreField ==
  /\ updated # NoPacket /\ ToStore # {}
  /\ LET name == StoreOrder[Min(ToStore)]
     IN  groupStats' = [groupStats EXCEPT ![updated.group][name] = updated.stats[name]]
  /\ updated' = IF ToStore = {Min(ToStore)} THEN NoPacket ELSE updated
  /\ UNCHANGED <<received, exact, reportVars>>

-----------------------------------------------------------------------------
(* The report thread: ReportWorker and GetMcTotals *)

\* The map is visited in the order of its keys.
NextKey(k) ==
  LET later == {h \in DOMAIN groupStats : h > k}
  IN  IF later = {} THEN End ELSE Min(later)

BeginRow ==
  /\ iterator = Idle
  /\ iterator' = NextKey(0) /\ field' = 1 /\ statsNow' = NoTotals
  /\ UNCHANGED <<mainVars, prevStats>>

\* The order of the loads; the variant looks at the drops first.
LoadOrderDropsFirst == <<"RxDropped", "Packets", "OutOfOrder">>
LoadOrder == <<"Packets", "OutOfOrder", "RxDropped">>

LoadField ==
  /\ iterator \notin {Idle, End}
  /\ statsNow' = [statsNow EXCEPT ![LoadOrder[field]] =
                                     @ + groupStats[iterator][LoadOrder[field]]]
  /\ IF field < Len(LoadOrder)
       THEN field' = field + 1 /\ UNCHANGED iterator
       ELSE field' = 1 /\ iterator' = NextKey(iterator)
  /\ UNCHANGED <<mainVars, prevStats>>

PrintRow ==
  /\ iterator = End
  /\ iterator' = Idle /\ prevStats' = statsNow /\ statsNow' = NoTotals
  /\ UNCHANGED <<mainVars, field>>

\* The columns of the period, computed before the row is printed.
PeriodUnguarded(before, now) ==
  [Packets |-> now.Packets - before.Packets,
   OutOfOrder |-> now.OutOfOrder - before.OutOfOrder,
   RxDropped |-> now.RxDropped - before.RxDropped]
Period(before, now) ==
  [Packets |-> now.Packets - before.Packets,
   OutOfOrder |-> now.OutOfOrder - before.OutOfOrder,
   RxDropped |-> now.RxDropped - Min({before.RxDropped, now.RxDropped})]

Next ==
  \/ \E g \in Destinations, seq \in 0 .. MaxSeq - 1 : Deliver(g, seq)
  \/ StoreField
  \/ BeginRow \/ LoadField \/ PrintRow

Spec == Init /\ [][Next]_vars

-----------------------------------------------------------------------------
(* Properties *)

TotalsType == [Packets : Nat, OutOfOrder : Nat, RxDropped : Nat]

TypeOK ==
  /\ DOMAIN groupStats \subseteq Destinations
  /\ \A g \in DOMAIN groupStats : groupStats[g] \in GroupStatsType
  /\ updated \in [group : DOMAIN groupStats \cup {0}, stats : GroupStatsType]
  /\ iterator \in DOMAIN groupStats \cup {Idle, End} /\ field \in 1 .. 3
  /\ statsNow \in TotalsType /\ prevStats \in TotalsType
  /\ received \in [Destinations -> SUBSET (0 .. MaxSeq - 1)] /\ exact \in BOOLEAN

\* A row is ready and no insertion has disturbed the iterations.
RowReady == iterator = End /\ DOMAIN groupStats \subseteq Groups

\* How many packets were sent to g from the first one that came to the last one.
Span(g) == IF received[g] = {} THEN 0 ELSE Max(received[g]) - Min(received[g]) + 1

\* A row adds up counters of different moments.  As long as no packet came twice
\* or from before the first one of its group, and no stray destination was
\* inserted into the map, PKTS and MISSING together are still never more than what
\* was sent: a late packet takes its drop back before it is counted, and the
\* packets are loaded before the drops (RioConsumer.cpp:169-186, :247-252).
RowWithinSent ==
  RowReady /\ exact =>
    statsNow.Packets + statsNow.RxDropped <= SumFunction([g \in Groups |-> Span(g)])

\* No column of a period is negative, which unsigned arithmetic would print as
\* 2^64 less something, or more than the running total of its own row: the totals
\* of packets and of packets out of order never go back from row to row, although
\* rows are made of counters of different moments, and MISSING does not count below
\* zero.  After a stray destination was inserted during the iterations nothing is
\* claimed (RioConsumer.cpp:275-282).
PeriodsInRange ==
  RowReady =>
    \A name \in DOMAIN NoTotals : Period(prevStats, statsNow)[name] \in 0 .. statsNow[name]
=============================================================================
