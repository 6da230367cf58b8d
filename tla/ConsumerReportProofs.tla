----------------------- MODULE ConsumerReportProofs ------------------------
(***************************************************************************)
(* Proofs about ConsumerReport for every set of groups and of strays, all  *)
(* sequence numbers below the wrap-around and any number of datagrams.     *)
(***************************************************************************)
EXTENDS ConsumerReport, SharedLemmas

-----------------------------------------------------------------------------
(* The inductive invariants *)

\* What the main thread has in hand is one packet more for a group of the map.
PacketInv ==
  /\ Groups \subseteq DOMAIN groupStats
  /\ updated = NoPacket \/ updated.group \in DOMAIN groupStats
  /\ updated # NoPacket =>
       LET stored == groupStats[updated.group]
       IN  /\ updated.stats.Packets = stored.Packets + 1
           /\ stored.OutOfOrder <= updated.stats.OutOfOrder

\* The statistics of g once the packet in hand is stored.
Settled(g) == IF updated.group = g THEN updated.stats ELSE groupStats[g]

\* They count the packets in S, and as dropped those between them.
Tracks(st, S) ==
  /\ S = {} => st.Packets = 0 /\ st.RxDropped = 0 /\ st.ExpectedSequence = 0
  /\ S # {} => /\ st.Packets = Cardinality(S) /\ st.ExpectedSequence = Max(S) + 1
               /\ st.Packets + st.RxDropped = Max(S) - Min(S) + 1

\* A group is tracked exactly, and at no moment between two stores does it
\* claim more than was sent to it.
TrackInv ==
  exact => \A g \in Groups :
             /\ Tracks(Settled(g), received[g])
             /\ groupStats[g].Packets + groupStats[g].RxDropped <= Span(g)

\* No destination but the configured ones is in the map.
Undisturbed == DOMAIN groupStats \subseteq Groups

\* The groups whose i-th field in LoadOrder is in the row already.
Loaded(i) == {g \in Groups : iterator = End \/ g < iterator \/ (g = iterator /\ i < field)}

\* What the fields count that are in the row, and those that are not.
In(i) == [g \in Groups |-> IF g \in Loaded(i) THEN groupStats[g][LoadOrder[i]] ELSE 0]
Out(i) == [g \in Groups |-> IF g \in Loaded(i) THEN 0 ELSE groupStats[g][LoadOrder[i]]]

\* The row is at most what is counted now of its part of the map, and with the
\* rest of the map at least the row before it.
RowInv ==
  /\ iterator = Idle => statsNow = NoTotals
  /\ Undisturbed =>
       \A i \in 1 .. 2 :
         /\ statsNow[LoadOrder[i]] <= SumFunction(In(i))
         /\ prevStats[LoadOrder[i]] <= statsNow[LoadOrder[i]] + SumFunction(Out(i))

\* What the row may claim: a group whose drops are in it as much as was sent to
\* it, one of which only the packets are in it as much as these are now.
Claim(g) == IF g \in Loaded(3) THEN Span(g)
            ELSE IF g \in Loaded(1) THEN groupStats[g].Packets ELSE 0

ClaimInv ==
  exact /\ Undisturbed =>
    statsNow.Packets + statsNow.RxDropped <= SumFunction([g \in Groups |-> Claim(g)])

-----------------------------------------------------------------------------
(* Least and greatest elements *)

LEMMA MinProperties ==
  ASSUME NEW S \in SUBSET Nat, S # {}
  PROVE  Min(S) \in S /\ \A x \in S : Min(S) <= x
<1>1. IsWellFoundedOn(OpToRel(<, Nat), Nat)
  BY NatLessThanWellFounded
<1>2. PICK m \in S : \A y \in S : ~(<<y, m>> \in OpToRel(<, Nat))
  BY <1>1, WFMin
<1>3. \A y \in S : m <= y
  <2>1. S \in SUBSET Nat /\ m \in Nat
    OBVIOUS
  <2>2. \A y \in S : ~(y < m)
    BY <1>2, <2>1 DEF OpToRel
  <2> QED
    BY <2>1, <2>2
<1> QED
  BY <1>3 DEF Min

LEMMA MaxProperties ==
  ASSUME NEW n \in Nat, NEW S \in SUBSET (0 .. n), S # {}
  PROVE  Max(S) \in S /\ \A x \in S : x <= Max(S)
<1> DEFINE T == {n - x : x \in S}
<1>1. T \in SUBSET Nat
  OBVIOUS
<1>0. T # {}
  <2>1. PICK x \in S : TRUE
    OBVIOUS
  <2>2. n - x \in T
    BY <2>1
  <2> QED
    BY <2>2
<1>2. PICK t \in T : \A y \in T : t <= y
  <2> HIDE DEF T
  <2> QED
    BY <1>0, <1>1, MinProperties
<1>3. PICK m \in S : t = n - m
  OBVIOUS
<1>4. \A x \in S : x <= m
  BY <1>2, <1>3
<1>5. m \in S /\ \A x \in S : m >= x
  BY <1>3, <1>4
<1> QED
  BY <1>5 DEF Max

-----------------------------------------------------------------------------
(* What the steps do *)

LEMMA Constants ==
  /\ Groups \in SUBSET Nat /\ 0 \notin Groups /\ Strays \in SUBSET Nat /\ 0 \notin Strays
  /\ IsFiniteSet(Groups) /\ MaxSeq \in Nat /\ SeqMod \in Nat /\ MaxSeq < SeqMod
  /\ Destinations \in SUBSET Nat /\ 0 \notin Destinations
  BY ReportAssumption, SeqModAssumption DEF Destinations

LEMMA NextKeyType ==
  ASSUME TypeOK, NEW k
  PROVE  NextKey(k) \in DOMAIN groupStats \cup {End}
<1> DEFINE later == {h \in DOMAIN groupStats : h > k}
<1>1. later \in SUBSET Nat
  BY Constants DEF TypeOK
<1>2. CASE later = {}
  BY <1>2 DEF NextKey
<1>3. CASE later # {}
  <2>1. Min(later) \in later
    <3> HIDE DEF later
    <3> QED
      BY <1>1, <1>3, MinProperties
  <2> QED
    BY <1>3, <2>1 DEF NextKey
<1> QED
  BY <1>2, <1>3

\* Every store but the last leaves Packets alone, and after the last one the
\* statistics are those that the main thread had in hand.
LEMMA StoreEffect ==
  ASSUME TypeOK, PacketInv, StoreField,
         NEW g, g = updated.group, NEW old, old = groupStats[g], NEW new, new = updated.stats
  PROVE  /\ updated # NoPacket /\ g \in DOMAIN groupStats /\ DOMAIN groupStats' = DOMAIN groupStats
         /\ \A h \in DOMAIN groupStats : h # g => groupStats'[h] = groupStats[h]
         /\ old \in GroupStatsType /\ new \in GroupStatsType /\ groupStats'[g] \in GroupStatsType
         /\ old.Packets <= groupStats'[g].Packets
         /\ old.OutOfOrder <= groupStats'[g].OutOfOrder
         /\ groupStats'[g].OutOfOrder <= new.OutOfOrder
         /\ \/ /\ updated' = updated /\ groupStats'[g].Packets = old.Packets
               /\ groupStats'[g].RxDropped \in {old.RxDropped, new.RxDropped}
            \/ updated' = NoPacket /\ groupStats'[g] = new
         /\ UNCHANGED <<received, exact, iterator, field, statsNow, prevStats>>
<1> DEFINE i == Min(ToStore)
           name == StoreOrder[i]
<1>1. /\ updated # NoPacket /\ g \in DOMAIN groupStats
      /\ new.Packets = old.Packets + 1 /\ old.OutOfOrder <= new.OutOfOrder
      /\ old \in GroupStatsType /\ new \in GroupStatsType
      /\ UNCHANGED <<received, exact, iterator, field, statsNow, prevStats>>
  BY DEF StoreField, TypeOK, PacketInv, reportVars
<1>2. ToStore = {j \in 1 .. 5 : old[StoreOrder[j]] # new[StoreOrder[j]]}
  BY DEF ToStore, StoreOrder
<1>3. /\ StoreOrder[1] = "RxDropped" /\ StoreOrder[2] = "ExpectedSequence"
      /\ StoreOrder[3] = "Sequence" /\ StoreOrder[4] = "OutOfOrder" /\ StoreOrder[5] = "Packets"
  BY DEF StoreOrder
<1>4. 5 \in ToStore /\ ToStore \in SUBSET (1 .. 5)
  BY <1>1, <1>2, <1>3 DEF GroupStatsType
<1>5. i \in ToStore /\ \A j \in ToStore : i <= j
  <2>1. ToStore \in SUBSET Nat /\ ToStore # {}
    BY <1>4
  <2> QED
    BY <2>1, MinProperties
<1>6. ToStore = {i} <=> i = 5
  <2>1. \A j \in ToStore : j \in 1 .. 5
    BY <1>4
  <2>2. i = 5 => \A j \in ToStore : j = 5
    BY <1>5, <2>1
  <2> HIDE DEF i
  <2> QED
    BY <1>4, <1>5, <2>2
<1>7. /\ groupStats' = [groupStats EXCEPT ![g][name] = new[name]]
      /\ updated' = IF ToStore = {i} THEN NoPacket ELSE updated
  BY DEF StoreField
<1> DEFINE st == groupStats'[g]
<1>8. /\ DOMAIN groupStats' = DOMAIN groupStats
      /\ \A h \in DOMAIN groupStats : h # g => groupStats'[h] = groupStats[h]
      /\ st = [old EXCEPT ![name] = new[name]]
  BY <1>1, <1>7
<1> HIDE DEF st, i
<1>9. i \in 1 .. 5
  BY <1>4, <1>5
<1>10. /\ st \in GroupStatsType
       /\ st.Packets = IF i = 5 THEN new.Packets ELSE old.Packets
       /\ st.OutOfOrder = IF i = 4 THEN new.OutOfOrder ELSE old.OutOfOrder
       /\ st.RxDropped = IF i = 1 THEN new.RxDropped ELSE old.RxDropped
  BY <1>1, <1>3, <1>8, <1>9 DEF GroupStatsType
<1>11. i = 5 => st = new
  <2> SUFFICES ASSUME i = 5 PROVE st = new
    OBVIOUS
  <2>1. \A j \in 1 .. 4 : old[StoreOrder[j]] = new[StoreOrder[j]]
    BY <1>2, <1>6
  <2>2. /\ old.RxDropped = new.RxDropped /\ old.ExpectedSequence = new.ExpectedSequence
        /\ old.Sequence = new.Sequence /\ old.OutOfOrder = new.OutOfOrder
    BY <1>3, <2>1
  <2> QED
    BY <1>1, <1>3, <1>8, <2>2 DEF GroupStatsType
<1>12. old.Packets \in Nat /\ old.OutOfOrder \in Nat /\ new.OutOfOrder \in Nat
  BY <1>1 DEF GroupStatsType
<1> QED
  BY <1>1, <1>6, <1>7, <1>8, <1>10, <1>11, <1>12 DEF st

\* A datagram is one packet more, and the packets out of order do not become fewer.
LEMMA UpdateGrows ==
  ASSUME NEW st \in GroupStatsType, NEW seq \in 0 .. MaxSeq - 1,
         NEW new, new = ConsumerStatsUpdate(st, seq)
  PROVE  /\ new \in GroupStatsType /\ new.Packets = st.Packets + 1
         /\ st.OutOfOrder <= new.OutOfOrder
<1>1. seq \in Nat /\ seq + 1 < SeqMod
  BY Constants
<1>2. st.OutOfOrder \in Nat /\ st.ExpectedSequence \in Nat
  BY DEF GroupStatsType
<1>3. CASE seq >= st.ExpectedSequence
  <2>1. new \in GroupStatsType /\ new.Packets = st.Packets + 1 /\ new.OutOfOrder = st.OutOfOrder
    BY <1>1, <1>3, UpdateForward
  <2> QED
    BY <1>2, <2>1
<1>4. CASE seq < st.ExpectedSequence
  <2>1. /\ new \in GroupStatsType /\ new.Packets = st.Packets + 1
        /\ new.OutOfOrder = st.OutOfOrder + 1
    BY <1>1, <1>4, UpdateBehind
  <2> QED
    BY <1>2, <2>1
<1> QED
  BY <1>1, <1>2, <1>3, <1>4

LEMMA DeliverEffect ==
  ASSUME TypeOK, NEW g \in Destinations, NEW seq \in 0 .. MaxSeq - 1, Deliver(g, seq),
         NEW st, st = IF g \in DOMAIN groupStats THEN groupStats[g] ELSE InitGroupStats,
         NEW new, new = ConsumerStatsUpdate(st, seq)
  PROVE  /\ updated = NoPacket /\ st \in GroupStatsType /\ new \in GroupStatsType
         /\ updated' = [group |-> g, stats |-> new]
         /\ new.Packets = st.Packets + 1 /\ st.OutOfOrder <= new.OutOfOrder
         /\ DOMAIN groupStats' = DOMAIN groupStats \cup {g} /\ groupStats'[g] = st
         /\ \A h \in DOMAIN groupStats : groupStats'[h] = groupStats[h]
         /\ g \in DOMAIN groupStats => iterator' = iterator
         /\ iterator = Idle => iterator' = Idle
         /\ iterator' \in DOMAIN groupStats' \cup {iterator, End}
         /\ received' = [received EXCEPT ![g] = @ \cup {seq}]
         /\ exact' = /\ exact
                     /\ \/ received[g] = {}
                        \/ seq \notin received[g] /\ \E s \in received[g] : s < seq
         /\ UNCHANGED <<field, statsNow, prevStats>>
<1>1. InitGroupStats \in GroupStatsType
  BY DEF InitGroupStats, GroupStatsType
<1>2. st \in GroupStatsType
  BY <1>1 DEF TypeOK
<1>3. /\ new \in GroupStatsType /\ new.Packets = st.Packets + 1
      /\ st.OutOfOrder <= new.OutOfOrder
  BY <1>2, UpdateGrows
<1>4. /\ groupStats' = [h \in DOMAIN groupStats \cup {g} |->
                          IF h = g THEN st ELSE groupStats[h]]
      /\ updated = NoPacket /\ updated' = [group |-> g, stats |-> new]
      /\ UNCHANGED <<field, statsNow, prevStats>>
      /\ received' = [received EXCEPT ![g] = @ \cup {seq}]
      /\ exact' = /\ exact
                  /\ \/ received[g] = {}
                     \/ seq \notin received[g] /\ \E s \in received[g] : s < seq
      /\ IF g \in DOMAIN groupStats \/ iterator = Idle THEN UNCHANGED iterator
         ELSE iterator' \in DOMAIN groupStats' \cup {End}
  BY DEF Deliver
<1>5. /\ DOMAIN groupStats' = DOMAIN groupStats \cup {g} /\ groupStats'[g] = st
      /\ \A h \in DOMAIN groupStats : groupStats'[h] = groupStats[h]
  BY <1>4
<1> QED
  BY <1>2, <1>3, <1>4, <1>5

LEMMA LoadEffect ==
  ASSUME TypeOK, LoadField,
         NEW name, name = LoadOrder[field]
  PROVE  /\ iterator \in DOMAIN groupStats /\ groupStats[iterator] \in GroupStatsType
         /\ name = IF field = 1 THEN "Packets" ELSE IF field = 2 THEN "OutOfOrder" ELSE "RxDropped"
         /\ statsNow' \in TotalsType
         /\ statsNow' = [statsNow EXCEPT ![name] = @ + groupStats[iterator][name]]
         /\ IF field < 3 THEN field' = field + 1 /\ iterator' = iterator
            ELSE field' = 1 /\ iterator' = NextKey(iterator)
         /\ UNCHANGED <<groupStats, updated, received, exact, prevStats>>
<1>1. iterator \in DOMAIN groupStats /\ groupStats[iterator] \in GroupStatsType
  BY DEF LoadField, TypeOK
<1>2. name = IF field = 1 THEN "Packets" ELSE IF field = 2 THEN "OutOfOrder" ELSE "RxDropped"
  BY DEF LoadOrder, TypeOK
<1>3. /\ statsNow' = [statsNow EXCEPT ![name] = @ + groupStats[iterator][name]]
      /\ IF field < 3 THEN field' = field + 1 /\ iterator' = iterator
         ELSE field' = 1 /\ iterator' = NextKey(iterator)
      /\ UNCHANGED <<groupStats, updated, received, exact, prevStats>>
  BY DEF LoadField, LoadOrder, mainVars
<1>4. statsNow' \in TotalsType
  BY <1>1, <1>2, <1>3 DEF TypeOK, TotalsType, GroupStatsType
<1> QED
  BY <1>1, <1>2, <1>3, <1>4

-----------------------------------------------------------------------------
(* Types, and the packet in hand *)

LEMMA CoreInit == Init => TypeOK /\ PacketInv
<1> SUFFICES ASSUME Init PROVE TypeOK /\ PacketInv
  OBVIOUS
<1>1. InitGroupStats \in GroupStatsType
  BY DEF InitGroupStats, GroupStatsType
<1>2. TypeOK
  BY <1>1 DEF Init, TypeOK, InitialKeys, Destinations, NoPacket, Idle, NoTotals, TotalsType
<1>3. PacketInv
  BY DEF Init, PacketInv, InitialKeys
<1> QED
  BY <1>2, <1>3

LEMMA CoreNext == TypeOK /\ PacketInv /\ [Next]_vars => TypeOK' /\ PacketInv'
<1> SUFFICES ASSUME TypeOK, PacketInv, [Next]_vars PROVE TypeOK' /\ PacketInv'
  OBVIOUS
<1>1. ASSUME NEW g \in Destinations, NEW seq \in 0 .. MaxSeq - 1, Deliver(g, seq)
      PROVE  TypeOK' /\ PacketInv'
  <2> DEFINE st == IF g \in DOMAIN groupStats THEN groupStats[g] ELSE InitGroupStats
             new == ConsumerStatsUpdate(st, seq)
  <2>1. /\ updated = NoPacket /\ st \in GroupStatsType /\ new \in GroupStatsType
        /\ updated' = [group |-> g, stats |-> new]
        /\ new.Packets = st.Packets + 1 /\ st.OutOfOrder <= new.OutOfOrder
        /\ DOMAIN groupStats' = DOMAIN groupStats \cup {g} /\ groupStats'[g] = st
        /\ \A h \in DOMAIN groupStats : groupStats'[h] = groupStats[h]
        /\ g \in DOMAIN groupStats => iterator' = iterator
        /\ iterator = Idle => iterator' = Idle
        /\ iterator' \in DOMAIN groupStats' \cup {iterator, End}
        /\ received' = [received EXCEPT ![g] = @ \cup {seq}]
        /\ exact' = /\ exact
                    /\ \/ received[g] = {}
                       \/ seq \notin received[g] /\ \E s \in received[g] : s < seq
        /\ UNCHANGED <<field, statsNow, prevStats>>
    BY <1>1, DeliverEffect
  <2> HIDE DEF st, new
  <2>2. TypeOK'
    BY <2>1 DEF TypeOK
  <2>3. PacketInv'
    BY <2>1 DEF PacketInv
  <2> QED
    BY <2>2, <2>3
<1>2. CASE StoreField
  <2> DEFINE g == updated.group
             old == groupStats[g]
             new == updated.stats
  <2>1. /\ updated # NoPacket /\ g \in DOMAIN groupStats /\ DOMAIN groupStats' = DOMAIN groupStats
        /\ \A h \in DOMAIN groupStats : h # g => groupStats'[h] = groupStats[h]
        /\ old \in GroupStatsType /\ new \in GroupStatsType /\ groupStats'[g] \in GroupStatsType
        /\ groupStats'[g].OutOfOrder <= new.OutOfOrder
        /\ \/ updated' = updated /\ groupStats'[g].Packets = old.Packets
           \/ updated' = NoPacket /\ groupStats'[g] = new
        /\ UNCHANGED <<received, exact, iterator, field, statsNow, prevStats>>
    BY <1>2, StoreEffect
  <2>2. TypeOK'
    <3>1. \A h \in DOMAIN groupStats : groupStats'[h] \in GroupStatsType
      BY <2>1 DEF TypeOK
    <3>2. updated' \in [group : DOMAIN groupStats' \cup {0}, stats : GroupStatsType]
      <4>1. InitGroupStats \in GroupStatsType
        BY DEF InitGroupStats, GroupStatsType
      <4> QED
        BY <2>1, <4>1 DEF TypeOK, NoPacket
    <3> QED
      BY <2>1, <3>1, <3>2 DEF TypeOK
  <2>3. PacketInv'
    BY <2>1 DEF PacketInv
  <2> QED
    BY <2>2, <2>3
<1>3. CASE BeginRow
  <2>1. iterator' \in DOMAIN groupStats \cup {End}
    BY <1>3, NextKeyType DEF BeginRow
  <2>2. UNCHANGED <<groupStats, updated, received, exact, prevStats>> /\ field' = 1
        /\ statsNow' = NoTotals
    BY <1>3 DEF BeginRow, mainVars
  <2> QED
    BY <2>1, <2>2 DEF TypeOK, PacketInv, NoTotals, TotalsType
<1>4. CASE LoadField
  <2> DEFINE name == LoadOrder[field]
  <2>1. /\ statsNow' \in TotalsType
        /\ IF field < 3 THEN field' = field + 1 /\ iterator' = iterator
           ELSE field' = 1 /\ iterator' = NextKey(iterator)
        /\ UNCHANGED <<groupStats, updated, received, exact, prevStats>>
    BY <1>4, LoadEffect
  <2>2. NextKey(iterator) \in DOMAIN groupStats \cup {End}
    BY NextKeyType
  <2>3. field' \in 1 .. 3 /\ iterator' \in DOMAIN groupStats \cup {Idle, End}
    BY <2>1, <2>2 DEF TypeOK
  <2> QED
    BY <2>1, <2>3 DEF TypeOK, PacketInv
<1>5. CASE PrintRow
  <2>1. /\ UNCHANGED <<groupStats, updated, received, exact, field>>
        /\ iterator' = Idle /\ statsNow' = NoTotals /\ prevStats' = statsNow
    BY <1>5 DEF PrintRow, mainVars
  <2> QED
    BY <2>1 DEF TypeOK, PacketInv, NoTotals, TotalsType
<1>6. CASE UNCHANGED vars
  BY <1>6 DEF vars, mainVars, reportVars, TypeOK, PacketInv
<1> QED
  BY <1>1, <1>2, <1>3, <1>4, <1>5, <1>6 DEF Next

-----------------------------------------------------------------------------
(* What was sent to a group, and what its statistics claim *)

SpanOf(S) == IF S = {} THEN 0 ELSE Max(S) - Min(S) + 1

LEMMA SpanGrows ==
  ASSUME NEW T \in SUBSET (0 .. MaxSeq - 1), NEW S \in SUBSET T
  PROVE  SpanOf(S) \in Nat /\ SpanOf(T) \in Nat /\ SpanOf(S) <= SpanOf(T)
<1>1. ASSUME NEW A \in SUBSET (0 .. MaxSeq - 1), A # {}
      PROVE  /\ Min(A) \in A /\ \A x \in A : Min(A) <= x
             /\ Max(A) \in A /\ \A x \in A : x <= Max(A)
             /\ Min(A) \in Nat /\ Max(A) \in Nat /\ SpanOf(A) = Max(A) - Min(A) + 1
  <2>1. MaxSeq - 1 \in Nat /\ A \in SUBSET Nat
    <3>1. MaxSeq \in Nat
      BY Constants
    <3>2. PICK x \in A : x \in 0 .. MaxSeq - 1
      BY <1>1
    <3> QED
      BY <3>1, <3>2
  <2>2. /\ Min(A) \in A /\ \A x \in A : Min(A) <= x
        /\ Max(A) \in A /\ \A x \in A : x <= Max(A)
    BY <1>1, <2>1, MinProperties, MaxProperties
  <2> QED
    BY <1>1, <2>1, <2>2 DEF SpanOf
<1>2. ASSUME NEW A \in SUBSET (0 .. MaxSeq - 1) PROVE SpanOf(A) \in Nat
  <2>1. CASE A = {}
    BY <2>1 DEF SpanOf
  <2>2. CASE A # {}
    <3>1. /\ Min(A) \in Nat /\ Max(A) \in Nat /\ Min(A) <= Max(A)
          /\ SpanOf(A) = Max(A) - Min(A) + 1
      BY <1>1, <2>2
    <3> QED
      BY ONLY <3>1
  <2> QED
    BY <2>1, <2>2
<1>3. SpanOf(S) \in Nat /\ SpanOf(T) \in Nat
  BY <1>2
<1>4. CASE S = {}
  BY <1>3, <1>4 DEF SpanOf
<1>5. CASE S # {}
  <2>1. T # {} /\ S \in SUBSET (0 .. MaxSeq - 1)
    BY <1>5
  <2>2. /\ Min(S) \in S /\ Max(S) \in S /\ Min(S) \in Nat /\ Max(S) \in Nat
        /\ Min(T) \in Nat /\ Max(T) \in Nat /\ \A x \in T : Min(T) <= x /\ x <= Max(T)
        /\ SpanOf(S) = Max(S) - Min(S) + 1 /\ SpanOf(T) = Max(T) - Min(T) + 1
    BY <1>1, <1>5, <2>1
  <2>3. Min(T) <= Min(S) /\ Max(S) <= Max(T)
    BY <2>2
  <2>4. SpanOf(S) <= SpanOf(T)
    BY ONLY <2>2, <2>3
  <2> QED
    BY <1>3, <2>4
<1> QED
  BY <1>4, <1>5

\* The least and the greatest element name themselves.
LEMMA Ends ==
  ASSUME NEW S \in SUBSET Nat, NEW lo \in S, NEW hi \in S, \A x \in S : lo <= x /\ x <= hi
  PROVE  Min(S) = lo /\ Max(S) = hi
<1>1. S # {} /\ S \in SUBSET (0 .. hi) /\ hi \in Nat
  OBVIOUS
<1>2. /\ Min(S) \in S /\ \A x \in S : Min(S) <= x
      /\ Max(S) \in S /\ \A x \in S : x <= Max(S)
  BY <1>1, MinProperties, MaxProperties
<1>3. Min(S) \in Nat /\ Max(S) \in Nat /\ lo \in Nat
  BY <1>2
<1>4. Min(S) <= lo /\ lo <= Min(S) /\ Max(S) <= hi /\ hi <= Max(S)
  BY <1>2
<1> QED
  BY <1>1, <1>3, <1>4

\* A packet that is new and not before the first one is tracked.
LEMMA TrackStep ==
  ASSUME NEW st \in GroupStatsType, NEW S \in SUBSET (0 .. MaxSeq - 1), Tracks(st, S),
         NEW seq \in 0 .. MaxSeq - 1, S = {} \/ (seq \notin S /\ \E s \in S : s < seq),
         NEW new, new = ConsumerStatsUpdate(st, seq)
  PROVE  Tracks(new, S \cup {seq})
<1> DEFINE T == S \cup {seq}
<1>1. seq \in Nat /\ seq + 1 < SeqMod /\ MaxSeq - 1 \in Nat /\ T \in SUBSET Nat
  BY Constants
<1>2. st.Packets \in Nat /\ st.RxDropped \in Nat /\ st.ExpectedSequence \in Nat
  BY DEF GroupStatsType
<1>3. CASE S = {}
  <2>1. T = {seq} /\ seq \in T /\ \A x \in T : seq <= x /\ x <= seq
    BY <1>1, <1>3
  <2>2. Min(T) = seq /\ Max(T) = seq
    <3> HIDE DEF T
    <3> QED
      BY <1>1, <2>1, Ends
  <2>3. st.Packets = 0 /\ st.RxDropped = 0 /\ st.ExpectedSequence = 0
    BY <1>3 DEF Tracks
  <2>4. new.Packets = 1 /\ new.ExpectedSequence = seq + 1 /\ new.RxDropped = 0
    BY <1>1, <2>3, UpdateForward
  <2>5. Cardinality(T) = 1
    BY <2>1, FS_Singleton
  <2> QED
    BY <1>1, <2>1, <2>2, <2>4, <2>5 DEF Tracks
<1>4. CASE S # {}
  <2> DEFINE lo == Min(S)
             hi == Max(S)
  <2>1. /\ lo \in S /\ \A x \in S : lo <= x
        /\ hi \in S /\ \A x \in S : x <= hi
    BY <1>1, <1>4, MinProperties, MaxProperties
  <2> HIDE DEF lo, hi
  <2>2. lo \in Nat /\ hi \in Nat /\ lo <= hi /\ lo < seq /\ seq \notin S
    BY <1>1, <1>4, <2>1
  <2>3. /\ st.Packets = Cardinality(S) /\ st.ExpectedSequence = hi + 1
        /\ st.Packets + st.RxDropped = hi - lo + 1
    BY <1>4 DEF Tracks, lo, hi
  <2>4. S \in SUBSET (lo .. hi)
    BY <2>1, <2>2
  <2>5. IsFiniteSet(S) /\ Cardinality(S) \in Nat
    <3>1. lo \in Int /\ hi \in Int
      BY <2>2
    <3> QED
      BY <2>4, <3>1, PartOfInterval
  <2>6. Cardinality(T) = st.Packets + 1
    BY <2>2, <2>3, <2>5, FS_AddElement
  <2>7. st.Packets # 0
    BY <1>4, <2>3, <2>5, FS_EmptySet
  <2>8. CASE seq > hi
    <3>1. Min(T) = lo /\ Max(T) = seq
      <4>1. lo \in T /\ seq \in T /\ \A x \in T : lo <= x /\ x <= seq
        BY <1>1, <2>1, <2>2, <2>8
      <4> HIDE DEF T
      <4> QED
        BY <1>1, <4>1, Ends
    <3>2. /\ new.Packets = st.Packets + 1 /\ new.ExpectedSequence = seq + 1
          /\ new.RxDropped = st.RxDropped + (seq - (hi + 1))
      <4>1. seq >= st.ExpectedSequence
        BY <1>1, <2>2, <2>3, <2>8
      <4> QED
        BY <1>1, <2>3, <2>7, <4>1, UpdateForward
    <3>3. new.Packets + new.RxDropped = seq - lo + 1
      BY <1>1, <1>2, <2>2, <2>3, <3>2
    <3> QED
      BY <2>6, <3>1, <3>2, <3>3 DEF Tracks
  <2>9. CASE ~(seq > hi)
    <3>1. Min(T) = lo /\ Max(T) = hi
      <4>1. lo \in T /\ hi \in T /\ \A x \in T : lo <= x /\ x <= hi
        BY <1>1, <2>1, <2>2, <2>9
      <4> HIDE DEF T
      <4> QED
        BY <1>1, <4>1, Ends
    <3>2. st.Packets + 1 <= hi - lo + 1
      <4>1. T \in SUBSET (lo .. hi)
        BY <1>1, <2>2, <2>4, <2>9
      <4>2. IsFiniteSet(lo .. hi) /\ Cardinality(lo .. hi) = hi - lo + 1
        <5>1. lo \in Int /\ hi \in Int
          BY <2>2
        <5>2. IsFiniteSet(lo .. hi) /\ Cardinality(lo .. hi) = IF lo > hi THEN 0 ELSE hi - lo + 1
          BY <5>1, FS_Interval
        <5> QED
          BY <2>2, <5>2
      <4> DEFINE I == lo .. hi
      <4> HIDE DEF I, T
      <4>3. Cardinality(T) <= Cardinality(I)
        BY <4>1, <4>2, FS_Subset DEF I
      <4> QED
        BY <2>6, <4>2, <4>3 DEF I
    <3>3. st.RxDropped > 0
      BY <1>2, <2>2, <2>3, <3>2
    <3>4. /\ new.Packets = st.Packets + 1 /\ new.ExpectedSequence = hi + 1
          /\ new.RxDropped = st.RxDropped - 1
      <4>1. seq < st.ExpectedSequence
        BY <1>1, <2>2, <2>3, <2>9
      <4> QED
        BY <1>1, <2>3, <3>3, <4>1, UpdateBehind
    <3>5. new.Packets + new.RxDropped = hi - lo + 1
      BY <1>2, <2>2, <2>3, <3>4
    <3> QED
      BY <2>6, <3>1, <3>4, <3>5 DEF Tracks
  <2> QED
    BY <2>8, <2>9
<1> QED
  BY <1>3, <1>4

LEMMA TrackInit == Init => TrackInv
<1> SUFFICES ASSUME Init, NEW g \in Groups
             PROVE  /\ Tracks(Settled(g), received[g])
                    /\ groupStats[g].Packets + groupStats[g].RxDropped <= Span(g)
  BY DEF TrackInv
<1>1. /\ groupStats[g] = InitGroupStats /\ updated.group = 0 /\ received[g] = {} /\ g # 0
  BY Constants DEF Init, InitialKeys, NoPacket, Destinations
<1>2. InitGroupStats.Packets = 0 /\ InitGroupStats.RxDropped = 0
      /\ InitGroupStats.ExpectedSequence = 0
  BY DEF InitGroupStats
<1> QED
  BY <1>1, <1>2 DEF Tracks, Settled, Span

LEMMA TrackNext == TypeOK /\ PacketInv /\ TrackInv /\ [Next]_vars => TrackInv'
<1> SUFFICES ASSUME TypeOK, PacketInv, TrackInv, [Next]_vars, exact', NEW h \in Groups
             PROVE  /\ Tracks(Settled(h)', received'[h])
                    /\ groupStats'[h].Packets + groupStats'[h].RxDropped <= Span(h)'
  BY DEF TrackInv
<1>0. /\ h \in DOMAIN groupStats /\ h \in Destinations /\ h # 0
      /\ groupStats[h] \in GroupStatsType
      /\ received \in [Destinations -> SUBSET (0 .. MaxSeq - 1)]
  BY Constants DEF PacketInv, TypeOK, Destinations
<1>1. /\ exact => Tracks(Settled(h), received[h])
      /\ exact => groupStats[h].Packets + groupStats[h].RxDropped <= Span(h)
  BY DEF TrackInv
<1>2. Span(h) = SpanOf(received[h]) /\ Span(h)' = SpanOf(received'[h])
  BY DEF Span, SpanOf
<1>3. ASSUME UNCHANGED <<groupStats, updated, received, exact>>
      PROVE  /\ Tracks(Settled(h)', received'[h])
             /\ groupStats'[h].Packets + groupStats'[h].RxDropped <= Span(h)'
  BY <1>1, <1>3 DEF Settled, Span
<1>4. ASSUME NEW g \in Destinations, NEW seq \in 0 .. MaxSeq - 1, Deliver(g, seq)
      PROVE  /\ Tracks(Settled(h)', received'[h])
             /\ groupStats'[h].Packets + groupStats'[h].RxDropped <= Span(h)'
  <2> DEFINE st == IF g \in DOMAIN groupStats THEN groupStats[g] ELSE InitGroupStats
             new == ConsumerStatsUpdate(st, seq)
  <2>1. /\ updated = NoPacket /\ st \in GroupStatsType
        /\ updated' = [group |-> g, stats |-> new]
        /\ groupStats'[g] = st
        /\ \A k \in DOMAIN groupStats : groupStats'[k] = groupStats[k]
        /\ received' = [received EXCEPT ![g] = @ \cup {seq}]
        /\ exact /\ (received[g] = {} \/ (seq \notin received[g] /\ \E s \in received[g] : s < seq))
    <3>1. /\ st = IF g \in DOMAIN groupStats THEN groupStats[g] ELSE InitGroupStats
          /\ new = ConsumerStatsUpdate(st, seq)
      OBVIOUS
    <3> HIDE DEF st, new
    <3>2. /\ updated = NoPacket /\ st \in GroupStatsType
          /\ updated' = [group |-> g, stats |-> new]
          /\ groupStats'[g] = st
          /\ \A k \in DOMAIN groupStats : groupStats'[k] = groupStats[k]
      <4>1. InitGroupStats \in GroupStatsType
        BY DEF InitGroupStats, GroupStatsType
      <4>2. st \in GroupStatsType
        BY <3>1, <4>1 DEF TypeOK
      <4>3. /\ groupStats' = [k \in DOMAIN groupStats \cup {g} |->
                                IF k = g THEN st ELSE groupStats[k]]
            /\ updated = NoPacket /\ updated' = [group |-> g, stats |-> new]
        BY <1>4, <3>1 DEF Deliver
      <4>4. /\ groupStats'[g] = st
            /\ \A k \in DOMAIN groupStats : groupStats'[k] = groupStats[k]
        BY ONLY <3>1, <4>3
      <4> QED
        BY ONLY <4>2, <4>3, <4>4
    <3>3. /\ received' = [received EXCEPT ![g] = @ \cup {seq}]
          /\ exact /\ (received[g] = {} \/ (seq \notin received[g] /\ \E s \in received[g] : s < seq))
      BY <1>4 DEF Deliver
    <3> QED
      BY <3>2, <3>3
  <2>2. Settled(h) = groupStats[h]
    BY <1>0, <2>1 DEF Settled, NoPacket
  <2>3. CASE h # g
    <3>1. Settled(h)' = groupStats[h] /\ groupStats'[h] = groupStats[h] /\ received'[h] = received[h]
      BY <1>0, <2>1, <2>3 DEF Settled
    <3> QED
      BY <1>1, <1>2, <2>1, <2>2, <3>1
  <2>4. CASE h = g
    <3>1. st = groupStats[h]
      BY <1>0, <2>4
    <3>2. Settled(h)' = new /\ groupStats'[h] = st /\ received'[h] = received[h] \cup {seq}
      BY <1>0, <2>1, <2>4 DEF Settled
    <3>3. Tracks(st, received[h]) /\ received[h] \in SUBSET (0 .. MaxSeq - 1)
      BY <1>0, <1>1, <2>1, <2>2, <3>1
    <3> HIDE DEF st
    <3>4. Tracks(new, received[h] \cup {seq})
      BY <2>1, <2>4, <3>3, TrackStep
    <3> HIDE DEF new
    <3>5. st.Packets + st.RxDropped \in Nat
      BY <2>1 DEF GroupStatsType
    <3>6. st.Packets + st.RxDropped <= SpanOf(received[h])
      BY <1>1, <1>2, <2>1, <3>1
    <3>7. /\ SpanOf(received[h]) \in Nat /\ SpanOf(received[h] \cup {seq}) \in Nat
          /\ SpanOf(received[h]) <= SpanOf(received[h] \cup {seq})
      <4>1. received[h] \cup {seq} \in SUBSET (0 .. MaxSeq - 1)
        BY <3>3
      <4> QED
        BY <3>3, <4>1, SpanGrows
    <3> QED
      BY <1>2, <3>2, <3>4, <3>5, <3>6, <3>7
  <2> QED
    BY <2>3, <2>4
<1>5. CASE StoreField
  <2> DEFINE g == updated.group
             old == groupStats[g]
             new == updated.stats
  <2>1. /\ updated # NoPacket /\ g \in DOMAIN groupStats
        /\ \A k \in DOMAIN groupStats : k # g => groupStats'[k] = groupStats[k]
        /\ old \in GroupStatsType /\ new \in GroupStatsType
        /\ \/ /\ updated' = updated /\ groupStats'[g].Packets = old.Packets
              /\ groupStats'[g].RxDropped \in {old.RxDropped, new.RxDropped}
           \/ updated' = NoPacket /\ groupStats'[g] = new
        /\ UNCHANGED <<received, exact>>
    BY <1>5, StoreEffect
  <2>2. new.Packets = old.Packets + 1
    BY <2>1 DEF PacketInv
  <2>3. CASE h # g
    <3>1. Settled(h)' = Settled(h) /\ groupStats'[h] = groupStats[h]
      BY <1>0, <2>1, <2>3 DEF Settled, NoPacket
    <3> QED
      BY <1>1, <1>2, <2>1, <3>1
  <2>4. CASE h = g
    <3>1. Settled(h) = new /\ Tracks(new, received[h])
      BY <1>1, <2>1, <2>4 DEF Settled
    <3>2. Settled(h)' = new
      BY <1>0, <2>1, <2>4 DEF Settled, NoPacket
    <3>3. /\ new.Packets \in Nat /\ new.RxDropped \in Nat /\ old.Packets \in Nat
          /\ old.RxDropped \in Nat
      BY <2>1 DEF GroupStatsType
    <3>4. new.Packets + new.RxDropped = Span(h) /\ old.Packets + old.RxDropped <= Span(h)
      <4>1. received[h] # {}
        BY <2>2, <3>1, <3>3 DEF Tracks
      <4> QED
        BY <1>1, <2>1, <2>4, <3>1, <4>1 DEF Tracks, Span
    <3>5. groupStats'[h].Packets + groupStats'[h].RxDropped <= Span(h)
      BY <2>1, <2>2, <2>4, <3>3, <3>4
    <3> QED
      BY <1>2, <2>1, <3>1, <3>2, <3>5
  <2> QED
    BY <2>3, <2>4
<1>6. CASE BeginRow \/ LoadField \/ PrintRow
  BY <1>3, <1>6 DEF BeginRow, LoadField, PrintRow, mainVars
<1>7. CASE UNCHANGED vars
  BY <1>3, <1>7 DEF vars, mainVars
<1> QED
  BY <1>4, <1>5, <1>6, <1>7 DEF Next

-----------------------------------------------------------------------------
(* The part of the map that is in the row *)

LEMMA NextKeyOrder ==
  ASSUME TypeOK, PacketInv, Undisturbed, NEW k \in Nat
  PROVE  /\ DOMAIN groupStats = Groups /\ End \notin Groups
         /\ NextKey(k) = End => \A g \in Groups : g <= k
         /\ NextKey(k) # End => /\ NextKey(k) \in Groups /\ NextKey(k) > k
                                /\ \A g \in Groups : g > k => NextKey(k) <= g
<1> DEFINE later == {h \in DOMAIN groupStats : h > k}
<1>1. DOMAIN groupStats = Groups /\ Groups \in SUBSET Nat /\ End \notin Groups
  BY Constants DEF PacketInv, Undisturbed, End
<1>2. later \in SUBSET Nat
  BY <1>1
<1>3. CASE later = {}
  <2>1. NextKey(k) = End /\ \A g \in Groups : ~(g > k)
    BY <1>1, <1>3 DEF NextKey
  <2> QED
    BY <1>1, <2>1
<1>4. CASE later # {}
  <2>1. Min(later) \in later /\ \A x \in later : Min(later) <= x
    <3> HIDE DEF later
    <3> QED
      BY <1>2, <1>4, MinProperties
  <2>2. NextKey(k) = Min(later)
    BY <1>4 DEF NextKey
  <2> QED
    BY <1>1, <2>1, <2>2
<1> QED
  BY <1>3, <1>4

\* Before a row begins, and when it begins, nothing is in it.
LEMMA NothingLoaded ==
  ASSUME TypeOK, PacketInv, Undisturbed
  PROVE  /\ iterator = Idle => \A i : Loaded(i) = {}
         /\ BeginRow => \A i \in 1 .. 3 : Loaded(i)' = {}
         /\ PrintRow => \A i : Loaded(i) = Groups /\ Loaded(i)' = {}
<1>1. \A g \in Groups : g \in Nat /\ g > 0
  BY Constants
<1>2. iterator = Idle => \A i : Loaded(i) = {}
  BY <1>1 DEF Loaded, Idle, End
<1>3. ASSUME BeginRow PROVE \A i \in 1 .. 3 : Loaded(i)' = {}
  <2>1. iterator' = NextKey(0) /\ field' = 1
    BY <1>3 DEF BeginRow
  <2>2. CASE NextKey(0) = End
    BY <1>1, <2>1, <2>2, NextKeyOrder DEF Loaded
  <2>3. CASE NextKey(0) # End
    <3>1. \A g \in Groups : ~(g < NextKey(0)) /\ NextKey(0) \in Nat
      BY <1>1, <2>3, NextKeyOrder
    <3> QED
      BY <2>1, <2>3, <3>1 DEF Loaded
  <2> QED
    BY <2>2, <2>3
<1>4. ASSUME PrintRow PROVE \A i : Loaded(i) = Groups /\ Loaded(i)' = {}
  <2>1. iterator = End /\ iterator' = Idle
    BY <1>4 DEF PrintRow
  <2> QED
    BY <1>1, <2>1 DEF Loaded, Idle, End
<1> QED
  BY <1>2, <1>3, <1>4

\* A load brings one field of one group into the row.
LEMMA OneLoaded ==
  ASSUME TypeOK, PacketInv, Undisturbed, LoadField
  PROVE  /\ iterator \in Groups /\ iterator \notin Loaded(field)
         /\ field = 3 => iterator \in Loaded(1)
         /\ field = 1 => iterator \notin Loaded(3)
         /\ \A i \in 1 .. 3 : Loaded(i)' = IF i = field THEN Loaded(i) \cup {iterator} ELSE Loaded(i)
<1>1. /\ iterator \in Groups /\ iterator \in Nat /\ field \in 1 .. 3 /\ End \notin Groups
      /\ \A g \in Groups : g \in Nat
      /\ IF field < 3 THEN field' = field + 1 /\ iterator' = iterator
         ELSE field' = 1 /\ iterator' = NextKey(iterator)
  BY Constants, LoadEffect DEF TypeOK, PacketInv, Undisturbed, End
<1>2. \A i : Loaded(i) = {g \in Groups : g < iterator \/ (g = iterator /\ i < field)}
  BY <1>1 DEF Loaded
<1>3. /\ iterator \notin Loaded(field)
      /\ field = 3 => iterator \in Loaded(1)
      /\ field = 1 => iterator \notin Loaded(3)
  BY <1>1, <1>2
<1>4. ASSUME NEW i \in 1 .. 3
      PROVE  Loaded(i)' = IF i = field THEN Loaded(i) \cup {iterator} ELSE Loaded(i)
  <2>1. CASE field < 3
    <3>1. Loaded(i)' = {g \in Groups : g < iterator \/ (g = iterator /\ i < field + 1)}
      BY <1>1, <2>1 DEF Loaded
    <3> QED
      BY <1>1, <1>2, <3>1
  <2>2. CASE field = 3
    <3>1. \A g \in Groups : g \in Loaded(i)' <=> g <= iterator
      <4>1. Loaded(i)' = {g \in Groups : NextKey(iterator) = End \/ g < NextKey(iterator)
                                           \/ (g = NextKey(iterator) /\ i < 1)}
        BY <1>1, <2>2 DEF Loaded
      <4>2. CASE NextKey(iterator) = End
        <5>1. \A g \in Groups : g <= iterator
          BY <1>1, <4>2, NextKeyOrder
        <5> QED
          BY <4>1, <4>2, <5>1
      <4>3. CASE NextKey(iterator) # End
        <5>1. /\ NextKey(iterator) \in Nat /\ NextKey(iterator) > iterator
              /\ \A g \in Groups : g > iterator => NextKey(iterator) <= g
          BY <1>1, <4>3, NextKeyOrder
        <5> QED
          BY <1>1, <4>1, <4>3, <5>1
      <4> QED
        BY <4>2, <4>3
    <3>2. Loaded(i)' \in SUBSET Groups
      BY DEF Loaded
    <3>3. \A g \in Groups : g <= iterator <=> g < iterator \/ g = iterator
      BY <1>1
    <3>4. \A g \in Groups : g \in Loaded(i) <=> g < iterator \/ (g = iterator /\ i < 3)
      BY <1>1, <1>2, <2>2
    <3>5. Loaded(i) \in SUBSET Groups
      BY DEF Loaded
    <3> DEFINE now == Loaded(i)
               next == Loaded(i)'
    <3> HIDE DEF now, next
    <3>6. CASE i = 3
      <4>1. \A g \in Groups : g \in next <=> g \in now \cup {iterator}
        BY <3>1, <3>3, <3>4, <3>6 DEF now, next
      <4>2. next = now \cup {iterator}
        BY <1>1, <3>2, <3>5, <4>1 DEF now, next
      <4> QED
        BY <2>2, <3>6, <4>2 DEF now, next
    <3>7. CASE i # 3
      <4>1. \A g \in Groups : g \in next <=> g \in now
        BY <3>1, <3>3, <3>4, <3>7 DEF now, next
      <4>2. next = now
        BY <3>2, <3>5, <4>1 DEF now, next
      <4> QED
        BY <2>2, <3>7, <4>2 DEF now, next
    <3> QED
      BY <3>6, <3>7
  <2> QED
    BY <1>1, <2>1, <2>2
<1> QED
  BY <1>1, <1>3, <1>4

-----------------------------------------------------------------------------
(* The row and the row before it *)

LEMMA SumOverGroups ==
  ASSUME NEW f, DOMAIN f = Groups
  PROVE  SumFunction(f) = SumFunctionOnSet(f, Groups)
  BY DEF SumFunction

LEMMA Fields ==
  /\ LoadOrder[1] = "Packets" /\ LoadOrder[2] = "OutOfOrder" /\ LoadOrder[3] = "RxDropped"
  /\ \A st \in GroupStatsType, i \in 1 .. 3 : st[LoadOrder[i]] \in Nat
  /\ \A row \in TotalsType, i \in 1 .. 3 : row[LoadOrder[i]] \in Nat
  /\ \A i \in 1 .. 3 : NoTotals[LoadOrder[i]] = 0
<1>1. LoadOrder[1] = "Packets" /\ LoadOrder[2] = "OutOfOrder" /\ LoadOrder[3] = "RxDropped"
  BY DEF LoadOrder
<1>2. \A i \in 1 .. 3 : LoadOrder[i] \in {"Packets", "OutOfOrder", "RxDropped"}
  BY <1>1
<1> QED
  BY <1>1, <1>2 DEF GroupStatsType, TotalsType, NoTotals

\* As long as the map has no stray, a datagram does not touch what is stored.
LEMMA Undelivered ==
  ASSUME TypeOK, PacketInv, NEW g \in Destinations, NEW seq \in 0 .. MaxSeq - 1,
         Deliver(g, seq), Undisturbed'
  PROVE  /\ Undisturbed /\ g \in Groups
         /\ \A h \in Groups : groupStats'[h] = groupStats[h]
         /\ UNCHANGED <<iterator, field, statsNow, prevStats>>
<1>1. /\ DOMAIN groupStats' = DOMAIN groupStats \cup {g}
      /\ \A h \in DOMAIN groupStats : groupStats'[h] = groupStats[h]
      /\ g \in DOMAIN groupStats => iterator' = iterator
      /\ UNCHANGED <<field, statsNow, prevStats>>
  BY DeliverEffect
<1> QED
  BY <1>1 DEF Undisturbed, PacketInv

LEMMA RowInit == Init => RowInv
<1> SUFFICES ASSUME Init PROVE RowInv
  OBVIOUS
<1>1. iterator = Idle /\ statsNow = NoTotals /\ prevStats = NoTotals
      /\ groupStats = [g \in Groups |-> InitGroupStats]
  BY DEF Init, InitialKeys
<1>2. TypeOK /\ PacketInv
  BY CoreInit
<1>3. ASSUME NEW i \in 1 .. 2, Undisturbed
      PROVE  /\ statsNow[LoadOrder[i]] <= SumFunction(In(i))
             /\ prevStats[LoadOrder[i]] <= statsNow[LoadOrder[i]] + SumFunction(Out(i))
  <2>1. /\ \A g \in Groups : In(i)[g] = 0 /\ Out(i)[g] = 0
    <3>1. \A g \in Groups : groupStats[g][LoadOrder[i]] = 0
      BY <1>1, Fields DEF InitGroupStats
    <3> QED
      BY <3>1 DEF In, Out
  <2>2. DOMAIN In(i) = Groups /\ DOMAIN Out(i) = Groups
    BY DEF In, Out
  <2>3. SumFunction(In(i)) = 0 /\ SumFunction(Out(i)) = 0
    BY <2>1, <2>2, SumOverGroups, SumZero, Constants
  <2> QED
    BY <1>1, <2>3, Fields
<1> QED
  BY <1>1, <1>3 DEF RowInv

\* One field of the row.
LEMMA RowFieldNext ==
  ASSUME TypeOK, PacketInv, RowInv, [Next]_vars, TypeOK', PacketInv', Undisturbed',
         NEW i \in 1 .. 2
  PROVE  /\ statsNow'[LoadOrder[i]] <= SumFunction(In(i)')
         /\ prevStats'[LoadOrder[i]] <= statsNow'[LoadOrder[i]] + SumFunction(Out(i)')
<1> DEFINE name == LoadOrder[i]
           before(g) == groupStats[g][name]
           after(g) == groupStats'[g][name]
<1>0. /\ name = IF i = 1 THEN "Packets" ELSE "OutOfOrder"
      /\ \A j \in 1 .. 3 : LoadOrder[j] = name <=> j = i
      /\ statsNow \in TotalsType /\ statsNow[name] \in Nat /\ prevStats[name] \in Nat
      /\ NoTotals[name] = 0 /\ Groups \subseteq DOMAIN groupStats
      /\ \A g \in Groups : /\ before(g) \in Nat /\ after(g) \in Nat
                           /\ groupStats[g] \in GroupStatsType
  BY Fields DEF TypeOK, PacketInv
<1>1. ASSUME Undisturbed
      PROVE  /\ statsNow[name] <= SumFunction(In(i))
             /\ prevStats[name] <= statsNow[name] + SumFunction(Out(i))
  BY <1>1 DEF RowInv
<1>2. /\ SumFunction(In(i)) = SumFunctionOnSet(In(i), Groups)
      /\ SumFunction(In(i)') = SumFunctionOnSet(In(i)', Groups)
      /\ SumFunction(Out(i)) = SumFunctionOnSet(Out(i), Groups)
      /\ SumFunction(Out(i)') = SumFunctionOnSet(Out(i)', Groups)
  <2>1. /\ DOMAIN In(i) = Groups /\ DOMAIN Out(i) = Groups
        /\ DOMAIN (In(i)') = Groups /\ DOMAIN (Out(i)') = Groups
    BY DEF In, Out
  <2> QED
    BY <2>1, SumOverGroups
<1>3. \A g \in Groups :
        /\ In(i)[g] = IF g \in Loaded(i) THEN before(g) ELSE 0
        /\ Out(i)[g] = IF g \in Loaded(i) THEN 0 ELSE before(g)
        /\ In(i)'[g] = IF g \in Loaded(i)' THEN after(g) ELSE 0
        /\ Out(i)'[g] = IF g \in Loaded(i)' THEN 0 ELSE after(g)
  BY DEF In, Out
<1>4. IsFiniteSet(Groups)
  BY Constants
<1> DEFINE in == In(i)
           out == Out(i)
           inNext == In(i)'
           outNext == Out(i)'
           loaded == Loaded(i)
           loadedNext == Loaded(i)'
<1>5. \A g \in Groups : in[g] \in Int /\ out[g] \in Int /\ inNext[g] \in Int /\ outNext[g] \in Int
  BY <1>0, <1>3
<1> HIDE DEF in, out, inNext, outNext, loaded, loadedNext
<1>6. /\ SumFunctionOnSet(in, Groups) \in Int /\ SumFunctionOnSet(inNext, Groups) \in Int
      /\ SumFunctionOnSet(out, Groups) \in Int /\ SumFunctionOnSet(outNext, Groups) \in Int
  BY <1>4, <1>5, SumType
<1> DEFINE Goal == /\ statsNow'[name] <= SumFunctionOnSet(inNext, Groups)
                   /\ prevStats'[name] <= statsNow'[name] + SumFunctionOnSet(outNext, Groups)
           Given == /\ statsNow[name] <= SumFunctionOnSet(in, Groups)
                    /\ prevStats[name] <= statsNow[name] + SumFunctionOnSet(out, Groups)
<1>7. SUFFICES Goal
  BY <1>2 DEF inNext, outNext
<1>8. ASSUME Undisturbed PROVE Given
  BY <1>1, <1>2, <1>8 DEF in, out
\* Nothing is loaded, and the counts stay or grow.
<1>9. ASSUME Undisturbed, \A g \in Groups : before(g) <= after(g), loadedNext = loaded,
             UNCHANGED <<statsNow, prevStats>>
      PROVE  Goal
  <2>1. \A g \in Groups : in[g] <= inNext[g] /\ out[g] <= outNext[g]
    BY <1>0, <1>3, <1>9 DEF in, out, inNext, outNext, loaded, loadedNext
  <2>2. SumFunctionOnSet(in, Groups) <= SumFunctionOnSet(inNext, Groups)
    BY <1>4, <1>5, <2>1, SumMonotone
  <2>3. SumFunctionOnSet(out, Groups) <= SumFunctionOnSet(outNext, Groups)
    BY <1>4, <1>5, <2>1, SumMonotone
  <2>4. statsNow'[name] = statsNow[name] /\ prevStats'[name] = prevStats[name]
    BY <1>9
  <2>5. Given
    BY <1>8, <1>9
  <2> HIDE DEF name
  <2> QED
    BY <1>0, <1>6, <2>2, <2>3, <2>4, <2>5
<1>10. ASSUME NEW g \in Destinations, NEW seq \in 0 .. MaxSeq - 1, Deliver(g, seq)
       PROVE  Goal
  <2>1. /\ Undisturbed /\ \A h \in Groups : groupStats'[h] = groupStats[h]
        /\ UNCHANGED <<iterator, field, statsNow, prevStats>>
    BY <1>10, Undelivered
  <2>2. loadedNext = loaded /\ \A h \in Groups : before(h) <= after(h)
    BY <1>0, <2>1 DEF loaded, loadedNext, Loaded
  <2> QED
    BY <1>9, <2>1, <2>2
<1>11. CASE StoreField
  <2> DEFINE g == updated.group
             old == groupStats[g]
  <2>1. /\ g \in DOMAIN groupStats /\ DOMAIN groupStats' = DOMAIN groupStats
        /\ \A h \in DOMAIN groupStats : h # g => groupStats'[h] = groupStats[h]
        /\ old.Packets <= groupStats'[g].Packets
        /\ old.OutOfOrder <= groupStats'[g].OutOfOrder
        /\ UNCHANGED <<iterator, field, statsNow, prevStats>>
    BY <1>11, StoreEffect
  <2>2. Undisturbed
    BY <2>1 DEF Undisturbed
  <2>3. loadedNext = loaded
    BY <2>1 DEF loaded, loadedNext, Loaded
  <2>4. \A h \in Groups : before(h) <= after(h)
    BY <1>0, <2>1
  <2> QED
    BY <1>9, <2>1, <2>2, <2>3, <2>4
<1>12. ASSUME Undisturbed, BeginRow \/ PrintRow PROVE Goal
  <2>1. loadedNext = {} /\ statsNow' = NoTotals /\ groupStats' = groupStats
    BY <1>12, NothingLoaded DEF BeginRow, PrintRow, mainVars, loadedNext
  <2>2. SumFunctionOnSet(inNext, Groups) = 0
    <3>1. \A g \in Groups : inNext[g] = 0
      BY <1>3, <2>1 DEF inNext, loadedNext
    <3> QED
      BY <1>4, <3>1, SumZero
  <2>3. \A g \in Groups : outNext[g] = before(g)
    BY <1>3, <2>1 DEF outNext, loadedNext
  <2>4. Given /\ statsNow'[name] = 0
    BY <1>0, <1>8, <1>12, <2>1
  <2>5. CASE BeginRow
    <3>1. loaded = {} /\ statsNow = NoTotals /\ prevStats' = prevStats
      BY <1>12, <2>5, NothingLoaded DEF BeginRow, RowInv, loaded
    <3>2. \A g \in Groups : out[g] = outNext[g]
      BY <1>3, <2>3, <3>1 DEF out, loaded
    <3>3. SumFunctionOnSet(out, Groups) = SumFunctionOnSet(outNext, Groups)
      BY <1>4, <3>2, SumSame
    <3>4. statsNow[name] = 0 /\ prevStats'[name] = prevStats[name]
      BY <1>0, <3>1
    <3> HIDE DEF name
    <3> QED
      BY <1>0, <1>6, <2>2, <2>4, <3>3, <3>4
  <2>6. CASE PrintRow
    <3>1. loaded = Groups /\ prevStats' = statsNow
      BY <1>12, <2>6, NothingLoaded DEF PrintRow, loaded
    <3>2. \A g \in Groups : in[g] = outNext[g]
      BY <1>3, <2>3, <3>1 DEF in, loaded
    <3>3. SumFunctionOnSet(in, Groups) = SumFunctionOnSet(outNext, Groups)
      BY <1>4, <3>2, SumSame
    <3>4. prevStats'[name] = statsNow[name]
      BY <3>1
    <3> HIDE DEF name
    <3> QED
      BY <1>0, <1>6, <2>2, <2>4, <3>3, <3>4
  <2> QED
    BY <1>12, <2>5, <2>6
<1>13. ASSUME Undisturbed, LoadField PROVE Goal
  <2> DEFINE it == iterator
  <2>1. /\ groupStats' = groupStats /\ prevStats' = prevStats
        /\ statsNow' = [statsNow EXCEPT ![LoadOrder[field]] = @ + groupStats[it][LoadOrder[field]]]
    BY <1>13, LoadEffect
  <2>2. /\ it \in Groups /\ field \in 1 .. 3 /\ it \notin Loaded(field)
        /\ loadedNext = IF i = field THEN loaded \cup {it} ELSE loaded
    BY <1>13, OneLoaded DEF TypeOK, loaded, loadedNext
  <2>3. CASE i # field
    <3>1. statsNow'[name] = statsNow[name]
      BY <1>0, <2>1, <2>2, <2>3
    <3>2. \A g \in Groups : in[g] = inNext[g] /\ out[g] = outNext[g]
      BY <1>3, <2>1, <2>2, <2>3 DEF in, inNext, out, outNext, loaded, loadedNext
    <3>3. /\ SumFunctionOnSet(in, Groups) = SumFunctionOnSet(inNext, Groups)
          /\ SumFunctionOnSet(out, Groups) = SumFunctionOnSet(outNext, Groups)
      BY <1>4, <3>2, SumSame
    <3>4. prevStats'[name] = prevStats[name]
      BY <2>1
    <3> QED
      BY <1>8, <1>13, <3>1, <3>3, <3>4
  <2>4. CASE i = field
    <3>1. statsNow'[name] = statsNow[name] + before(it)
      BY <1>0, <2>1, <2>4 DEF TotalsType
    <3>2. it \notin loaded /\ loadedNext = loaded \cup {it}
      BY <2>2, <2>4 DEF loaded
    <3>3. /\ in[it] = 0 /\ inNext[it] = before(it) /\ out[it] = before(it) /\ outNext[it] = 0
          /\ \A g \in Groups \ {it} : in[g] = inNext[g] /\ out[g] = outNext[g]
      BY <1>3, <2>1, <2>2, <3>2 DEF in, inNext, out, outNext, loaded, loadedNext
    <3>4. /\ SumFunctionOnSet(inNext, Groups) - inNext[it] = SumFunctionOnSet(in, Groups) - in[it]
          /\ SumFunctionOnSet(outNext, Groups) - outNext[it]
               = SumFunctionOnSet(out, Groups) - out[it]
      BY <1>4, <1>5, <2>2, <3>3, SumChange
    <3>5. prevStats'[name] = prevStats[name] /\ Given /\ before(it) \in Nat
      BY <1>0, <1>8, <1>13, <2>1, <2>2
    <3> DEFINE v == before(it)
    <3> HIDE DEF name, v
    <3>6. /\ statsNow'[name] = statsNow[name] + v /\ v \in Nat
          /\ SumFunctionOnSet(inNext, Groups) = SumFunctionOnSet(in, Groups) + v
          /\ SumFunctionOnSet(outNext, Groups) = SumFunctionOnSet(out, Groups) - v
      BY <1>6, <3>1, <3>3, <3>4, <3>5 DEF v
    <3> QED
      BY <1>0, <1>6, <3>5, <3>6
  <2> QED
    BY <2>3, <2>4
<1>14. ASSUME BeginRow \/ PrintRow \/ LoadField PROVE Undisturbed
  BY <1>14, LoadEffect DEF BeginRow, PrintRow, mainVars, Undisturbed
<1>15. CASE UNCHANGED vars
  <2>1. UNCHANGED <<groupStats, iterator, field, statsNow, prevStats>>
    BY <1>15 DEF vars, mainVars, reportVars
  <2>2. Undisturbed /\ loadedNext = loaded /\ \A g \in Groups : before(g) <= after(g)
    BY <1>0, <2>1 DEF Undisturbed, loaded, loadedNext, Loaded
  <2> QED
    BY <1>9, <2>1, <2>2
<1> QED
  BY <1>10, <1>11, <1>12, <1>13, <1>14, <1>15 DEF Next

LEMMA RowNext == TypeOK /\ PacketInv /\ RowInv /\ [Next]_vars => RowInv'
<1> SUFFICES ASSUME TypeOK, PacketInv, RowInv, [Next]_vars PROVE RowInv'
  OBVIOUS
<1>1. TypeOK' /\ PacketInv'
  BY CoreNext
<1>2. ASSUME Undisturbed', NEW i \in 1 .. 2
      PROVE  /\ statsNow'[LoadOrder[i]] <= SumFunction(In(i)')
             /\ prevStats'[LoadOrder[i]] <= statsNow'[LoadOrder[i]] + SumFunction(Out(i)')
  BY <1>1, <1>2, RowFieldNext
<1>3. iterator' = Idle => statsNow' = NoTotals
  <2>1. ASSUME iterator = Idle, UNCHANGED statsNow PROVE statsNow' = NoTotals
    BY <2>1 DEF RowInv
  <2>2. ASSUME NEW g \in Destinations, NEW seq \in 0 .. MaxSeq - 1, Deliver(g, seq), iterator' = Idle
        PROVE  statsNow' = NoTotals
    <3>1. /\ iterator' \in DOMAIN groupStats' \cup {iterator, End} /\ statsNow' = statsNow
      BY <2>2, DeliverEffect
    <3>2. Idle \notin DOMAIN groupStats' \cup {End}
      BY <1>1, Constants DEF TypeOK, Idle, End
    <3> QED
      BY <2>1, <2>2, <3>1, <3>2
  <2>3. ASSUME StoreField \/ UNCHANGED vars, iterator' = Idle PROVE statsNow' = NoTotals
    BY <2>1, <2>3 DEF StoreField, vars, reportVars
  <2>4. ASSUME BeginRow \/ PrintRow PROVE statsNow' = NoTotals
    BY <2>4 DEF BeginRow, PrintRow
  <2>5. ASSUME LoadField PROVE iterator' # Idle
    <3>1. iterator \in DOMAIN groupStats /\ iterator' \in {iterator, NextKey(iterator)}
      BY <2>5, LoadEffect
    <3>2. NextKey(iterator) \in DOMAIN groupStats \cup {End}
      BY NextKeyType
    <3>3. Idle \notin DOMAIN groupStats \cup {End}
      BY Constants DEF TypeOK, Idle, End
    <3> QED
      BY <3>1, <3>2, <3>3
  <2> QED
    BY <2>2, <2>3, <2>4, <2>5 DEF Next
<1> QED
  BY <1>2, <1>3 DEF RowInv

-----------------------------------------------------------------------------
(* What a row claims *)

LEMMA ClaimInit == Init => ClaimInv
<1> SUFFICES ASSUME Init PROVE ClaimInv
  OBVIOUS
<1>1. TypeOK /\ PacketInv
  BY CoreInit
<1>2. iterator = Idle /\ statsNow = NoTotals
  BY DEF Init
<1>3. ASSUME Undisturbed PROVE SumFunction([g \in Groups |-> Claim(g)]) = 0
  <2> DEFINE f == [g \in Groups |-> Claim(g)]
  <2>1. \A g \in Groups : f[g] = 0
    BY <1>1, <1>2, <1>3, NothingLoaded DEF Claim
  <2>2. DOMAIN f = Groups
    OBVIOUS
  <2> HIDE DEF f
  <2>3. SumFunction(f) = 0
    BY <2>1, <2>2, SumOverGroups, SumZero, Constants
  <2> QED
    BY <2>3 DEF f
<1> QED
  BY <1>2, <1>3 DEF ClaimInv, NoTotals

LEMMA ClaimNext ==
  TypeOK /\ PacketInv /\ TrackInv /\ RowInv /\ ClaimInv /\ [Next]_vars => ClaimInv'
<1> SUFFICES ASSUME TypeOK, PacketInv, TrackInv, ClaimInv, [Next]_vars, exact', Undisturbed'
             PROVE  statsNow'.Packets + statsNow'.RxDropped
                      <= SumFunction([g \in Groups |-> Claim(g)'])
  BY DEF ClaimInv
<1> DEFINE claim == [g \in Groups |-> Claim(g)]
           claimNext == [g \in Groups |-> Claim(g)']
<1>0. /\ TypeOK' /\ IsFiniteSet(Groups) /\ Groups \subseteq DOMAIN groupStats
      /\ statsNow.Packets \in Nat /\ statsNow.RxDropped \in Nat
      /\ \A g \in Groups : /\ groupStats[g] \in GroupStatsType
                           /\ groupStats[g].Packets \in Nat /\ groupStats[g].RxDropped \in Nat
                           /\ groupStats'[g].Packets \in Nat
                           /\ received[g] \in SUBSET (0 .. MaxSeq - 1)
                           /\ received'[g] \in SUBSET (0 .. MaxSeq - 1)
  <2>1. TypeOK' /\ PacketInv'
    BY CoreNext
  <2>2. \A g \in Groups : groupStats[g] \in GroupStatsType /\ groupStats'[g] \in GroupStatsType
    BY <2>1 DEF TypeOK, PacketInv
  <2>3. \A g \in Groups : /\ received[g] \in SUBSET (0 .. MaxSeq - 1)
                          /\ received'[g] \in SUBSET (0 .. MaxSeq - 1)
    BY <2>1 DEF TypeOK, Destinations
  <2>4. statsNow.Packets \in Nat /\ statsNow.RxDropped \in Nat
    BY DEF TypeOK, TotalsType
  <2>5. \A st \in GroupStatsType : st.Packets \in Nat /\ st.RxDropped \in Nat
    BY DEF GroupStatsType
  <2>6. IsFiniteSet(Groups) /\ Groups \subseteq DOMAIN groupStats
    BY Constants DEF PacketInv
  <2> QED
    BY <2>1, <2>2, <2>3, <2>4, <2>5, <2>6
<1>1. \A g \in Groups :
        /\ claim[g] = IF g \in Loaded(3) THEN Span(g)
                      ELSE IF g \in Loaded(1) THEN groupStats[g].Packets ELSE 0
        /\ claimNext[g] = IF g \in Loaded(3)' THEN Span(g)'
                          ELSE IF g \in Loaded(1)' THEN groupStats'[g].Packets ELSE 0
        /\ Span(g) \in Nat /\ Span(g)' \in Nat
  <2>1. \A g \in Groups : Span(g) = SpanOf(received[g]) /\ Span(g)' = SpanOf(received'[g])
    BY DEF Span, SpanOf
  <2>2. \A g \in Groups : SpanOf(received[g]) \in Nat /\ SpanOf(received'[g]) \in Nat
    BY <1>0, SpanGrows
  <2> QED
    BY <2>1, <2>2 DEF Claim
<1>2. DOMAIN claim = Groups /\ DOMAIN claimNext = Groups
  OBVIOUS
<1>3. \A g \in Groups : claim[g] \in Int /\ claimNext[g] \in Int
  BY <1>0, <1>1
<1>4. exact /\ Undisturbed => statsNow.Packets + statsNow.RxDropped <= SumFunction(claim)
  BY DEF ClaimInv
<1> HIDE DEF claim, claimNext
<1>5. /\ SumFunction(claim) = SumFunctionOnSet(claim, Groups)
      /\ SumFunction(claimNext) = SumFunctionOnSet(claimNext, Groups)
  BY <1>2, SumOverGroups
<1>6. SumFunctionOnSet(claim, Groups) \in Int /\ SumFunctionOnSet(claimNext, Groups) \in Int
  BY <1>0, <1>3, SumType
<1> DEFINE Goal == statsNow'.Packets + statsNow'.RxDropped <= SumFunctionOnSet(claimNext, Groups)
<1>7. SUFFICES Goal
  BY <1>5 DEF claimNext
\* Nothing is loaded, and what a group may claim stays or grows.
<1>8. ASSUME exact, Undisturbed, UNCHANGED <<iterator, field, statsNow>>,
             \A g \in Groups : /\ groupStats[g].Packets <= groupStats'[g].Packets
                               /\ Span(g) <= Span(g)'
      PROVE  Goal
  <2>1. Loaded(1)' = Loaded(1) /\ Loaded(3)' = Loaded(3)
    BY <1>8 DEF Loaded
  <2>2. \A g \in Groups : claim[g] <= claimNext[g]
    BY <1>1, <1>8, <2>1
  <2>3. SumFunctionOnSet(claim, Groups) <= SumFunctionOnSet(claimNext, Groups)
    BY <1>0, <1>3, <2>2, SumMonotone
  <2> QED
    BY <1>0, <1>4, <1>5, <1>6, <1>8, <2>3
<1>9. ASSUME NEW g \in Destinations, NEW seq \in 0 .. MaxSeq - 1, Deliver(g, seq) PROVE Goal
  <2>1. /\ Undisturbed /\ \A h \in Groups : groupStats'[h] = groupStats[h]
        /\ UNCHANGED <<iterator, field, statsNow>>
    BY <1>9, Undelivered
  <2>2. exact /\ received' = [received EXCEPT ![g] = @ \cup {seq}]
    BY <1>9, DeliverEffect
  <2>3. ASSUME NEW h \in Groups PROVE Span(h) <= Span(h)'
    <3>1. received[h] \in SUBSET received'[h]
      BY <2>2, h \in Destinations DEF TypeOK, Destinations
    <3>2. SpanOf(received[h]) <= SpanOf(received'[h])
      BY <1>0, <3>1, SpanGrows
    <3> QED
      BY <3>2 DEF Span, SpanOf
  <2> QED
    BY <1>0, <1>8, <2>1, <2>2, <2>3
<1>10. CASE StoreField
  <2> DEFINE g == updated.group
             old == groupStats[g]
  <2>1. /\ g \in DOMAIN groupStats /\ DOMAIN groupStats' = DOMAIN groupStats
        /\ \A h \in DOMAIN groupStats : h # g => groupStats'[h] = groupStats[h]
        /\ old.Packets <= groupStats'[g].Packets
        /\ UNCHANGED <<received, exact, iterator, field, statsNow>>
    BY <1>10, StoreEffect
  <2>2. exact /\ Undisturbed /\ \A h \in Groups : Span(h)' = Span(h)
    BY <2>1 DEF Undisturbed, Span
  <2>3. \A h \in Groups : /\ groupStats[h].Packets <= groupStats'[h].Packets
                          /\ Span(h) <= Span(h)'
    BY <1>0, <1>1, <2>1, <2>2
  <2> QED
    BY <1>8, <2>1, <2>2, <2>3
<1>11. CASE BeginRow \/ PrintRow
  <2>1. statsNow' = NoTotals /\ groupStats' = groupStats
    BY <1>11 DEF BeginRow, PrintRow, mainVars
  <2>2. Loaded(1)' = {} /\ Loaded(3)' = {}
    BY <1>11, <2>1, NothingLoaded DEF Undisturbed
  <2>3. \A g \in Groups : claimNext[g] = 0
    BY <1>1, <2>2
  <2>4. SumFunctionOnSet(claimNext, Groups) = 0
    BY <1>0, <2>3, SumZero
  <2> QED
    BY <2>1, <2>4 DEF NoTotals
<1>12. CASE LoadField
  <2> DEFINE it == iterator
             name == LoadOrder[field]
             st == groupStats[it]
  <2>1. /\ name = IF field = 1 THEN "Packets" ELSE IF field = 2 THEN "OutOfOrder" ELSE "RxDropped"
        /\ statsNow' = [statsNow EXCEPT ![name] = @ + st[name]]
        /\ UNCHANGED <<groupStats, received, exact>>
    BY <1>12, LoadEffect
  <2>2. Undisturbed /\ exact /\ \A g \in Groups : Span(g)' = Span(g)
    BY <2>1 DEF Undisturbed, Span
  <2>3. /\ it \in Groups /\ field \in 1 .. 3 /\ it \notin Loaded(field)
        /\ field = 3 => it \in Loaded(1)
        /\ field = 1 => it \notin Loaded(3)
        /\ Loaded(1)' = IF field = 1 THEN Loaded(1) \cup {it} ELSE Loaded(1)
        /\ Loaded(3)' = IF field = 3 THEN Loaded(3) \cup {it} ELSE Loaded(3)
    BY <1>12, <2>2, OneLoaded DEF TypeOK
  <2>4. /\ st.Packets \in Nat /\ st.RxDropped \in Nat /\ Span(it) \in Nat
        /\ st.Packets + st.RxDropped <= Span(it)
    BY <1>0, <1>1, <2>2, <2>3 DEF TrackInv
  <2>5. /\ statsNow'.Packets = IF field = 1 THEN statsNow.Packets + st.Packets ELSE statsNow.Packets
        /\ statsNow'.RxDropped = IF field = 3 THEN statsNow.RxDropped + st.RxDropped
                                 ELSE statsNow.RxDropped
    BY <2>1, <2>3 DEF TypeOK, TotalsType
  <2>6. statsNow.Packets + statsNow.RxDropped <= SumFunctionOnSet(claim, Groups)
    BY <1>4, <1>5, <2>2
  <2>7. \A g \in Groups \ {it} : claim[g] = claimNext[g]
    BY <1>1, <2>1, <2>2, <2>3
  <2>8. SumFunctionOnSet(claimNext, Groups) - claimNext[it]
          = SumFunctionOnSet(claim, Groups) - claim[it]
    BY <1>0, <1>3, <2>3, <2>7, SumChange
  <2>9. CASE field = 1
    <3>1. claim[it] = 0 /\ claimNext[it] = st.Packets
      BY <1>1, <2>1, <2>3, <2>9
    <3> HIDE DEF st
    <3> QED
      BY <1>0, <1>6, <2>4, <2>5, <2>6, <2>8, <2>9, <3>1
  <2>10. CASE field = 2
    <3>1. claim[it] = claimNext[it] /\ claim[it] \in Int
      BY <1>1, <1>3, <2>1, <2>2, <2>3, <2>10
    <3> QED
      BY <1>0, <1>6, <2>5, <2>6, <2>8, <2>10, <3>1
  <2>11. CASE field = 3
    <3>1. claim[it] = st.Packets /\ claimNext[it] = Span(it)
      BY <1>1, <2>2, <2>3, <2>11
    <3> HIDE DEF st
    <3> QED
      BY <1>0, <1>6, <2>4, <2>5, <2>6, <2>8, <2>11, <3>1
  <2> QED
    BY <2>3, <2>9, <2>10, <2>11
<1>13. CASE UNCHANGED vars
  <2>1. UNCHANGED <<groupStats, received, exact, iterator, field, statsNow>>
    BY <1>13 DEF vars, mainVars, reportVars
  <2>2. exact /\ Undisturbed /\ \A g \in Groups : Span(g)' = Span(g)
    BY <2>1 DEF Undisturbed, Span
  <2> QED
    BY <1>0, <1>1, <1>8, <2>1, <2>2
<1> QED
  BY <1>9, <1>10, <1>11, <1>12, <1>13 DEF Next

-----------------------------------------------------------------------------
(* The theorems *)

(* The inductive core: types, and the packet that is in the main thread's  *)
(* hands between two of its stores.                                        *)
THEOREM CoreInvariance == Spec => [](TypeOK /\ PacketInv)
  BY CoreInit, CoreNext, PTL DEF Spec

(* Whatever the two threads do between two stores or two loads, every      *)
(* counter stays a natural number, and the iterator is at a group of the   *)
(* map (RioConsumer.cpp:161-187, :243-254).                                *)
THEOREM TypeCorrect == Spec => []TypeOK
  BY CoreInvariance, PTL

(* Between any two stores a group is tracked exactly and claims no more    *)
(* than was sent to it (RioConsumer.cpp:169-186).                          *)
THEOREM TrackInvariance == Spec => []TrackInv
  BY CoreInvariance, TrackInit, TrackNext, PTL DEF Spec

(* The totals of a row lie between those of the row before it and what is  *)
(* counted when it is ready (RioConsumer.cpp:243-254, :275-283).           *)
THEOREM RowInvariance == Spec => []RowInv
  BY CoreInvariance, RowInit, RowNext, PTL DEF Spec

(* Without duplicates, packets from before the first one and stray         *)
(* destinations, PKTS and MISSING of a row together are never more than    *)
(* what was sent, although they are counters of different moments          *)
(* (RioConsumer.cpp:169-186, :247-252).                                    *)
THEOREM RowsWithinSent == Spec => []RowWithinSent
<1>1. TypeOK /\ PacketInv /\ ClaimInv => RowWithinSent
  <2> SUFFICES ASSUME ClaimInv, RowReady, exact
               PROVE  statsNow.Packets + statsNow.RxDropped
                        <= SumFunction([g \in Groups |-> Span(g)])
    BY DEF RowWithinSent
  <2>1. iterator = End /\ Undisturbed
    BY DEF RowReady, Undisturbed
  <2>2. [g \in Groups |-> Claim(g)] = [g \in Groups |-> Span(g)]
    BY <2>1 DEF Claim, Loaded
  <2> QED
    BY <2>1, <2>2 DEF ClaimInv
<1> QED
  BY CoreInvariance, TrackInvariance, RowInvariance, ClaimInit, ClaimNext, <1>1, PTL DEF Spec

(* Until a stray destination is inserted, the columns of a period are never *)
(* below zero or above the running total of their row: packets and packets *)
(* out of order do not go back from row to row, and drops that do are      *)
(* guarded (RioConsumer.cpp:275-282).                                      *)
THEOREM ColumnsInRange == Spec => []PeriodsInRange
<1>1. TypeOK /\ PacketInv /\ RowInv => PeriodsInRange
  <2> SUFFICES ASSUME TypeOK, PacketInv, RowInv, RowReady, NEW name \in DOMAIN NoTotals
               PROVE  Period(prevStats, statsNow)[name] \in 0 .. statsNow[name]
    BY DEF PeriodsInRange
  <2>1. iterator = End /\ Undisturbed
    BY DEF RowReady, Undisturbed
  <2>2. /\ statsNow.Packets \in Nat /\ statsNow.OutOfOrder \in Nat /\ statsNow.RxDropped \in Nat
        /\ prevStats.Packets \in Nat /\ prevStats.OutOfOrder \in Nat /\ prevStats.RxDropped \in Nat
    BY DEF TypeOK, TotalsType
  <2>3. ASSUME NEW i \in 1 .. 2 PROVE prevStats[LoadOrder[i]] <= statsNow[LoadOrder[i]]
    <3>1. prevStats[LoadOrder[i]] <= statsNow[LoadOrder[i]] + SumFunction(Out(i))
      BY <2>1 DEF RowInv
    <3>2. SumFunction(Out(i)) = 0
      <4>1. \A g \in Groups : Out(i)[g] = 0
        BY <2>1 DEF Out, Loaded
      <4>2. DOMAIN Out(i) = Groups
        BY DEF Out
      <4> QED
        BY <4>1, <4>2, SumOverGroups, SumZero, Constants
    <3>3. statsNow[LoadOrder[i]] \in Nat
      BY Fields DEF TypeOK
    <3> QED
      BY <3>1, <3>2, <3>3
  <2>4. prevStats.Packets <= statsNow.Packets /\ prevStats.OutOfOrder <= statsNow.OutOfOrder
    BY <2>3, Fields
  <2> DEFINE least == Min({prevStats.RxDropped, statsNow.RxDropped})
  <2>5. least \in Nat /\ least <= statsNow.RxDropped
    <3> DEFINE S == {prevStats.RxDropped, statsNow.RxDropped}
    <3>1. S \in SUBSET Nat /\ S # {} /\ statsNow.RxDropped \in S
      BY <2>2
    <3> HIDE DEF S
    <3>2. Min(S) \in S /\ Min(S) <= statsNow.RxDropped
      BY <3>1, MinProperties
    <3> QED
      BY <3>1, <3>2 DEF S
  <2>6. Period(prevStats, statsNow)
          = [Packets |-> statsNow.Packets - prevStats.Packets,
             OutOfOrder |-> statsNow.OutOfOrder - prevStats.OutOfOrder,
             RxDropped |-> statsNow.RxDropped - least]
    BY DEF Period
  <2>7. name \in {"Packets", "OutOfOrder", "RxDropped"}
    BY DEF NoTotals
  <2> HIDE DEF least
  <2>8. CASE name = "Packets"
    BY <2>2, <2>4, <2>6, <2>8
  <2>9. CASE name = "OutOfOrder"
    BY <2>2, <2>4, <2>6, <2>9
  <2>10. CASE name = "RxDropped"
    BY <2>2, <2>5, <2>6, <2>10
  <2> QED
    BY <2>7, <2>8, <2>9, <2>10
<1> QED
  BY CoreInvariance, RowInvariance, <1>1, PTL
=============================================================================
