----------------------- MODULE SequenceTrackingProofs -----------------------
(***************************************************************************)
(* Proofs about SequenceTracking for every SeqMod, MaxSeq and              *)
(* MaxDeliveries.  The inductive invariant ties the five counters to the   *)
(* packets delivered: the highest number delivered is remembered, and the  *)
(* drop counter is compared with the set of missing numbers, which the     *)
(* properties alone do not say enough about.                               *)
(***************************************************************************)
EXTENDS SequenceTracking, SharedLemmas

\* Nothing delivered: nothing counted.  Otherwise Sequence is the highest
\* number delivered, and `first` one that was delivered.
WindowInv ==
  /\ received = {} => st = InitGroupStats /\ exact
  /\ received # {} =>
       /\ st.Packets > 0
       /\ first \in received
       /\ st.Sequence \in received
       /\ st.ExpectedSequence = st.Sequence + 1
       /\ \A seq \in received : seq <= st.Sequence

\* The drop counter and the missing numbers.
LossInv ==
  /\ st.RxDropped <= Cardinality(Missing)
  /\ exact /\ received # {} =>
       /\ st.RxDropped = Cardinality(Missing)
       /\ st.Packets + st.RxDropped = st.ExpectedSequence - first
       /\ \A seq \in received : first <= seq

TrackingInv == TypeOK /\ WindowInv /\ LossInv

-----------------------------------------------------------------------------
(* The set of missing numbers *)

LEMMA MissingFinite ==
  ASSUME TypeOK
  PROVE  IsFiniteSet(Missing) /\ Cardinality(Missing) \in Nat
<1>1. IsFiniteSet(first .. st.ExpectedSequence - 1)
  BY FS_Interval DEF TypeOK, GroupStatsType
<1>2. IsFiniteSet(Missing)
  BY <1>1, FS_Difference DEF Missing
<1> QED
  BY <1>2, FS_CardinalityType

\* Disjoint union with an interval.
LEMMA CardinalityWithGap ==
  ASSUME NEW S, IsFiniteSet(S), NEW a \in Nat, NEW b \in Nat, a <= b,
         S \cap (a .. b - 1) = {}
  PROVE  Cardinality(S \cup (a .. b - 1)) = Cardinality(S) + (b - a)
<1>0. a \in Int /\ b - 1 \in Int
  OBVIOUS
<1>1. IsFiniteSet(a .. b - 1) /\ Cardinality(a .. b - 1) = b - a
  <2>1. /\ IsFiniteSet(a .. b - 1)
        /\ Cardinality(a .. b - 1) = IF a > b - 1 THEN 0 ELSE (b - 1) - a + 1
    BY <1>0, FS_Interval
  <2> QED
    BY <2>1
<1>2. Cardinality(S \cap (a .. b - 1)) = 0
  BY FS_EmptySet
<1>3. Cardinality(S) \in Nat
  BY FS_CardinalityType
<1>4. Cardinality(S \cup (a .. b - 1))
        = Cardinality(S) + Cardinality(a .. b - 1) - Cardinality(S \cap (a .. b - 1))
  BY <1>1, FS_Union
<1> QED
  BY <1>1, <1>2, <1>3, <1>4

-----------------------------------------------------------------------------
LEMMA TypeInvariant == TypeOK /\ [Next]_vars => TypeOK'
<1> SUFFICES ASSUME TypeOK, [Next]_vars PROVE TypeOK'
  OBVIOUS
<1> USE TrackingAssumption, SeqModAssumption
<1>1. CASE Send
  BY <1>1 DEF TypeOK, Send, SeqNumbers
<1>2. CASE RestartSender
  BY <1>2 DEF TypeOK, RestartSender
<1>3. ASSUME NEW seq \in network, Lose(seq) PROVE TypeOK'
  BY <1>3 DEF TypeOK, Lose
<1>4. ASSUME NEW seq \in network, NEW again \in BOOLEAN, Deliver(seq, again) PROVE TypeOK'
  <2>1. seq \in Nat /\ seq + 1 < SeqMod /\ st \in GroupStatsType /\ st.ExpectedSequence \in Nat
    BY DEF TypeOK, SeqNumbers, GroupStatsType
  <2>2. ConsumerStatsUpdate(st, seq) \in GroupStatsType
    BY <2>1, UpdateForward, UpdateBehind
  <2> QED
    BY <1>4, <2>1, <2>2 DEF TypeOK, Deliver, SeqNumbers
<1>5. CASE UNCHANGED vars
  BY <1>5 DEF TypeOK, vars
<1> QED
  BY <1>1, <1>2, <1>3, <1>4, <1>5 DEF Next

LEMMA InitInvariant == Init => TrackingInv
<1> SUFFICES ASSUME Init PROVE TrackingInv
  OBVIOUS
<1> USE TrackingAssumption, SeqModAssumption
<1>1. TypeOK
  BY DEF Init, TypeOK, InitGroupStats, GroupStatsType
<1>2. Cardinality(Missing) \in Nat
  BY <1>1, MissingFinite
<1> QED
  BY <1>1, <1>2 DEF Init, TrackingInv, WindowInv, LossInv, InitGroupStats

\* The delivery step, by the place of the packet in the window.
LEMMA DeliverInvariant ==
  ASSUME TrackingInv, TypeOK', NEW seq \in network, NEW again \in BOOLEAN, Deliver(seq, again)
  PROVE  WindowInv' /\ LossInv'
<1> USE TrackingAssumption, SeqModAssumption
<1> DEFINE t == ConsumerStatsUpdate(st, seq)
           M == Missing
<1>1. /\ seq \in Nat /\ seq + 1 < SeqMod /\ st \in GroupStatsType /\ first \in Nat
      /\ st.ExpectedSequence \in Nat /\ st.Sequence \in Nat /\ st.Packets \in Nat
      /\ st.RxDropped \in Nat /\ received \subseteq Nat /\ exact \in BOOLEAN
  BY DEF TrackingInv, TypeOK, SeqNumbers, GroupStatsType
<1>2. /\ st' = t /\ received' = received \cup {seq}
      /\ first' = IF received = {} THEN seq ELSE first
      /\ exact' = (exact /\ (received = {} \/ (seq \notin received /\ seq > first)))
  BY DEF Deliver
<1>3. IsFiniteSet(M) /\ Cardinality(M) \in Nat
  BY MissingFinite DEF TrackingInv
<1>4. WindowInv /\ LossInv
  BY DEF TrackingInv
<1>5. CASE received = {}
  <2>1. st.ExpectedSequence = 0 /\ st.Packets = 0 /\ st.RxDropped = 0
    BY <1>4, <1>5 DEF WindowInv, InitGroupStats
  <2>2. t.Packets = 1 /\ t.Sequence = seq /\ t.ExpectedSequence = seq + 1 /\ t.RxDropped = 0
    BY <1>1, <2>1, UpdateForward
  <2>3. Missing' = {}
    BY <1>1, <1>2, <1>5, <2>2 DEF Missing
  <2>4. Cardinality(Missing') = 0
    BY <2>3, FS_EmptySet
  <2>5. received' = {seq} /\ first' = seq
    BY <1>2, <1>5
  <2> QED
    BY <1>1, <1>2, <2>2, <2>4, <2>5 DEF WindowInv, LossInv
<1>6. CASE received # {} /\ seq >= st.ExpectedSequence
  <2>1. /\ st.Packets > 0 /\ first \in received /\ st.Sequence \in received
        /\ st.ExpectedSequence = st.Sequence + 1
        /\ \A s \in received : s <= st.Sequence
    BY <1>4, <1>6 DEF WindowInv
  <2>2. /\ t.Packets = st.Packets + 1 /\ t.Sequence = seq /\ t.ExpectedSequence = seq + 1
        /\ t.RxDropped = st.RxDropped + (seq - st.ExpectedSequence)
    BY <1>1, <1>6, <2>1, UpdateForward
  <2>3. Missing' = M \cup (st.ExpectedSequence .. seq - 1)
    BY <1>1, <1>2, <1>6, <2>1, <2>2 DEF Missing
  <2>4. M \cap (st.ExpectedSequence .. seq - 1) = {}
    BY <1>1 DEF Missing
  <2>5. Cardinality(Missing') = Cardinality(M) + (seq - st.ExpectedSequence)
    BY <1>1, <1>3, <1>6, <2>3, <2>4, CardinalityWithGap
  <2>6. first' = first /\ received' # {}
    BY <1>2, <1>6
  <2>7. WindowInv'
    BY <1>1, <1>2, <1>6, <2>1, <2>2, <2>6 DEF WindowInv
  <2>8. (st.RxDropped <= Cardinality(Missing))'
    BY <1>1, <1>2, <1>3, <1>4, <1>6, <2>2, <2>5 DEF LossInv
  <2>9. ASSUME exact'
        PROVE  /\ t.RxDropped = Cardinality(Missing')
               /\ t.Packets + t.RxDropped = t.ExpectedSequence - first
               /\ \A s \in received' : first <= s
    <3>1. exact
      BY <1>2, <2>9
    <3>2. /\ st.RxDropped = Cardinality(M)
          /\ st.Packets + st.RxDropped = st.ExpectedSequence - first
          /\ \A s \in received : first <= s
      BY <1>4, <1>6, <3>1 DEF LossInv
    <3> QED
      BY <1>1, <1>2, <1>3, <1>6, <2>1, <2>2, <2>5, <3>2
  <2> QED
    BY <1>2, <2>6, <2>7, <2>8, <2>9 DEF LossInv
<1>7. CASE received # {} /\ seq < st.ExpectedSequence
  <2>1. /\ st.Packets > 0 /\ first \in received /\ st.Sequence \in received
        /\ st.ExpectedSequence = st.Sequence + 1
        /\ \A s \in received : s <= st.Sequence
    BY <1>4, <1>7 DEF WindowInv
  <2>2. /\ t.Packets = st.Packets + 1 /\ t.Sequence = st.Sequence
        /\ t.ExpectedSequence = st.ExpectedSequence
        /\ t.RxDropped = IF st.RxDropped > 0 THEN st.RxDropped - 1 ELSE st.RxDropped
    BY <1>1, <1>7, UpdateBehind
  <2>3. first' = first /\ received' # {}
    BY <1>2, <1>7
  <2>4. WindowInv'
    BY <1>1, <1>2, <1>7, <2>1, <2>2, <2>3 DEF WindowInv
  <2>5. Missing' = M \ {seq}
    BY <1>2, <2>2, <2>3 DEF Missing
  <2>6. Cardinality(Missing') = IF seq \in M THEN Cardinality(M) - 1 ELSE Cardinality(M)
    BY <1>3, <2>5, FS_RemoveElement
  <2>7. seq \in M => Cardinality(M) > 0
    BY <1>3, FS_EmptySet
  <2>8. (st.RxDropped <= Cardinality(Missing))'
    BY <1>1, <1>2, <1>3, <1>4, <2>2, <2>6, <2>7 DEF LossInv
  <2>9. ASSUME exact'
        PROVE  /\ t.RxDropped = Cardinality(Missing')
               /\ t.Packets + t.RxDropped = t.ExpectedSequence - first
               /\ \A s \in received' : first <= s
    <3>1. exact /\ seq \notin received /\ seq > first
      BY <1>2, <1>7, <2>9
    <3>2. /\ st.RxDropped = Cardinality(M)
          /\ st.Packets + st.RxDropped = st.ExpectedSequence - first
          /\ \A s \in received : first <= s
      BY <1>4, <1>7, <3>1 DEF LossInv
    <3>3. seq \in M
      BY <1>1, <1>7, <3>1 DEF Missing
    <3> QED
      BY <1>1, <1>2, <1>3, <2>2, <2>6, <2>7, <3>1, <3>2, <3>3
  <2> QED
    BY <1>2, <2>3, <2>4, <2>8, <2>9 DEF LossInv
<1> QED
  BY <1>1, <1>5, <1>6, <1>7

LEMMA NextInvariant == TrackingInv /\ [Next]_vars => TrackingInv'
<1> SUFFICES ASSUME TrackingInv, [Next]_vars PROVE TrackingInv'
  OBVIOUS
<1>1. TypeOK'
  BY TypeInvariant DEF TrackingInv
<1>2. ASSUME UNCHANGED <<st, received, first, exact>> PROVE TrackingInv'
  BY <1>1, <1>2 DEF TrackingInv, WindowInv, LossInv, Missing
<1>3. CASE Send
  BY <1>2, <1>3 DEF Send
<1>4. CASE RestartSender
  BY <1>2, <1>4 DEF RestartSender
<1>5. ASSUME NEW seq \in network, Lose(seq) PROVE TrackingInv'
  BY <1>2, <1>5 DEF Lose
<1>6. ASSUME NEW seq \in network, NEW again \in BOOLEAN, Deliver(seq, again) PROVE TrackingInv'
  BY <1>1, <1>6, DeliverInvariant DEF TrackingInv
<1>7. CASE UNCHANGED vars
  BY <1>2, <1>7 DEF vars
<1> QED
  BY <1>3, <1>4, <1>5, <1>6, <1>7 DEF Next

-----------------------------------------------------------------------------
(* The theorems *)

\* The inductive invariant holds in every reachable state of the statistics
\* (RioConsumer.cpp:163-187).
THEOREM Invariance == Spec => []TrackingInv
  BY InitInvariant, NextInvariant, PTL DEF Spec

\* Every counter stays a natural number: no decrement of RxDropped wraps around
\* (RioConsumer.cpp:181-182).
THEOREM TypeCorrect == Spec => []TypeOK
<1>1. TrackingInv => TypeOK
  BY DEF TrackingInv
<1> QED
  BY Invariance, <1>1, PTL

\* The drop counter is at most the number of missing packets, whatever the
\* network and the sender do (RioConsumer.cpp:173-184).
THEOREM LossBound == Spec => []NeverOverstatesLoss
<1>1. TrackingInv => NeverOverstatesLoss
  BY DEF TrackingInv, LossInv, NeverOverstatesLoss
<1> QED
  BY Invariance, <1>1, PTL

\* Without duplicates and without packets from before the first one, it is
\* exactly that number (RioConsumer.cpp:173-184).
THEOREM LossExact == Spec => []ExactWithoutDuplicates
<1>1. TrackingInv => ExactWithoutDuplicates
  <2> SUFFICES ASSUME TrackingInv, exact PROVE st.RxDropped = Cardinality(Missing)
    BY DEF ExactWithoutDuplicates
  <2>1. CASE received = {}
    <3>1. st.ExpectedSequence = 0 /\ st.RxDropped = 0 /\ first \in Nat
      BY <2>1 DEF TrackingInv, WindowInv, InitGroupStats, TypeOK
    <3>2. Missing = {}
      BY <3>1 DEF Missing
    <3> QED
      BY <3>1, <3>2, FS_EmptySet
  <2>2. CASE received # {}
    BY <2>2 DEF TrackingInv, LossInv
  <2> QED
    BY <2>1, <2>2
<1> QED
  BY Invariance, <1>1, PTL

\* The last sequence is the highest delivered, and the next one is expected
\* (RioConsumer.cpp:169-178).
THEOREM HighWater == Spec => []HighWaterMark
<1>1. TrackingInv => HighWaterMark
  BY DEF TrackingInv, WindowInv, HighWaterMark
<1> QED
  BY Invariance, <1>1, PTL

\* Packets counted and drops fill the range of numbers (RioConsumer.cpp:169-186).
THEOREM RangeFilled == Spec => []RangeAccounted
<1>1. TrackingInv => RangeAccounted
  BY DEF TrackingInv, LossInv, RangeAccounted
<1> QED
  BY Invariance, <1>1, PTL

\* No step makes a counter smaller, except that a packet counted out of order
\* takes back one drop (RioConsumer.cpp:169-186).
THEOREM Monotone == Spec => CountersMonotone
<1> USE TrackingAssumption, SeqModAssumption
<1> DEFINE Grows ==
       /\ st'.Packets >= st.Packets
       /\ st'.OutOfOrder >= st.OutOfOrder
       /\ st'.ExpectedSequence >= st.ExpectedSequence
       /\ \/ st'.RxDropped >= st.RxDropped
          \/ st'.RxDropped = st.RxDropped - 1 /\ st'.OutOfOrder = st.OutOfOrder + 1
<1>1. TypeOK /\ [Next]_vars => [Grows]_vars
  <2> SUFFICES ASSUME TypeOK, Next PROVE Grows
    OBVIOUS
  <2>1. /\ st.Packets \in Nat /\ st.OutOfOrder \in Nat /\ st.ExpectedSequence \in Nat
        /\ st.RxDropped \in Nat /\ st \in GroupStatsType
    BY DEF TypeOK, GroupStatsType
  <2>2. ASSUME st' = st PROVE Grows
    BY <2>1, <2>2
  <2>3. ASSUME NEW seq \in network, NEW again \in BOOLEAN, Deliver(seq, again) PROVE Grows
    <3>1. seq \in Nat /\ seq + 1 < SeqMod /\ st' = ConsumerStatsUpdate(st, seq)
      BY <2>3 DEF TypeOK, SeqNumbers, Deliver
    <3>2. CASE seq >= st.ExpectedSequence
      BY <2>1, <3>1, <3>2, UpdateForward
    <3>3. CASE seq < st.ExpectedSequence
      BY <2>1, <3>1, <3>3, UpdateBehind
    <3> QED
      BY <2>1, <3>1, <3>2, <3>3
  <2> QED
    BY <2>2, <2>3 DEF Next, Send, RestartSender, Lose
<1> QED
  BY TypeCorrect, <1>1, PTL DEF Spec, CountersMonotone
=============================================================================
