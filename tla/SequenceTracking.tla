-------------------------- MODULE SequenceTracking --------------------------
(***************************************************************************)
(* What the sequence statistics of one multicast group mean.  A sender     *)
(* numbers its packets 0, 1, 2, ... and may be restarted; the network      *)
(* loses, duplicates and reorders them; RioConsumer::GroupStatsUpdate      *)
(* keeps five counters and remembers no packet.  The history variables     *)
(* remember every one, and the properties compare the two.                 *)
(***************************************************************************)
EXTENDS McGroupStats, Integers, FiniteSets

CONSTANTS
  MaxSeq,        \* bound of the model: the sender stops before this number
  MaxDeliveries  \* bound of the model: packets delivered, duplicates included

\* No run is long enough for ExpectedSequence to wrap around.
ASSUME TrackingAssumption ==
  MaxSeq \in Nat /\ MaxSeq < SeqMod /\ MaxDeliveries \in Nat

VARIABLES
  nextSeq,   \* the sender's next sequence number
  network,   \* sequence numbers in flight
  st,        \* the consumer's McGroupStats_t
  received,  \* history: the sequence numbers delivered so far
  first,     \* history: the one delivered first
  exact      \* history: no duplicate, and none from before `first`, was delivered

vars == <<nextSeq, network, st, received, first, exact>>

SeqNumbers == 0 .. MaxSeq - 1

Init ==
  /\ nextSeq = 0 /\ network = {}
  /\ st = InitGroupStats
  /\ received = {} /\ first = 0 /\ exact = TRUE

\* The sender, as the consumer relies on it.
Send ==
  /\ nextSeq < MaxSeq
  /\ network' = network \cup {nextSeq} /\ nextSeq' = nextSeq + 1
  /\ UNCHANGED <<st, received, first, exact>>

\* A new sender process starts again at 0.
RestartSender ==
  /\ nextSeq > 0
  /\ nextSeq' = 0
  /\ UNCHANGED <<network, st, received, first, exact>>

Lose(seq) ==
  /\ network' = network \ {seq}
  /\ UNCHANGED <<nextSeq, st, received, first, exact>>

\* Any packet in flight is delivered next; `again` leaves a copy in flight.
Deliver(seq, again) ==
  /\ st.Packets < MaxDeliveries
  /\ network' = IF again THEN network ELSE network \ {seq}
  /\ st' = ConsumerStatsUpdate(st, seq)
  /\ received' = received \cup {seq}
  /\ first' = IF received = {} THEN seq ELSE first
  /\ exact' = (exact /\ (received = {} \/ (seq \notin received /\ seq > first)))
  /\ UNCHANGED nextSeq

Next ==
  \/ Send
  \/ RestartSender
  \/ \E seq \in network : Lose(seq)
  \/ \E seq \in network, again \in BOOLEAN : Deliver(seq, again)

Spec == Init /\ [][Next]_vars

-----------------------------------------------------------------------------
(* Properties *)

TypeOK ==
  /\ nextSeq \in 0 .. MaxSeq
  /\ network \subseteq SeqNumbers
  /\ st \in GroupStatsType
  /\ received \subseteq SeqNumbers
  /\ first \in Nat
  /\ exact \in BOOLEAN

\* The numbers from the first one on that were passed over and not delivered.
Missing == (first .. st.ExpectedSequence - 1) \ received

\* The drop counter never claims a loss that did not happen: whatever the
\* network does, it is at most the number of packets that are really missing
\* (RioConsumer.cpp:173-184).
NeverOverstatesLoss == st.RxDropped <= Cardinality(Missing)

\* As long as no packet came twice and none came from before the first one,
\* the drop counter is exactly the number of missing packets: a late packet
\* takes back the drop it was counted as (RioConsumer.cpp:173-184).
ExactWithoutDuplicates == exact => st.RxDropped = Cardinality(Missing)

\* The printed last sequence is the highest one delivered, and the next one is
\* expected; a late packet or a restarted sender does not pull it back
\* (RioConsumer.cpp:169-178).
HighWaterMark ==
  received # {} =>
    /\ st.Sequence \in received
    /\ \A seq \in received : seq <= st.Sequence
    /\ st.ExpectedSequence = st.Sequence + 1

\* Every packet passed over is accounted for once, as long as no packet came twice
\* and none came from before the first one: those counted in order, those out of
\* order and the missing ones fill the range from the first sequence number to the
\* expected one (RioConsumer.cpp:169-186).
RangeAccounted ==
  exact /\ received # {} => st.Packets + st.RxDropped = st.ExpectedSequence - first

\* The counters of a report never go back, except for the drops that late
\* packets take back one at a time (RioConsumer.cpp:181-186, :278).
CountersMonotone ==
  [][/\ st'.Packets >= st.Packets
     /\ st'.OutOfOrder >= st.OutOfOrder
     /\ st'.ExpectedSequence >= st.ExpectedSequence
     /\ \/ st'.RxDropped >= st.RxDropped
        \/ st'.RxDropped = st.RxDropped - 1 /\ st'.OutOfOrder = st.OutOfOrder + 1]_vars

=============================================================================
