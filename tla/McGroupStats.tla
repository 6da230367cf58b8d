---------------------------- MODULE McGroupStats ----------------------------
(***************************************************************************)
(* The statistics of one multicast group (struct McGroupStats_t) and the   *)
(* two functions that update them.  Bytes is left out: it is increased by  *)
(* the constant EXPECTED_DATA_SIZE exactly where Packets is increased.     *)
(***************************************************************************)
EXTENDS Naturals

CONSTANT SeqMod  \* 2^64 in the code: sequence numbers are uint64_t

ASSUME SeqModAssumption == SeqMod \in Nat /\ SeqMod > 1

GroupStatsType ==
  [Packets : Nat, Sequence : Nat, ExpectedSequence : Nat, OutOfOrder : Nat, RxDropped : Nat]

InitGroupStats ==
  [Packets |-> 0, Sequence |-> 0, ExpectedSequence |-> 0, OutOfOrder |-> 0, RxDropped |-> 0]

\* The received sequence number is the expected one.
InSequence(st, seq) ==
  [st EXCEPT !.ExpectedSequence = (@ + 1) % SeqMod, !.Sequence = seq]

\* Faulty variants of the next definition.
AheadCountsFirst(st, seq) ==
  [st EXCEPT !.RxDropped = @ + (seq - st.ExpectedSequence),
             !.ExpectedSequence = (seq + 1) % SeqMod, !.Sequence = seq]
AheadReplacesDrops(st, seq) ==
  [st EXCEPT !.RxDropped = IF st.Packets # 0 THEN seq - st.ExpectedSequence ELSE @,
             !.ExpectedSequence = (seq + 1) % SeqMod, !.Sequence = seq]
AheadExpectsItself(st, seq) ==
  [st EXCEPT !.RxDropped = IF st.Packets # 0 THEN @ + (seq - st.ExpectedSequence) ELSE @,
             !.ExpectedSequence = seq, !.Sequence = seq]

\* It is beyond the expected one: the gap is dropped, unless this is the first packet.
AheadOfSequence(st, seq) ==
  [st EXCEPT !.RxDropped = IF st.Packets # 0 THEN @ + (seq - st.ExpectedSequence) ELSE @,
             !.ExpectedSequence = (seq + 1) % SeqMod,
             !.Sequence = seq]

\* Faulty: the drop counter goes below zero, or keeps the drop.
BehindUnguarded(st) == [st EXCEPT !.RxDropped = @ - 1, !.OutOfOrder = @ + 1]

BehindKeepsDrop(st) == [st EXCEPT !.OutOfOrder = @ + 1]

\* It is below the expected one: one drop fewer, and out of order.
BehindSequence(st) ==
  [st EXCEPT !.RxDropped = IF @ > 0 THEN @ - 1 ELSE @, !.OutOfOrder = @ + 1]

\* Faulty: a packet behind the expected sequence is not counted.
UpdateSkipsBehind(st, seq) ==
  IF seq < st.ExpectedSequence THEN BehindSequence(st)
  ELSE [AheadOfSequence(st, seq) EXCEPT !.Packets = @ + 1]

\* RioConsumer::GroupStatsUpdate for a packet that carries seq.
ConsumerStatsUpdate(st, seq) ==
  LET tracked == IF seq = st.ExpectedSequence THEN InSequence(st, seq)
                 ELSE IF seq > st.ExpectedSequence THEN AheadOfSequence(st, seq)
                 ELSE BehindSequence(st)
  IN  [tracked EXCEPT !.Packets = @ + 1]

\* RioProducer::GroupStatsUpdate: the last sequence is taken to be Packets - 1.
ProducerStatsUpdate(st) ==
  [st EXCEPT !.Sequence = st.Packets, !.Packets = @ + 1]
=============================================================================
