----------------------------- MODULE SpinWorker ------------------------------
(***************************************************************************)
(* The second thread of the producer: ten times a second it compares the   *)
(* packets sent with the packets expected and corrects m_SpinDuration, the *)
(* pause in nanoseconds that the main thread makes between two rounds over *)
(* the groups.  The main thread counts packets meanwhile, also between the *)
(* two loads of m_TotalPkts that belong to one correction.                 *)
(*                                                                         *)
(* The throughput it prints once a second changes nothing and is left out. *)
(***************************************************************************)
EXTENDS Integers

CONSTANTS
  Rate,          \* packets per second: --pps times the number of groups
  TuningsPerSec, \* 10
  Precision,     \* 2000: a deviation of a 2000th of Rate is left alone
  Step,          \* 10
  MinSpin,       \* 1000: what is below becomes ...
  FastSpin,      \* ... 100, for which utilities::spin does not wait at all
  FirstSpin,     \* 10^9 / --pps
  TotalMod,      \* 2^32: m_TotalPkts is an atomic_ulong
  MaxSent,       \* bound of the model: packets between two corrections
  MaxSpin        \* bound of the model: no packets are sent with a longer pause

ASSUME TunerAssumption ==
  /\ Rate \in Nat /\ TuningsPerSec \in Nat \ {0} /\ Precision \in Nat \ {0}
  /\ Step \in Nat \ {0} /\ MinSpin \in Nat /\ FastSpin \in Nat \ {0} /\ FastSpin < MinSpin
  /\ FirstSpin \in Nat /\ FirstSpin >= MinSpin
  /\ TotalMod \in Nat \ {0} /\ MaxSent \in Nat /\ MaxSpin \in Nat

VARIABLES
  spin,         \* m_SpinDuration
  totalPkts,    \* m_TotalPkts
  previous,     \* PreviousTuningN
  delta,        \* PacketDelta
  pc,           \* "sleep", or "tune": between the two loads
  sent,         \* history: packets sent since m_TotalPkts was compared last
  sentBefore    \* history: packets sent between the last two comparisons

vars == <<spin, totalPkts, previous, delta, pc, sent, sentBefore>>

Expected == Rate \div TuningsPerSec
Threshold == IF Rate \div Precision > 1 THEN Rate \div Precision ELSE 1

Init ==
  /\ spin = FirstSpin /\ totalPkts = 0 /\ previous = 0 /\ delta = 0
  /\ pc = "sleep" /\ sent = 0 /\ sentBefore = 0

\* The main thread sends a packet.
Send ==
  /\ sent < MaxSent /\ spin <= MaxSpin
  /\ totalPkts' = (totalPkts + 1) % TotalMod
  /\ sent' = sent + 1
  /\ UNCHANGED <<spin, previous, delta, pc, sentBefore>>

\* The counters are subtracted as signed 64-bit numbers, so that a counter that
\* has wrapped around gives a difference below zero.  The variant subtracts them
\* as unsigned ones.
DeviationUnsigned(now, before) == ((now - before) % (TotalMod * TotalMod)) - Expected
Deviation(now, before) == now - before - Expected

Compare ==
  /\ pc = "sleep" /\ pc' = "tune"
  /\ delta' = Deviation(totalPkts, previous)
  /\ sentBefore' = sent /\ sent' = 0
  /\ UNCHANGED <<spin, totalPkts, previous>>

\* Division of integers in C++ truncates towards zero.
Quotient(a, b) == IF a >= 0 THEN a \div b ELSE -((-a) \div b)

Corrected == spin + Quotient(delta, Threshold) * Step

\* What is stored for a duration, and the variant that stores it as it is.
StoredAsIs(duration) == duration
Stored(duration) == IF duration < MinSpin THEN FastSpin ELSE duration

\* The correction; the variant only ever makes the pause longer.
CorrectionOnlyUp == IF delta > Threshold THEN Stored(Corrected) ELSE spin
Correction ==
  IF delta > Threshold \/ delta < -Threshold THEN Stored(Corrected) ELSE spin

\* m_TotalPkts is loaded once more: what was sent since Compare is never compared.
Correct ==
  /\ pc = "tune" /\ pc' = "sleep"
  /\ previous' = totalPkts
  /\ spin' = Correction
  /\ UNCHANGED <<totalPkts, delta, sent, sentBefore>>

Next == Send \/ Compare \/ Correct

Spec == Init /\ [][Next]_vars

\* The thread is scheduled; the main thread owes nothing.
FairSpec == Spec /\ WF_vars(Compare) /\ WF_vars(Correct)

-----------------------------------------------------------------------------
(* Properties *)

\* Also: the pause is one of those that utilities::spin keeps, or none.
TypeOK ==
  /\ spin \in Nat /\ (spin = FastSpin \/ spin >= MinSpin)
  /\ totalPkts \in 0 .. TotalMod - 1 /\ previous \in 0 .. TotalMod - 1
  /\ delta \in Int /\ pc \in {"sleep", "tune"}
  /\ sent \in Nat /\ sentBefore \in Nat

\* The pause only gets longer when more packets were sent than expected, and one
\* that has come down to nothing is only made again when the producer is too fast
\* by (MinSpin - FastSpin) / Step thresholds.  So a counter that wraps around, or
\* packets sent between the two loads, can make the producer too fast but never
\* slower than asked (RioProducer.cpp:180-193).
SlowedOnlyWhenFast ==
  [][spin' > spin =>
       /\ sentBefore > Expected + Threshold
       /\ spin = FastSpin =>
            (sentBefore - Expected) * Step >= (MinSpin - FastSpin) * Threshold]_vars

\* A producer that goes on lagging behind ends up without a pause: every single
\* correction makes it shorter (RioProducer.cpp:194-201).
LaggingGetsFast ==
  <>[](sentBefore < Expected - Threshold) => <>[](spin = FastSpin)
=============================================================================
