-------------------------- MODULE SpinWorkerProofs ---------------------------
(***************************************************************************)
(* Theorems about the tuner of the producer, for every rate, threshold and *)
(* step, and for a packet counter of every width.                          *)
(***************************************************************************)
EXTENDS SpinWorker, TLAPS

(* The counters never claim more packets than were sent: a counter that has *)
(* wrapped around, or packets that were sent between the two loads, only   *)
(* make the difference smaller.                                            *)
DeltaBound ==
  /\ pc = "sleep" => totalPkts - previous <= sent
  /\ pc = "tune" => delta + Expected <= sentBefore

Inv == TypeOK /\ DeltaBound

-----------------------------------------------------------------------------
(* Arithmetic *)

(* The counter is a remainder, so it is in range and grows by one at most. *)
LEMMA NextTotal ==
  ASSUME NEW t \in 0 .. TotalMod - 1
  PROVE  (t + 1) % TotalMod \in 0 .. TotalMod - 1 /\ (t + 1) % TotalMod <= t + 1
<1>1. TotalMod \in Nat /\ TotalMod > 0
  BY TunerAssumption
<1>2. t + 1 \in Nat
  BY <1>1
<1> QED
  BY <1>1, <1>2, SMT

(* The expected number of packets and the threshold are natural numbers.   *)
LEMMA ExpectedAndThreshold == Expected \in Nat /\ Threshold \in Nat /\ Threshold > 0
<1>1. ASSUME NEW d \in Nat \ {0} PROVE Rate \div d \in Nat
  <2>1. Rate \in Nat /\ d \in Nat /\ d > 0
    BY <1>1, TunerAssumption
  <2> QED
    BY <2>1, SMT
<1>2. Rate \div TuningsPerSec \in Nat /\ Rate \div Precision \in Nat
  BY <1>1, TunerAssumption
<1> QED
  BY <1>2 DEF Expected, Threshold

(* Truncating division: a whole number, positive only for a dividend that  *)
(* is at least the divisor.                                                *)
LEMMA QuotientBound ==
  ASSUME NEW a \in Int, NEW b \in Nat, b > 0
  PROVE  /\ Quotient(a, b) \in Int
         /\ Quotient(a, b) > 0 => a > 0 /\ Quotient(a, b) * b <= a
<1>1. CASE a >= 0
  <2>1. a \in Nat /\ Quotient(a, b) = a \div b
    BY <1>1 DEF Quotient
  <2>2. a \div b \in Nat
    BY <2>1, SMT
  <2>3. (a \div b) * b <= a
    BY <2>1, SMT
  <2>4. a = 0 => a \div b = 0
    BY <2>1, SMT
  <2> QED
    BY <2>1, <2>2, <2>3, <2>4
<1>2. CASE ~(a >= 0)
  <2>1. -a \in Nat /\ Quotient(a, b) = -((-a) \div b)
    BY <1>2 DEF Quotient
  <2>2. (-a) \div b \in Nat
    BY <2>1, SMT
  <2> QED
    BY <2>1, <2>2
<1> QED
  BY <1>1, <1>2

(* What the tuner stores is no pause or one that utilities::spin keeps.    *)
LEMMA StoredType ==
  ASSUME NEW d \in Int
  PROVE  /\ Stored(d) \in Nat
         /\ Stored(d) = FastSpin \/ (Stored(d) = d /\ d >= MinSpin)
BY TunerAssumption DEF Stored

-----------------------------------------------------------------------------
(* The invariant *)

LEMMA Initially == Init => Inv
<1> SUFFICES ASSUME Init PROVE Inv
  OBVIOUS
<1>1. TypeOK
  BY TunerAssumption DEF Init, TypeOK
<1>2. DeltaBound
  BY DEF Init, DeltaBound
<1> QED
  BY <1>1, <1>2 DEF Inv

LEMMA SendKeeps == Inv /\ Send => Inv'
<1> SUFFICES ASSUME Inv, Send PROVE Inv'
  OBVIOUS
<1>1. totalPkts' \in 0 .. TotalMod - 1 /\ totalPkts' <= totalPkts + 1
  BY NextTotal DEF Inv, TypeOK, Send
<1>2. TypeOK'
  BY <1>1 DEF Inv, TypeOK, Send
<1>3. Expected' = Expected
  BY DEF Expected
<1>4. DeltaBound'
  BY <1>1, <1>3, TunerAssumption DEF Inv, TypeOK, DeltaBound, Send
<1> QED
  BY <1>2, <1>4 DEF Inv

LEMMA CompareKeeps == Inv /\ Compare => Inv'
<1> SUFFICES ASSUME Inv, Compare PROVE Inv'
  OBVIOUS
<1>1. Expected \in Nat
  BY ExpectedAndThreshold
<1>2. delta' = totalPkts - previous - Expected
  BY DEF Compare, Deviation
<1>3. TypeOK'
  BY <1>1, <1>2, TunerAssumption DEF Inv, TypeOK, Compare
<1>4. DeltaBound'
  BY <1>1, <1>2, TunerAssumption DEF Inv, TypeOK, DeltaBound, Compare
<1> QED
  BY <1>3, <1>4 DEF Inv

(* The corrected duration is a whole number.                               *)
LEMMA CorrectedType == Inv => Corrected \in Int
<1> SUFFICES ASSUME Inv PROVE Corrected \in Int
  OBVIOUS
<1>1. Quotient(delta, Threshold) \in Int
  BY ExpectedAndThreshold, QuotientBound DEF Inv, TypeOK
<1>2. spin \in Int /\ Step \in Int
  BY TunerAssumption DEF Inv, TypeOK
<1> QED
  BY <1>1, <1>2 DEF Corrected

LEMMA CorrectKeeps == Inv /\ Correct => Inv'
<1> SUFFICES ASSUME Inv, Correct PROVE Inv'
  OBVIOUS
<1>1. spin' \in Nat /\ (spin' = FastSpin \/ spin' >= MinSpin)
  BY CorrectedType, StoredType DEF Correct, Correction, Inv, TypeOK
<1>2. TypeOK'
  BY <1>1 DEF Inv, TypeOK, Correct
<1>3. DeltaBound'
  BY TunerAssumption DEF Inv, TypeOK, DeltaBound, Correct
<1> QED
  BY <1>2, <1>3 DEF Inv

(* The tuner compares counters that are in range and never overrated.      *)
THEOREM TunerInvariance == Spec => []Inv
<1>1. Inv /\ [Next]_vars => Inv'
  <2> SUFFICES ASSUME Inv, [Next]_vars PROVE Inv'
    OBVIOUS
  <2>1. CASE Send
    BY <2>1, SendKeeps
  <2>2. CASE Compare
    BY <2>2, CompareKeeps
  <2>3. CASE Correct
    BY <2>3, CorrectKeeps
  <2>4. CASE UNCHANGED vars
    BY <2>4 DEF vars, Inv, TypeOK, DeltaBound, Expected
  <2> QED
    BY <2>1, <2>2, <2>3, <2>4 DEF Next
<1> QED
  BY Initially, <1>1, PTL DEF Spec

(* The pause is always none or one that utilities::spin keeps, and the     *)
(* counters stay in their ranges (RioProducer.cpp:185-200).                *)
THEOREM TunerTypes == Spec => []TypeOK
<1>1. Inv => TypeOK
  BY DEF Inv
<1> QED
  BY TunerInvariance, <1>1, PTL

-----------------------------------------------------------------------------
(* When the pause gets longer *)

LEMMA SlowingStep ==
  ASSUME Inv, Correct, spin' > spin
  PROVE  /\ sentBefore > Expected + Threshold
         /\ spin = FastSpin =>
              (sentBefore - Expected) * Step >= (MinSpin - FastSpin) * Threshold
<1> DEFINE q == Quotient(delta, Threshold)
<1>1. /\ spin \in Nat /\ delta \in Int /\ sentBefore \in Nat
      /\ Expected \in Nat /\ Threshold \in Nat /\ Threshold > 0
      /\ Step \in Nat /\ Step > 0 /\ MinSpin \in Nat /\ FastSpin \in Nat
      /\ FastSpin < MinSpin
  BY ExpectedAndThreshold, TunerAssumption DEF Inv, TypeOK
<1>2. q \in Int /\ (q > 0 => delta > 0 /\ q * Threshold <= delta)
  BY <1>1, QuotientBound
<1>3. Corrected \in Int /\ Corrected = spin + q * Step
  BY CorrectedType DEF Corrected
<1>4. delta > Threshold \/ delta < -Threshold
  BY <1>1 DEF Correct, Correction
<1>5. spin' = Stored(Corrected)
  BY <1>4 DEF Correct, Correction
<1>6. Corrected >= MinSpin /\ Corrected > spin
  BY <1>1, <1>3, <1>5, StoredType DEF Inv, TypeOK
<1> HIDE DEF q
<1>7. q > 0
  <2>1. SUFFICES ASSUME ~(q > 0) PROVE FALSE
    OBVIOUS
  <2>2. q * Step <= 0
    BY <1>1, <1>2, <2>1, SMT
  <2> QED
    BY <1>1, <1>2, <1>3, <1>6, <2>2
<1>8. delta <= sentBefore - Expected
  BY <1>1 DEF Inv, DeltaBound, Correct
<1>9. sentBefore > Expected + Threshold
  BY <1>1, <1>2, <1>4, <1>7, <1>8
<1>10. ASSUME spin = FastSpin
       PROVE (sentBefore - Expected) * Step >= (MinSpin - FastSpin) * Threshold
  <2>1. q * Step >= MinSpin - FastSpin
    BY <1>1, <1>2, <1>3, <1>6, <1>10
  <2>2. q * Threshold <= sentBefore - Expected
    BY <1>1, <1>2, <1>7, <1>8
  <2>3. (q * Step) * Threshold >= (MinSpin - FastSpin) * Threshold
    BY <1>1, <1>2, <2>1, SMT
  <2>4. (q * Threshold) * Step <= (sentBefore - Expected) * Step
    BY <1>1, <1>2, <2>2, SMT
  <2>5. (q * Step) * Threshold = (q * Threshold) * Step
    BY <1>1, <1>2, SMT
  <2> QED
    BY <1>1, <1>2, <2>3, <2>4, <2>5, SMT
<1> QED
  BY <1>9, <1>10

(* The pause only gets longer after more packets than expected, whatever   *)
(* wraps around or is missed between the two loads                         *)
(* (RioProducer.cpp:179-192).                                              *)
THEOREM SlowedWhenFast == Spec => SlowedOnlyWhenFast
<1> DEFINE Slowing ==
      spin' > spin =>
        /\ sentBefore > Expected + Threshold
        /\ spin = FastSpin =>
             (sentBefore - Expected) * Step >= (MinSpin - FastSpin) * Threshold
<1>1. Inv /\ [Next]_vars => [Slowing]_vars
  <2> SUFFICES ASSUME Inv, Next PROVE Slowing
    OBVIOUS
  <2>0. spin \in Nat
    BY DEF Inv, TypeOK
  <2>1. CASE Send
    BY <2>0, <2>1 DEF Send
  <2>2. CASE Compare
    BY <2>0, <2>2 DEF Compare
  <2>3. CASE Correct
    BY <2>3, SlowingStep
  <2> QED
    BY <2>1, <2>2, <2>3 DEF Next
<1> QED
  BY TunerInvariance, <1>1, PTL DEF Spec, SlowedOnlyWhenFast

-----------------------------------------------------------------------------
(* When the pause gets shorter *)

(* What LaggingGetsFast needs besides fairness: a producer that sent too   *)
(* few packets loses its pause with the next correction, or at least Step  *)
(* of it.                                                                  *)
ShortenedWhileLagging ==
  [][Correct /\ sentBefore < Expected - Threshold =>
       spin' = FastSpin \/ spin' + Step <= spin]_vars

LEMMA QuotientOfLag ==
  ASSUME NEW a \in Int, NEW b \in Nat, b > 0, a < -b
  PROVE  Quotient(a, b) \in Int /\ Quotient(a, b) <= -1
<1>1. -a \in Nat /\ -a > b /\ Quotient(a, b) = -((-a) \div b)
  BY DEF Quotient
<1> DEFINE c == -a
<1>2. c \div b \in Nat /\ c \div b >= 1
  <2>1. c \in Nat /\ c > b
    BY <1>1
  <2> HIDE DEF c
  <2> QED
    BY <2>1, SMT
<1> QED
  BY <1>1, <1>2

(* However the counter wraps around and whatever is sent between the two   *)
(* loads, every correction of a producer that lags behind takes its pause  *)
(* or at least Step of it; so spin \div Step corrections in a row are       *)
(* enough (RioProducer.cpp:194-201).                                       *)
THEOREM ShortenedWhenLagging == Spec => ShortenedWhileLagging
<1> DEFINE Shortened ==
      Correct /\ sentBefore < Expected - Threshold =>
        spin' = FastSpin \/ spin' + Step <= spin
<1>1. Inv => Shortened
  <2> SUFFICES ASSUME Inv, Correct, sentBefore < Expected - Threshold
               PROVE  spin' = FastSpin \/ spin' + Step <= spin
    OBVIOUS
  <2> DEFINE q == Quotient(delta, Threshold)
  <2>1. /\ spin \in Nat /\ delta \in Int /\ sentBefore \in Nat
        /\ Expected \in Nat /\ Threshold \in Nat /\ Threshold > 0
        /\ Step \in Nat /\ Step > 0
    BY ExpectedAndThreshold, TunerAssumption DEF Inv, TypeOK
  <2>2. delta < -Threshold
    BY <2>1 DEF Inv, DeltaBound, Correct
  <2>3. q \in Int /\ q <= -1
    BY <2>1, <2>2, QuotientOfLag
  <2>4. spin' = Stored(Corrected) /\ Corrected \in Int /\ Corrected = spin + q * Step
    BY <2>2, CorrectedType DEF Correct, Correction, Corrected
  <2> HIDE DEF q
  <2>5. q * Step <= -Step
    BY <2>1, <2>3, SMT
  <2>6. Corrected + Step <= spin
    BY <2>1, <2>3, <2>4, <2>5
  <2> QED
    BY <2>4, <2>6, StoredType
<1>2. Inv /\ [Next]_vars => [Shortened]_vars
  BY <1>1
<1> QED
  BY TunerInvariance, <1>2, PTL DEF Spec, ShortenedWhileLagging
=============================================================================
