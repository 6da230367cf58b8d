---------------------------- MODULE TimingProofs -----------------------------
(***************************************************************************)
(* Theorems about the time limit of the consumer, for every limit and      *)
(* every length of a second that is more than twice the longest stall.     *)
(***************************************************************************)
EXTENDS Timing, TLAPS

(* A reading that is still used is not older than MaxStall, and neither is  *)
(* the end of the run that a thread loads, whichever thread stored it.     *)
Recent ==
  \A t \in Threads :
    /\ pc[t] \in {"store", "load", "compare"} => clock - reading[t] <= MaxStall
    /\ pc[t] = "load" => reading[t] - stopTime <= MaxStall
    /\ pc[t] = "compare" => reading[t] - loaded[t] <= MaxStall

(* The main thread starts the clock, so it never reads it before the start. *)
ReadAfterStart ==
  pc["main"] \in {"store", "load", "compare"} => startTime <= reading["main"]

(* What a thread that has left its loop saw.                               *)
Left ==
  ~otherLimit =>
    /\ \A t \in Threads : goesOn[t]
    /\ pc["main"] = "left" => loaded["main"] - startTime >= Limit
    /\ pc["report"] = "left" => clock >= Limit

(* With no store left to come, the end is what one of them loaded: the one *)
(* whose comparison is still to come, or one that is late enough.          *)
LastStore ==
  /\ (\A t \in Threads : pc[t] \in {"compare", "left"}) =>
       \E t \in Threads : stopTime = loaded[t]
  /\ ~otherLimit /\ pc["report"] = "left" /\ pc["main"] = "compare" =>
       stopTime = loaded["main"] \/ stopTime - startTime >= Limit
  /\ ~otherLimit /\ pc["report"] = "left" /\ pc["main"] = "left" =>
       stopTime - startTime >= Limit

Inv == TypeOK /\ Recent /\ ReadAfterStart /\ Left /\ LastStore

-----------------------------------------------------------------------------
(* Numbers *)

LEMMA Constants ==
  /\ Second \in Nat /\ Second > 0 /\ SecondsToRun \in Nat /\ MaxClock \in Nat
  /\ MaxStall \in Nat /\ 2 * MaxStall < Second
  /\ Limit \in Nat
<1>1. Second \in Nat /\ SecondsToRun \in Nat /\ MaxStall \in Nat /\ 2 * MaxStall < Second
  BY TimingAssumption
<1>2. SecondsToRun * Second \in Nat
  BY <1>1, SMT
<1> QED
  BY <1>1, <1>2, TimingAssumption DEF Limit

(* Whole seconds are not more than the time they are counted from.         *)
LEMMA WholeSeconds ==
  ASSUME NEW d \in Nat, d \div Second >= SecondsToRun
  PROVE  d >= Limit
<1>1. Second \in Nat /\ Second > 0 /\ SecondsToRun \in Nat
  BY Constants
<1>2. d \div Second \in Nat /\ (d \div Second) * Second <= d
  BY <1>1, SMT
<1>3. SecondsToRun * Second <= (d \div Second) * Second
  BY <1>1, <1>2, SMT
<1> QED
  BY <1>1, <1>2, <1>3, SMT DEF Limit

(* A time that is less than a second below zero is not taken for a long    *)
(* one; so the limit is only found reached when it is.                     *)
LEMMA TimeUpOnlyWhenOver ==
  ASSUME NEW stop \in Nat, NEW start \in Nat, start - stop < Second, TimeUp(stop, start)
  PROVE  stop - start >= Limit
<1>1. Second \in Nat
  BY Constants
<1>2. stop >= start
  BY <1>1 DEF TimeUp
<1>3. stop - start \in Nat /\ (stop - start) \div Second >= SecondsToRun
  BY <1>1, <1>2 DEF TimeUp
<1> QED
  BY <1>3, WholeSeconds

-----------------------------------------------------------------------------
(* The invariant: one lemma for each action *)

LEMMA Initially == Init => Inv
<1> SUFFICES ASSUME Init PROVE Inv
  OBVIOUS
<1>1. "main" \in Threads /\ "report" \in Threads
  BY DEF Threads
<1>2. TypeOK
  <2>1. 0 \in 0 .. MaxClock /\ 0 \in 0 .. clock
    BY Constants DEF Init
  <2>2. goesOn \in [Threads -> BOOLEAN] /\ counting \in BOOLEAN /\ otherLimit \in BOOLEAN
    BY Zenon DEF Init
  <2> QED
    BY <2>1, <2>2 DEF Init, TypeOK
<1>3. \A t \in Threads : pc[t] = "limits" /\ goesOn[t] = TRUE
  BY DEF Init
<1>4. Recent /\ ReadAfterStart /\ Left /\ LastStore
  BY <1>1, <1>3 DEF Recent, ReadAfterStart, Left, LastStore
<1> QED
  BY <1>2, <1>4 DEF Inv

(* A thread moves to another place and nothing else happens to it: what    *)
(* every action below does to pc.                                          *)
LEMMA Moves ==
  ASSUME TypeOK, NEW t \in Threads, NEW place, Goto(t, place)
  PROVE  /\ pc'[t] = place
         /\ \A o \in Threads : o # t => pc'[o] = pc[o]
         /\ DOMAIN pc = Threads
BY DEF TypeOK, Goto

LEMMA ReadLimitsKeeps == ASSUME Inv, NEW t \in Threads, ReadLimits(t) PROVE Inv'
<1> USE DEF Inv, ReadLimits, timeVars
<1>1. "main" \in Threads /\ "report" \in Threads
  BY DEF Threads
<1>2. TypeOK'
  BY DEF TypeOK, Goto
<1>3. Recent'
  BY Moves DEF Recent
<1>4. ReadAfterStart'
  BY <1>1, Moves DEF ReadAfterStart
<1>5. Left'
  <2>1. SUFFICES ASSUME ~otherLimit PROVE Left'
    BY DEF Left
  <2>2. \A o \in Threads : goesOn'[o]
    <3>1. goesOn' = [goesOn EXCEPT ![t] = TRUE] /\ DOMAIN goesOn = Threads
      BY <2>1 DEF TypeOK
    <3>2. \A o \in Threads : goesOn[o]
      BY <2>1 DEF Left
    <3> QED
      BY <3>1, <3>2, Zenon
  <2>3. \A o \in Threads : pc'[o] = "left" => pc[o] = "left"
    BY Moves
  <2> QED
    BY <1>1, <2>1, <2>2, <2>3 DEF Left, Limit
<1>6. LastStore'
  BY <1>1, Moves DEF LastStore, Limit
<1> QED
  BY <1>2, <1>3, <1>4, <1>5, <1>6

LEMMA ReadClockKeeps == ASSUME Inv, NEW t \in Threads, ReadClock(t) PROVE Inv'
<1> USE DEF Inv, ReadClock, timeVars
<1>1. "main" \in Threads /\ "report" \in Threads
  BY DEF Threads
<1>2. TypeOK'
  BY DEF TypeOK, Goto
<1>3. \A o \in Threads : reading'[o] = IF o = t THEN clock ELSE reading[o]
  BY DEF TypeOK
<1>4. Recent'
  BY <1>3, Moves, Constants DEF Recent, TypeOK
<1>5. ReadAfterStart'
  BY <1>1, <1>3, Moves DEF ReadAfterStart, TypeOK
<1>6. Left'
  BY <1>1, Moves DEF Left, Limit
<1>7. LastStore'
  BY <1>1, Moves DEF LastStore, Limit
<1> QED
  BY <1>2, <1>4, <1>5, <1>6, <1>7

LEMMA SetStopKeeps == ASSUME Inv, NEW t \in Threads, SetStop(t) PROVE Inv'
<1> USE DEF Inv, SetStop, timeVars
<1>1. "main" \in Threads /\ "report" \in Threads
  BY DEF Threads
<1>2. TypeOK'
  BY DEF TypeOK, Goto
<1>3. Recent'
  <2>1. \A o \in Threads : reading[o] <= clock /\ reading[o] \in Nat
    BY DEF TypeOK
  <2>2. clock - stopTime' <= MaxStall /\ stopTime' \in Nat /\ clock \in Nat
    BY <2>1 DEF Recent, TypeOK
  <2> QED
    BY <2>1, <2>2, Moves, Constants DEF Recent
<1>4. ReadAfterStart'
  BY <1>1, Moves DEF ReadAfterStart
<1>5. Left'
  BY <1>1, Moves DEF Left, Limit
<1>6. LastStore'
  BY <1>1, Moves DEF LastStore, Limit, Threads
<1> QED
  BY <1>2, <1>3, <1>4, <1>5, <1>6

LEMMA LoadStopKeeps == ASSUME Inv, NEW t \in Threads, LoadStop(t) PROVE Inv'
<1> USE DEF Inv, LoadStop, timeVars
<1>1. "main" \in Threads /\ "report" \in Threads
  BY DEF Threads
<1>2. TypeOK'
  BY DEF TypeOK, Goto
<1>3. \A o \in Threads : loaded'[o] = IF o = t THEN stopTime ELSE loaded[o]
  BY DEF TypeOK
<1>4. Recent'
  BY <1>3, Moves DEF Recent
<1>5. ReadAfterStart'
  BY <1>1, Moves DEF ReadAfterStart
<1>6. Left'
  BY <1>1, <1>3, Moves DEF Left, Limit
<1>7. LastStore'
  BY <1>1, <1>3, Moves DEF LastStore, Limit, Threads
<1> QED
  BY <1>2, <1>4, <1>5, <1>6, <1>7

(* Leaving: the time loaded is recent and the clock was read after the     *)
(* start, or, by the report thread, not long before it.                    *)
LEMMA LeavesInTime ==
  ASSUME Inv, NEW t \in Threads, pc[t] = "compare", TimeUp(loaded[t], startTime)
  PROVE  loaded[t] - startTime >= Limit
<1>1. /\ loaded[t] \in Nat /\ startTime \in Nat /\ reading[t] \in Nat /\ clock \in Nat
      /\ startTime <= clock
  BY DEF Inv, TypeOK
<1>2. clock - reading[t] <= MaxStall /\ reading[t] - loaded[t] <= MaxStall
  BY DEF Inv, Recent
<1>3. startTime - loaded[t] < Second
  BY <1>1, <1>2, Constants
<1> QED
  BY <1>1, <1>3, TimeUpOnlyWhenOver

LEMMA CompareKeeps == ASSUME Inv, NEW t \in Threads, Compare(t) PROVE Inv'
<1> USE DEF timeVars
<1>1. "main" \in Threads /\ "report" \in Threads
  BY DEF Threads
<1>2. PICK place \in {"turn", "left"} :
        /\ Goto(t, place)
        /\ place = "left" => ~goesOn[t] \/ TimeUp(loaded[t], startTime)
  BY DEF Compare
<1>3. /\ pc[t] = "compare" /\ pc'[t] = place
      /\ \A o \in Threads : o # t => pc'[o] = pc[o]
  BY <1>2, Moves DEF Inv, Compare
<1>4. UNCHANGED <<clock, startTime, stopTime, reading, loaded, goesOn, otherLimit>>
  BY DEF Compare
<1>5. ~otherLimit /\ place = "left" => loaded[t] - startTime >= Limit
  BY <1>2, <1>3, LeavesInTime DEF Inv, Left
<1>6. /\ loaded[t] \in Nat /\ startTime \in Nat /\ clock \in Nat /\ stopTime \in Nat
      /\ loaded[t] <= clock
  BY DEF Inv, TypeOK
<1>7. TypeOK'
  BY <1>2 DEF Inv, Compare, TypeOK, Goto
<1>8. Recent'
  BY <1>3, <1>4 DEF Inv, Recent
<1>9. ReadAfterStart'
  BY <1>1, <1>3, <1>4 DEF Inv, ReadAfterStart
<1>10. Left'
  <2>1. Limit \in Nat /\ Limit' = Limit
    BY Constants DEF Limit
  <2>2. ~otherLimit /\ place = "left" => clock >= Limit
    BY <1>5, <1>6, <2>1
  <2> QED
    BY <1>1, <1>3, <1>4, <1>5, <2>1, <2>2 DEF Inv, Left
<1>11. LastStore'
  <2>1. Limit' = Limit
    BY DEF Limit
  <2>2. ~otherLimit => (place = "left" => goesOn[t])
    BY DEF Inv, Left
  <2>3. CASE t = "main"
    BY <1>1, <1>3, <1>4, <1>5, <2>1, <2>3 DEF Inv, LastStore, Threads
  <2>4. CASE t = "report"
    BY <1>1, <1>3, <1>4, <1>5, <2>1, <2>4 DEF Inv, LastStore, Left, Threads
  <2> QED
    BY <2>3, <2>4 DEF Threads
<1> QED
  BY <1>7, <1>8, <1>9, <1>10, <1>11 DEF Inv

LEMMA IdleTurnKeeps == ASSUME Inv, NEW t \in Threads, IdleTurn(t) PROVE Inv'
<1> USE DEF Inv, IdleTurn, timeVars
<1>1. "main" \in Threads /\ "report" \in Threads
  BY DEF Threads
<1>2. TypeOK'
  BY DEF TypeOK, Goto
<1>3. Recent' /\ ReadAfterStart'
  BY <1>1, Moves DEF Recent, ReadAfterStart
<1>4. Left' /\ LastStore'
  BY <1>1, Moves DEF Left, LastStore, Limit
<1> QED
  BY <1>2, <1>3, <1>4

LEMMA ReceiveTurnKeeps == ASSUME Inv, ReceiveTurn PROVE Inv'
<1> USE DEF Inv, ReceiveTurn
<1>1. "main" \in Threads /\ "report" \in Threads
  BY DEF Threads
<1>2. pc'["main"] = "limits" /\ \A o \in Threads : o # "main" => pc'[o] = pc[o]
  BY <1>1, Moves
<1>3. TypeOK'
  <2>1. startTime' \in 0 .. clock' /\ counting' \in BOOLEAN
    BY DEF TypeOK
  <2>2. pc' \in [Threads -> {"limits", "now", "store", "load", "compare", "turn", "left"}]
    BY <1>1 DEF TypeOK, Goto
  <2> QED
    BY <2>1, <2>2 DEF TypeOK
<1>4. Recent' /\ ReadAfterStart'
  BY <1>1, <1>2 DEF Recent, ReadAfterStart
<1>5. Left' /\ LastStore'
  BY <1>1, <1>2 DEF Left, LastStore, Limit
<1> QED
  BY <1>3, <1>4, <1>5

LEMMA TickKeeps == ASSUME Inv, Tick PROVE Inv'
<1> USE DEF Inv, Tick, timeVars
<1>1. "main" \in Threads /\ "report" \in Threads
  BY DEF Threads
<1>2. clock \in Nat /\ clock + 1 <= MaxClock
  BY Constants DEF TypeOK
<1>3. 0 .. clock \subseteq 0 .. clock'
  BY <1>2
<1>4. TypeOK'
  BY <1>2, <1>3, Constants DEF TypeOK
<1>5. Recent'
  <2>1. \A t \in Threads : reading[t] \in Nat
    BY DEF TypeOK
  <2> QED
    BY <1>2, <2>1, Constants DEF Recent
<1>6. ReadAfterStart'
  BY DEF ReadAfterStart
<1>7. Left' /\ LastStore'
  BY <1>2, Constants DEF Left, LastStore, Limit
<1> QED
  BY <1>4, <1>5, <1>6, <1>7

LEMMA OtherLimitKeeps == ASSUME Inv, OtherLimit PROVE Inv'
<1> USE DEF Inv, OtherLimit, timeVars
<1>1. TypeOK' /\ Recent' /\ ReadAfterStart'
  BY DEF TypeOK, Recent, ReadAfterStart
<1>2. Left' /\ LastStore'
  BY DEF Left, LastStore
<1> QED
  BY <1>1, <1>2

(* The times the two threads keep are recent enough to be compared.        *)
THEOREM TimingInvariance == Spec => []Inv
<1>1. Inv /\ [Next]_vars => Inv'
  <2> SUFFICES ASSUME Inv, [Next]_vars PROVE Inv'
    OBVIOUS
  <2>1. ASSUME NEW t \in Threads, ShouldStop(t) PROVE Inv'
    BY <2>1, ReadLimitsKeeps, ReadClockKeeps, SetStopKeeps, LoadStopKeeps, CompareKeeps
       DEF ShouldStop
  <2>2. ASSUME NEW t \in Threads, IdleTurn(t) PROVE Inv'
    BY <2>2, IdleTurnKeeps
  <2>3. CASE ReceiveTurn
    BY <2>3, ReceiveTurnKeeps
  <2>4. CASE Tick
    BY <2>4, TickKeeps
  <2>5. CASE OtherLimit
    BY <2>5, OtherLimitKeeps
  <2>6. CASE UNCHANGED vars
    BY <2>6 DEF vars, timeVars, Inv, TypeOK, Recent, ReadAfterStart, Left, LastStore, Limit
  <2> QED
    BY <2>1, <2>2, <2>3, <2>4, <2>5, <2>6 DEF Next
<1> QED
  BY Initially, <1>1, PTL DEF Spec

-----------------------------------------------------------------------------
(* What the clock may end *)

(* The clock ends the receive loop no earlier than the limit after it was  *)
(* last started, and the report thread no earlier than the limit           *)
(* (RioSession.cpp:237-248).                                               *)
THEOREM AtLeast == Spec => []RunsAtLeast
<1>1. Inv => RunsAtLeast
  <2> SUFFICES ASSUME Inv, ~otherLimit PROVE
        /\ pc["main"] = "left" => clock - startTime >= Limit
        /\ pc["report"] = "left" => clock >= Limit
    BY DEF RunsAtLeast
  <2>1. loaded["main"] \in Nat /\ loaded["main"] <= clock /\ clock \in Nat /\ startTime \in Nat
    BY DEF Inv, TypeOK, Threads
  <2> QED
    BY <2>1, Constants DEF Inv, Left
<1> QED
  BY TimingInvariance, <1>1, PTL

(* The time printed at the end is at least the limit that ended the run,   *)
(* whichever thread stored its end last (RioSession.cpp:225-227, :243).    *)
THEOREM ElapsedCovers == Spec => []ElapsedCoversLimit
<1>1. Inv => ElapsedCoversLimit
  BY DEF Inv, LastStore, ElapsedCoversLimit, Threads
<1> QED
  BY TimingInvariance, <1>1, PTL
=============================================================================
