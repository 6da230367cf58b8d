------------------------------- MODULE Timing --------------------------------
(***************************************************************************)
(* m_Timing and the time limit in the consumer.  The main thread and the   *)
(* report thread call ShouldStop, which writes and reads the two time      *)
(* points of m_Timing without synchronisation; the main thread sets the    *)
(* start once more when the first datagrams come.  The time points are     *)
(* plain 64-bit words, so a load gives some value that was stored.         *)
(*                                                                         *)
(* What else ends a run, Ctrl-C and the packet limit, is one flag here.    *)
(***************************************************************************)
EXTENDS Integers

CONSTANTS
  Second,        \* ticks of the clock in one second
  SecondsToRun,  \* --seconds; 0 is no time limit
  MaxStall,      \* bound of the model: age of a clock reading that is still used
  MaxClock       \* bound of the model: the clock stops here

\* No thread is held up for half a second inside ShouldStop.
ASSUME TimingAssumption ==
  /\ Second \in Nat /\ SecondsToRun \in Nat /\ MaxClock \in Nat
  /\ MaxStall \in Nat /\ 2 * MaxStall < Second

VARIABLES
  clock,      \* std::chrono::steady_clock, since m_Timing was first started
  startTime, stopTime,  \* the members of m_Timing
  reading,    \* what now() returned to each thread
  loaded,     \* the stopTime that each thread has loaded
  goesOn,     \* what the first two conditions of ShouldStop said to each thread
  pc,         \* where each thread is in ShouldStop or in its loop
  counting,   \* m_TotalPkts # 0
  otherLimit  \* Ctrl-C or the packet limit

Threads == {"main", "report"}
timeVars == <<startTime, stopTime>>
vars == <<clock, timeVars, reading, loaded, goesOn, pc, counting, otherLimit>>

Init ==
  /\ clock = 0 /\ startTime = 0 /\ stopTime = 0
  /\ reading = [t \in Threads |-> 0] /\ loaded = [t \in Threads |-> 0]
  /\ goesOn = [t \in Threads |-> TRUE]
  /\ pc = [t \in Threads |-> "limits"]
  /\ counting = FALSE /\ otherLimit = FALSE

Goto(t, place) == pc' = [pc EXCEPT ![t] = place]

-----------------------------------------------------------------------------
(* ShouldStop, called by thread t *)

ReadLimits(t) ==
  /\ pc[t] = "limits" /\ Goto(t, "now")
  /\ goesOn' = [goesOn EXCEPT ![t] = ~otherLimit]
  /\ UNCHANGED <<clock, timeVars, reading, loaded, counting, otherLimit>>

\* setStop in two steps: now(), and the store.
ReadClock(t) ==
  /\ pc[t] = "now" /\ Goto(t, "store")
  /\ reading' = [reading EXCEPT ![t] = clock]
  /\ UNCHANGED <<clock, timeVars, loaded, goesOn, counting, otherLimit>>

SetStop(t) ==
  /\ pc[t] = "store" /\ Goto(t, "load")
  /\ stopTime' = reading[t]
  /\ UNCHANGED <<clock, startTime, reading, loaded, goesOn, counting, otherLimit>>

\* getElapsedTimeSec: stopTime is loaded, whoever stored it, then startTime.
LoadStop(t) ==
  /\ pc[t] = "load" /\ Goto(t, "compare")
  /\ loaded' = [loaded EXCEPT ![t] = stopTime]
  /\ UNCHANGED <<clock, timeVars, reading, goesOn, counting, otherLimit>>

\* duration_cast truncates towards zero; the result is unsigned, so that a whole
\* negative number of seconds is larger than any limit.  The variants round
\* down, or up.
TimeUpFloor(stop, start) == stop < start \/ (stop - start) \div Second >= SecondsToRun
TimeUpCeiling(stop, start) == stop <= start - Second \/ stop - start > (SecondsToRun - 1) * Second
TimeUp(stop, start) ==
  IF stop < start THEN start - stop >= Second ELSE (stop - start) \div Second >= SecondsToRun

Compare(t) ==
  /\ pc[t] = "compare"
  /\ Goto(t, IF goesOn[t] /\ (SecondsToRun = 0 \/ ~TimeUp(loaded[t], startTime))
               THEN "turn" ELSE "left")
  /\ UNCHANGED <<clock, timeVars, reading, loaded, goesOn, counting, otherLimit>>

ShouldStop(t) == ReadLimits(t) \/ ReadClock(t) \/ SetStop(t) \/ LoadStop(t) \/ Compare(t)

-----------------------------------------------------------------------------
(* The loops, the clock and the other limits *)

\* A turn without datagrams; the report thread has no other ones.
IdleTurn(t) ==
  /\ pc[t] = "turn" /\ Goto(t, "limits")
  /\ UNCHANGED <<clock, timeVars, reading, loaded, goesOn, counting, otherLimit>>

\* A turn with datagrams: before the first one is counted the clock is started
\* again.
ReceiveTurn ==
  /\ pc["main"] = "turn" /\ Goto("main", "limits")
  /\ startTime' = IF counting THEN startTime ELSE clock
  /\ counting' = TRUE
  /\ UNCHANGED <<clock, stopTime, reading, loaded, goesOn, otherLimit>>

Tick ==
  /\ clock < MaxClock
  /\ \A t \in Threads :
       pc[t] \in {"store", "load", "compare"} => clock - reading[t] < MaxStall
  /\ clock' = clock + 1
  /\ UNCHANGED <<timeVars, reading, loaded, goesOn, pc, counting, otherLimit>>

OtherLimit ==
  /\ ~otherLimit /\ otherLimit' = TRUE
  /\ UNCHANGED <<clock, timeVars, reading, loaded, goesOn, pc, counting>>

Next ==
  \/ \E t \in Threads : ShouldStop(t) \/ IdleTurn(t)
  \/ ReceiveTurn \/ Tick \/ OtherLimit

Spec == Init /\ [][Next]_vars

-----------------------------------------------------------------------------
(* Properties *)

Limit == SecondsToRun * Second

TypeOK ==
  /\ clock \in 0 .. MaxClock /\ startTime \in 0 .. clock /\ stopTime \in 0 .. clock
  /\ reading \in [Threads -> 0 .. clock] /\ loaded \in [Threads -> 0 .. clock]
  /\ goesOn \in [Threads -> BOOLEAN]
  /\ pc \in [Threads -> {"limits", "now", "store", "load", "compare", "turn", "left"}]
  /\ counting \in BOOLEAN /\ otherLimit \in BOOLEAN

\* "Running the application for at least: N seconds": the clock never ends the
\* receive loop before N seconds have passed since it was last started, nor the
\* report thread before N seconds have passed at all.  A time point one thread
\* read before the other one started the clock again gives a negative time,
\* which only truncation towards zero keeps from being a huge one
\* (RioSession.cpp:237-248, RioConsumer.cpp:126, swxtch-perf-rio.cpp:71).
RunsAtLeast ==
  ~otherLimit =>
    /\ pc["main"] = "left" => clock - startTime >= Limit
    /\ pc["report"] = "left" => clock >= Limit

\* When the clock ended both loops, the time printed after them is not below the
\* limit, although either thread may have stored its end last
\* (RioSession.cpp:225-227, :243, RioConsumer.cpp:151-152).
ElapsedCoversLimit ==
  (\A t \in Threads : pc[t] = "left") /\ ~otherLimit => stopTime - startTime >= Limit
=============================================================================
