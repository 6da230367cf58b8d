----------------------------- MODULE RioSession -----------------------------
(***************************************************************************)
(* The state and operations that class RioSession gives to the producer    *)
(* and to the consumer: the RIO queues, the three conditions that end a    *)
(* run (Ctrl-C, the packet limit, the time limit), the statistics map, the *)
(* second thread, and the clean-up.                                        *)
(*                                                                         *)
(* Time is abstracted to the one question the code asks of it: timeUp says *)
(* whether SecondsToRun seconds have passed since m_Timing.setStart().     *)
(***************************************************************************)
EXTENDS RegisteredIO, McGroupStats

CONSTANTS
  PktsToCount,  \* --total_pkts; 0 is no packet limit
  TimeLimited,  \* --seconds was given and is not 0
  TotalMod      \* 2^32 in the code: m_TotalPkts is an atomic_ulong

ASSUME SessionAssumption ==
  PktsToCount \in Nat /\ TimeLimited \in BOOLEAN /\ TotalMod \in Nat \ {0}

VARIABLES
  exitSignal,   \* g_Exit, which m_ExitSignal points to
  totalPkts,    \* m_TotalPkts
  timeUp,       \* m_Timing: the time limit is reached
  groupStats,   \* m_GroupStats: destination -> statistics
  pc,           \* where the main thread is
  report,       \* m_ReportThread: none, running or exited
  socketOpen,
  buffersRegistered

limitVars == <<exitSignal, totalPkts, timeUp>>
resourceVars == <<socketOpen, buffersRegistered>>
sessionVars == <<rioVars, limitVars, groupStats, pc, report, resourceVars>>

\* utilities::ErrorExit ends the whole process.
Failed == pc \in {"notifyError", "requestError", "dequeueError"}
Ended == Failed \/ pc = "done"

\* The session constructed for these groups: m_TotalPkts = 0, InitGroupStats.
SessionInit(groups) ==
  /\ RioInit
  /\ exitSignal = FALSE
  /\ totalPkts = 0
  /\ timeUp = FALSE
  /\ groupStats = [g \in groups |-> InitGroupStats]
  /\ pc = "start" /\ report = "none"
  /\ socketOpen = TRUE /\ buffersRegistered = TRUE

\* Faulty variants of ShouldStop.
ShouldStopAtLimitPlusOne ==
  ~exitSignal /\ (PktsToCount = 0 \/ totalPkts <= PktsToCount) /\ (~TimeLimited \/ ~timeUp)
ShouldStopIgnoresSignal ==
  (PktsToCount = 0 \/ totalPkts < PktsToCount) /\ (~TimeLimited \/ ~timeUp)

\* The name is the code's: TRUE means that the caller goes on.
ShouldStop ==
  /\ ~exitSignal
  /\ PktsToCount = 0 \/ totalPkts < PktsToCount
  /\ ~TimeLimited \/ ~timeUp

\* m_TotalPkts++
IncrementedTotal == (totalPkts + 1) % TotalMod

\* m_GroupStats[g], read: operator[] makes an entry for a group it does not hold.
StatsOf(g) == IF g \in DOMAIN groupStats THEN groupStats[g] ELSE InitGroupStats

\* m_GroupStats[g], written.
SetStats(g, st) ==
  groupStats' = [h \in DOMAIN groupStats \cup {g} |-> IF h = g THEN st ELSE groupStats[h]]

-----------------------------------------------------------------------------
(* Steps of the main thread.  A definition whose name says what it gets    *)
(* wrong, such as ShouldStopIgnoresSignal, is a faulty variant of the one  *)
(* below it: no specification uses it, and a property has to fail when it  *)
(* is put in.                                                              *)

\* Start begins: setStart, and the second thread is created.
StartReport ==
  /\ pc = "start"
  /\ pc' = "post" /\ report' = "running" /\ timeUp' = FALSE
  /\ UNCHANGED <<rioVars, exitSignal, totalPkts, groupStats, resourceVars>>

NotifySkipsBacklog ==
  /\ pc = "notify" /\ pc' = "wait"
  /\ IF completionQueue = <<>> THEN RIONotify ELSE UNCHANGED rioVars
  /\ UNCHANGED <<limitVars, groupStats, report, resourceVars>>

NotifyCompletionQueue ==
  /\ pc = "notify"
  /\ \/ RIONotify /\ pc' = "wait"
     \/ armed /\ pc' = "notifyError" /\ UNCHANGED rioVars
  /\ UNCHANGED <<limitVars, groupStats, report, resourceVars>>

JoinSkipsClose ==
  /\ pc = "join" /\ report = "exited" /\ pc' = "release"
  /\ UNCHANGED <<rioVars, limitVars, groupStats, report, resourceVars>>

JoinThread ==
  /\ pc = "join" /\ report = "exited"
  /\ pc' = "closeSocket"
  /\ UNCHANGED <<rioVars, limitVars, groupStats, report, resourceVars>>

\* CleanUpRIO: the socket and the completion queue first ...
CloseSocket ==
  /\ pc = "closeSocket"
  /\ pc' = "release" /\ socketOpen' = FALSE
  /\ UNCHANGED <<rioVars, limitVars, groupStats, report, buffersRegistered>>

\* ... then the two buffers.
ReleaseBuffers ==
  /\ pc = "release"
  /\ pc' = "done" /\ buffersRegistered' = FALSE
  /\ UNCHANGED <<rioVars, limitVars, groupStats, report, socketOpen>>

SessionStep ==
  StartReport \/ NotifyCompletionQueue \/ JoinThread \/ CloseSocket \/ ReleaseBuffers

-----------------------------------------------------------------------------
(* The second thread, the user and the clock *)

\* Its loop is left; a turn of the loop changes none of this state.
ReportExits ==
  /\ ~Failed /\ report = "running" /\ ~ShouldStop
  /\ report' = "exited"
  /\ UNCHANGED <<rioVars, limitVars, groupStats, pc, resourceVars>>

\* Ctrl-C: HandlerRoutine runs in a thread of its own, at any moment.
HandlerRoutine ==
  /\ ~Ended /\ ~exitSignal
  /\ exitSignal' = TRUE
  /\ UNCHANGED <<rioVars, totalPkts, timeUp, groupStats, pc, report, resourceVars>>

\* The clock passes the time limit.
TimePasses ==
  /\ ~Ended /\ TimeLimited /\ ~timeUp
  /\ timeUp' = TRUE
  /\ UNCHANGED <<rioVars, exitSignal, totalPkts, groupStats, pc, report, resourceVars>>

-----------------------------------------------------------------------------
SessionTypeOK ==
  /\ armed \in BOOLEAN /\ iocp \in Nat
  /\ exitSignal \in BOOLEAN /\ totalPkts \in 0 .. TotalMod - 1 /\ timeUp \in BOOLEAN
  /\ \A g \in DOMAIN groupStats : groupStats[g] \in GroupStatsType
  /\ pc \in {"start", "post", "check", "notify", "wait", "dequeue", "process", "join",
             "closeSocket", "release", "done", "notifyError", "requestError", "dequeueError"}
  /\ report \in {"none", "running", "exited"}
  /\ socketOpen \in BOOLEAN /\ buffersRegistered \in BOOLEAN
=============================================================================
