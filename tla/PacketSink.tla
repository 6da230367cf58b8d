----------------------------- MODULE PacketSink ------------------------------
(***************************************************************************)
(* What the consumer does with datagrams, without receives, notifications, *)
(* buffers and batches.  A datagram that was taken is counted or ignored,  *)
(* once, while the sink runs.  The k-th one that is counted is credited to *)
(* the destination of the k-th one that was taken: the right destination   *)
(* for as long as none is ignored.                                         *)
(***************************************************************************)
EXTENDS Naturals, Sequences

CONSTANT Destinations

VARIABLES
  taken,     \* destinations of the datagrams taken, in order
  counted,   \* how many were counted
  ignored,   \* how many were looked at and not counted
  packets,   \* how many each destination is credited with
  running    \* Start has not left its loop

vars == <<taken, counted, ignored, packets, running>>

Init ==
  /\ taken = <<>> /\ counted = 0 /\ ignored = 0
  /\ packets = [g \in Destinations |-> 0]
  /\ running = TRUE

Take(g) ==
  /\ taken' = Append(taken, g)
  /\ UNCHANGED <<counted, ignored, packets, running>>

Pending == running /\ counted + ignored < Len(taken)

Count ==
  /\ Pending
  /\ counted' = counted + 1
  /\ packets' = [packets EXCEPT ![taken[counted + 1]] = @ + 1]
  /\ UNCHANGED <<taken, ignored, running>>

Ignore ==
  /\ Pending
  /\ ignored' = ignored + 1
  /\ UNCHANGED <<taken, counted, packets, running>>

Stop ==
  /\ running /\ running' = FALSE
  /\ UNCHANGED <<taken, counted, ignored, packets>>

Next == (\E g \in Destinations : Take(g)) \/ Count \/ Ignore \/ Stop

Spec == Init /\ [][Next]_vars

\* Weak fairness of Count \/ Ignore, written with the condition that enables it:
\* a sink that goes on running does not leave a datagram waiting for ever.
Progress == <>[]Pending => []<><<Count \/ Ignore>>_vars

FairSpec == Spec /\ Progress
=============================================================================
