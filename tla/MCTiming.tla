------------------------------ MODULE MCTiming -------------------------------
(***************************************************************************)
(* Timing for TLC: seconds of three ticks, a limit of two seconds, and     *)
(* threads that are held up for one tick.                                  *)
(***************************************************************************)
EXTENDS Timing
=============================================================================
