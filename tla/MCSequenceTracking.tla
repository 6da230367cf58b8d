------------------------ MODULE MCSequenceTracking --------------------------
(***************************************************************************)
(* SequenceTracking for TLC: six sequence numbers and six deliveries,      *)
(* so that a gap can open, close, and be hit by a duplicate in one run.    *)
(***************************************************************************)
EXTENDS SequenceTracking
=============================================================================
