---------------------------- MODULE MCSpinWorker -----------------------------
(***************************************************************************)
(* SpinWorker for TLC: four packets expected per correction, deviations of *)
(* two left alone, and a counter that wraps around after sixteen.          *)
(***************************************************************************)
EXTENDS SpinWorker
=============================================================================
