--------------------------- MODULE MCRioConsumer ----------------------------
(***************************************************************************)
(* RioConsumer for TLC: two destinations, of which one may be a group      *)
(* nobody configured.  All datagrams carry the same sequence number: what  *)
(* different ones do to the statistics is checked in SequenceTracking.     *)
(***************************************************************************)
EXTENDS RioConsumer
=============================================================================
