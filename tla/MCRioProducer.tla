--------------------------- MODULE MCRioProducer ----------------------------
(***************************************************************************)
(* RioProducer for TLC: two packets in memory for one, two or three        *)
(* groups.                                                                 *)
(***************************************************************************)
EXTENDS RioProducer

MCGroupCounts == 1 .. 3
=============================================================================
