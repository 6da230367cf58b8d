-------------------------- MODULE MCConsumerReport ---------------------------
(***************************************************************************)
(* ConsumerReport for TLC: two groups and a destination nobody configured, *)
(* whose key lies between theirs.                                          *)
(***************************************************************************)
EXTENDS ConsumerReport

MCGroups == {1, 3}
MCStrays == {2}
=============================================================================
