SPECIFICATION FairSpec
CONSTANTS
  GroupCounts <- MCGroupCounts
  PacketRate = 2
  SeqMod = 32
  TotalMod = 32
  PktsToCount = 10
  TimeLimited = TRUE
INVARIANTS
  TypeOK
  SendsConserved
  InfiniteWaitIsAnswered
  RotationExact
  WireSequence
  SendsAccounted
  EarlierGroupsNotBehind
  LimitOvershoot
PROPERTY
  StopEndsRun
CHECK_DEADLOCK FALSE
