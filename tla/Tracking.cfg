SPECIFICATION Spec
CONSTANTS
  SeqMod = 16
  MaxSeq = 6
  MaxDeliveries = 6
INVARIANTS
  TypeOK
  NeverOverstatesLoss
  ExactWithoutDuplicates
  HighWaterMark
  RangeAccounted
PROPERTY
  CountersMonotone
CHECK_DEADLOCK FALSE
