SPECIFICATION Spec
CONSTANTS
  Groups <- MCGroups
  Strays <- MCStrays
  SeqMod = 16
  MaxSeq = 3
  MaxDeliveries = 4
INVARIANTS
  TypeOK
  RowWithinSent
  PeriodsInRange
CHECK_DEADLOCK FALSE
