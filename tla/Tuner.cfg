SPECIFICATION FairSpec
CONSTANTS
  Rate = 40
  TuningsPerSec = 10
  Precision = 20
  Step = 1
  MinSpin = 5
  FastSpin = 1
  FirstSpin = 7
  TotalMod = 16
  MaxSent = 12
  MaxSpin = 10
INVARIANT
  TypeOK
PROPERTIES
  SlowedOnlyWhenFast
  LaggingGetsFast
CHECK_DEADLOCK FALSE
