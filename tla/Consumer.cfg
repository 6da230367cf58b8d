SPECIFICATION FairSpec
CONSTANTS
  Groups = {g1}
  Strays = {x}
  Seqs = {0}
  SeqMod = 16
  N = 3
  MaxRioResults = 2
  IndexMod = 16
  MaxArrivals = 5
  PktsToCount = 3
  TotalMod = 5
  TimeLimited = TRUE
INVARIANTS
  TypeOK
  ReceivesConserved
  NoAliasedReceives
  NoLostWakeup
  NotificationsBounded
  CountsAgree
  LimitOvershoot
  NoWriteAfterRelease
PROPERTIES
  ImplementsSink
  ImplementsFairSink
  StopIsFinal
  StopEndsRun
CHECK_DEADLOCK FALSE
