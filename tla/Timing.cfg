SPECIFICATION Spec
CONSTANTS
  Second = 3
  SecondsToRun = 2
  MaxStall = 1
  MaxClock = 9
INVARIANTS
  RunsAtLeast
  ElapsedCoversLimit
CHECK_DEADLOCK FALSE
