SPECIFICATION Spec
CONSTANTS
  GroupCounts = {2}
  PacketRate = 2
  SeqMod = 32
  TotalMod = 32
  PktsToCount = 8
  TimeLimited = FALSE
INVARIANT
  SamePacketForEachGroup
CHECK_DEADLOCK FALSE
