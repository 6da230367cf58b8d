SPECIFICATION FairSpec
CONSTANTS
  Octets = 2
  OctetBase = 4
  Ports <- MCPorts
  Rates <- MCRates
  Nics <- MCNics
  PortMod = 8
  MinPort = 2
  MaxPort = 5
  MaxRate = 20
  MinMcIp = 5
  MaxMcIp = 11
  Adapters <- MCAdapters
  NicMod = 4
  ExpectedDataSize = 3
  AddrSize = 5
  MaxPendingRecvs = 4
  DwordMod = 32
  Granularity = 8
INVARIANTS
  RangeExpanded
  WrongOrderNeverStarts
  SessionHasRoom
  LastOctetRanges
PROPERTY
  StartsOrEnds
CHECK_DEADLOCK FALSE
