SPECIFICATION FairSpec
CONSTANTS
  Settings <- Held
  DatalengthMin = 2
  PtyCapacity = 1
  DataLen = 2
  MaxOutput = 1
  MaxPackets = 1
  Kinds = {"data", "empty"}
  External = {}
  Ends = {"login", "slave", "cleared", "failed"}
  Faults = {}
PROPERTIES
  WaitsEnd
  ExpiredEnds
CHECK_DEADLOCK FALSE
