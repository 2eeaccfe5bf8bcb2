SPECIFICATION Spec
CONSTANTS
  Settings <- Held
  DatalengthMin = 2
  PtyCapacity = 4
  DataLen = 1
  MaxOutput = 8
  MaxPackets = 1
  Kinds = {"data"}
  External = {}
  Ends = {}
  Faults = {}
INVARIANTS
  EofIsReal
