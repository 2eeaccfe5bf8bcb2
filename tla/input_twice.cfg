SPECIFICATION Spec
CONSTANTS
  Settings <- Held
  DatalengthMin = 2
  PtyCapacity = 2
  DataLen = 3
  MaxOutput = 0
  MaxPackets = 1
  Kinds = {"data"}
  External = {"HUP"}
  Ends = {}
  Faults = {}
PROPERTIES
  InputOnce
