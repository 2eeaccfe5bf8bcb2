SPECIFICATION Spec
CONSTANTS
  Settings <- Tight
  DatalengthMin = 2
  PtyCapacity = 2
  DataLen = 1
  MaxOutput = 2
  MaxPackets = 1
  Kinds = {"data"}
  External = {"EXIT", "HUP"}
  Ends = {"login"}
  Faults = {"log", "cfg", "alloc"}
INVARIANTS
  PollWakes
  ExpiryNoticed
  WithdrawnOnce
  ReadsFitBuffer
PROPERTIES
  EntryRemoved
