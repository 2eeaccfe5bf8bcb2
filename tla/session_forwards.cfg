SPECIFICATION ForwardSpec
CONSTANTS
  Settings <- Held
  DatalengthMin = 2
  PtyCapacity = 2
  DataLen = 3
  MaxOutput = 2
  MaxPackets = 1
  Kinds = {"data", "clear"}
  External = {"EXIT"}
  Ends = {"slave"}
  Faults = {}
INVARIANTS
  HangupFlushed
PROPERTIES
  OutputForwarded
  StopLeaves
  HangupLeaves
CHECK_DEADLOCK FALSE
