SPECIFICATION Spec
CONSTANTS
  Settings <- Tight
  DatalengthMin = 2
  PtyCapacity = 3
  DataLen = 1
  MaxOutput = 5
  MaxPackets = 1
  Kinds = {"data"}
  External = {"USR1"}
  Ends = {}
  Faults = {"poll", "master", "pty", "sock"}
INVARIANTS
  TypeOK
  OutputInOrder
  HeldBytesDue
  MinlimitPositive
PROPERTIES
  StreamKept
