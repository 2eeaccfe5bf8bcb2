SPECIFICATION FairSpec
CONSTANTS
  Calls = {}
  Pids <- TwoPids
  FifoSize = 1
  MaxForks = 1
  External = {"TERM"}
  Faults = {}
PROPERTIES
  StopStops
CHECK_DEADLOCK FALSE
