SPECIFICATION FairSpec
CONSTANTS
  Calls = {}
  Pids <- TwoPids
  FifoSize = 1
  MaxForks = 1
  External = {"USR1"}
  Faults = {}
PROPERTIES
  RereadReads
CHECK_DEADLOCK FALSE
