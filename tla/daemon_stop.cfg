SPECIFICATION FairSpec
CONSTANTS
  Calls = {c1}
  Pids <- TwoPids
  FifoSize = 1
  MaxForks = 2
  External = {"TERM", "HUP", "STOP"}
  Faults = {"listener", "monitor", "session", "reload"}
INVARIANTS
  OneListener
PROPERTIES
  StopHeard
  MessagesRead
CHECK_DEADLOCK FALSE
