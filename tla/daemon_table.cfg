SPECIFICATION Spec
CONSTANTS
  Calls = {c1, c2, c3}
  Pids <- TwoPids
  FifoSize = 2
  MaxForks = 1
  External = {"USR1"}
  Faults = {"session"}
INVARIANTS
  TypeOK
  FifoNoticed
  TableFollows
PROPERTIES
  RegisterKept
SYMMETRY AnyCalls
CHECK_DEADLOCK FALSE
