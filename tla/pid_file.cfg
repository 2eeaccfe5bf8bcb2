SPECIFICATION Spec
CONSTANTS
  Short = {p1, p2}
  Long = {q1}
  Pids <- ThePids
  NoPid = NoPid
  Inodes = {i1, i2}
  NoInode = NoInode
  Faults = {"early", "leave", "crash"}
INVARIANTS
  TypeOK
  OneDaemon
  FileNamesDaemon
  DaemonFound
  FileGone
SYMMETRY AnyIds
CHECK_DEADLOCK FALSE
