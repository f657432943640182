SPECIFICATION FairSpec
CHECK_DEADLOCK FALSE
CONSTANTS
  core = core
  Callbacks = {k1, k2}
  Loops = {l1, l2}
  Sockets = {s1, s2}
  None = None
  FreePort = 8080
  Overlap = {"stop"}
  Faults = {"probe", "bind"}
INVARIANTS
  TypeOK
  StateIsTrue
  StopIsFinal
PROPERTIES
  DeadServerRestarts
