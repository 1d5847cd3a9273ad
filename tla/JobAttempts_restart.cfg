SPECIFICATION FairSpec
CONSTANTS
  Job = {j1}
  Faults = {"orbit_restart", "io"}
  Retain = 1
  MaxConn = 3
  MaxChunks = 1
  MaxFaults = 1
INVARIANTS  NoOrphan ResultIsLast
PROPERTIES RunningEnds
CHECK_DEADLOCK FALSE
