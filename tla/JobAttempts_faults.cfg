SPECIFICATION Spec
CONSTANTS
  Job = {j1}
  Faults = {"disconnect", "axis_restart", "orbit_restart"}
  Retain = 1
  MaxConn = 2
  MaxChunks = 1
  MaxFaults = 1
INVARIANTS VerdictIsReal AcceptedIsRetained

CHECK_DEADLOCK FALSE
