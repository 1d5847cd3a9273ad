SPECIFICATION FairSpec
CONSTANTS
  Session = {s1}
  Jobs = {}
  Task = {t1}
  Cap = 2
  WireCap = 1
  MaxEvents = 2
  MaxConn = 2
  MaxFaults = 0
PROPERTIES SpoolDrains DrainEnds
CHECK_DEADLOCK FALSE
