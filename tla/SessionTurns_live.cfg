SPECIFICATION FairSpec
CONSTANTS
  Turn = {t1, t2}
  Steer = {}
  None = None
  Cap = 1
  Happens = {"disconnect", "io", "cancel"}
  MaxConn = 1
PROPERTY CalmTurnsEnd
CHECK_DEADLOCK FALSE
