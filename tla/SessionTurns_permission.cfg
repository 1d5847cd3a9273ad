SPECIFICATION Spec
CONSTANTS
  Turn = {t1}
  Steer = {}
  None = None
  Cap = 1
  Happens = {"ask"}
  MaxConn = 0
INVARIANT AskedIsAwaiting
CHECK_DEADLOCK FALSE
