SPECIFICATION Spec
CONSTANTS
  Turn = {t1, t2}
  Steer = {s1}
  None = None
  Cap = 2
  Happens = {"fail", "disconnect", "ask"}
  MaxConn = 2
INVARIANTS MarkBelongsToTurn  NotCutShort
CHECK_DEADLOCK FALSE
SYMMETRY Symmetry
