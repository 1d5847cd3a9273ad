SPECIFICATION Spec
CONSTANTS
  Session = {s1}
  Jobs = {}
  Task = {t1}
  Cap = 2
  WireCap = 1
  MaxEvents = 3
  MaxConn = 2
  MaxFaults = 1
INVARIANTS NoLoss DeliveredInOrder
PROPERTY ExactlyOnce
CHECK_DEADLOCK FALSE
