SPECIFICATION StoreSpec
CONSTANTS
  NativeId = {"n1", "n2"}
  HermesId = {"h1"}
  Card = {"k1"}
  Project = {"g1"}
  Stored = {"n1", "k1"}
  Window = 2
  AppendFails = FALSE
  MaxWork = 2
  MaxBoots = 1
PROPERTY RowsKept
CHECK_DEADLOCK FALSE
