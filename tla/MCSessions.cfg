SPECIFICATION SessionsSpec
CONSTANTS
  NativeId = {"n1", "n2"}
  HermesId = {"h1"}
  Card = {"k1"}
  Project = {"g1", "g2"}
  Stored = {"n1", "g1"}
  Window = 2
  AppendFails = TRUE
  MaxWork = 2
  MaxBoots = 1
  Foreign = {f1}
  Owned = {o}
  Limit = 2
  MaxRows = 4
  Client = {c}
  Handler = {h1, h2}
  Organization = {o1, o2}
  Chat = {chat}
  Title = {t1, t2}
  NoTitle = NoTitle
  Held = 1
  MaxBroadcasts = 2
  s1 = s1
  s2 = s2
  Spawned = {s1, s2, s3}
  Asker = {a1, a2}
  Right = {"p"}
  Covers = {}
  MaxPatches = 2
  ParentOf <- OneFork
INVARIANTS  LogIsSound  ObservedInFull 
PROPERTIES  AuthorityNarrows
CHECK_DEADLOCK FALSE
SYMMETRY Alike
