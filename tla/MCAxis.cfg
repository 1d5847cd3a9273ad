SPECIFICATION AxisSpec
CONSTANTS
  Writer = {w1, w2}
  NotePath = {a, b}
  Text = {x, y}
  NoNote = NoNote
  IoFails = TRUE
  Package = {1, 2}
  Legacy = {2}
  Core = 0
  Capability = {"c", "job.run"}
  BuiltIn = "job.run"
  Key = {"k", "l"}
  Manifest <- Fixed
  Declared = {d}
  Declaration = {v}
  Putter = {p1}
  NoRecord = NoRecord
  MaxTime = 2
  Chooser = {c}
  MaxStarts = 3
  PeerKey = {k1, k2}
  Name = {n1, n2}
  Token = {t1}
  Request = {r1, r2}
  MaxRequests = 4
  MaxBoots = 1
  Server = {m1}
  Skill = {s1}
  Hook = {h1, h2}
  Event = {e1}
  EventOf <- SameEvent
  Definition = {v1, v2}
  Absent = Absent
  Invalid = Invalid
  Poster = {p1, p2}
  MaxPosts = 2
  MaxChanges = 3
  ProxySlug = {u1}
  Artifact = {a1}
  Route = {x1, x2}
  NoRoute = NoRoute
  Caller = {c1, c2}
  MaxCalls = 3
  MaxFaults = 2
INVARIANTS CreatesAreExact  AuthorityKept OneRowPerKey   
PROPERTIES RefusedIsUnseen CaddyConverges
CHECK_DEADLOCK FALSE
