SPECIFICATION OrbitSpec
CONSTANTS
  Ensure = {c1, c2}
  Stop = {s1}
  Reaper = reaper
  NoRuntime = none
  Threshold = 1
  Command = {p1}
  Modelled = {p1}
  Transcript = 1
  Garbles = TRUE
  Relay = {r1, r2}
  MaxSpawns = 2
  MaxLinks = 2
INVARIANTS OneStart NoStray ExitIsTold
PROPERTIES DeathEndsStart DeadIsReaped
CHECK_DEADLOCK FALSE
