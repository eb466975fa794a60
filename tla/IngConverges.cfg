\* Liveness: no symmetry.
SPECIFICATION FairSpec
CONSTANTS
  Keys = {k1, k2}
  Conns = {c1, c2}
  None = None
  Env = {"crash"}
  MaxVer = 3
  MaxFaults = 2
INVARIANTS
  SleepsWhenShown
PROPERTIES
  Converges
  ThreadsEnd
CHECK_DEADLOCK FALSE
